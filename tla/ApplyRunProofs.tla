--------------------------- MODULE ApplyRunProofs ---------------------------
(***************************************************************************)
(* Proofs about one run of "apply": its types, the consent behind every    *)
(* deletion, the limits of a category, the bytes it reports as freed and   *)
(* its exit code, for every plan, consent config and command line.         *)
(***************************************************************************)
EXTENDS ApplyRun, FiniteFacts, SequenceTheorems

-----------------------------------------------------------------------------
(* The plan and the approvals.                                             *)

\* The first position of a set of positions is one of them.
LEMMA FirstIn ==
    ASSUME NEW n \in Nat, NEW S, S \subseteq 1..n, S # {}
    PROVE  First(S) \in S /\ \A j \in S : First(S) <= j
<1>1. \E k \in S : \A j \in S : k <= j
  BY FirstPosition
<1> QED
  BY <1>1 DEF First

\* The only position of a set is its first.
LEMMA FirstOnly ==
    ASSUME NEW k \in Nat
    PROVE  First({k}) = k
<1>1. \E i \in {k} : \A j \in {k} : i <= j
  OBVIOUS
<1> QED
  BY <1>1 DEF First

\* What a plan of the program is made of.
LEMMA PlanParts ==
    ASSUME plan \in Scenario
    PROVE  /\ plan.items \in Seq(Cands) /\ plan.rules \in Seq(Rule)
           /\ plan.approvals \in Seq(Approval)
           /\ plan.paths \subseteq Cands /\ plan.categories \subseteq plan.enabled
           /\ plan.enabled \subseteq Ids /\ plan.review \subseteq Cands
           /\ Len(plan.rules) \in Nat /\ Rules = 1..Len(plan.rules)
           /\ Len(plan.approvals) \in Nat /\ DOMAIN plan.approvals = 1..Len(plan.approvals)
<1>1. plan.rules \in Seq(Rule) /\ plan.approvals \in Seq(Approval) /\ plan.items \in Seq(Cands)
  BY DEF Scenario
<1>2. Len(plan.rules) \in Nat /\ Rules = 1..Len(plan.rules)
  BY <1>1 DEF Rules
<1>3. Len(plan.approvals) \in Nat /\ DOMAIN plan.approvals = 1..Len(plan.approvals)
  BY <1>1
<1> QED
  BY <1>1, <1>2, <1>3 DEF Scenario

\* The fields of a rule.
LEMMA RuleParts ==
    ASSUME plan \in Scenario, NEW k \in Rules
    PROVE  /\ plan.rules[k].id \in Ids /\ plan.rules[k].covers \subseteq Cands
           /\ plan.rules[k].valid \in BOOLEAN
           /\ plan.rules[k].maxCount \in Nat /\ plan.rules[k].maxBytes \in Nat
           /\ plan.rules[k].checks \subseteq Optional \cup {Unsupported}
<1>1. plan.rules[k] \in Rule
  BY PlanParts
<1> QED
  BY <1>1 DEF Rule

\* The fields of an approval.
LEMMA ApprovalParts ==
    ASSUME plan \in Scenario, NEW k \in DOMAIN plan.approvals
    PROVE  /\ plan.approvals[k].cand \in Cands /\ plan.approvals[k].match \in {"equal", "same", "other"}
           /\ plan.approvals[k].checks \subseteq Optional \cup {Unsupported}
<1>1. plan.approvals[k] \in Approval
  BY PlanParts
<1> QED
  BY <1>1 DEF Approval

\* The first rule with an id that some rule has.
LEMMA RuleOfIn ==
    ASSUME plan \in Scenario, NEW k \in Rules
    PROVE  LET id == plan.rules[k].id IN
           RuleOf(id) \in Rules /\ plan.rules[RuleOf(id)].id = id
<1> DEFINE id == plan.rules[k].id
<1> DEFINE S == {j \in Rules : plan.rules[j].id = id}
<1>1. S \subseteq 1..Len(plan.rules) /\ S # {} /\ Len(plan.rules) \in Nat
  BY PlanParts
<1>2. First(S) \in S
  <2> HIDE DEF S
  <2> QED
    BY <1>1, FirstIn
<1> QED
  BY <1>2 DEF RuleOf

\* With one rule per id it is that rule.
LEMMA RuleOfOnly ==
    ASSUME plan \in Scenario, DistinctIds, NEW k \in Rules
    PROVE  RuleOf(plan.rules[k].id) = k
<1>1. RuleOf(plan.rules[k].id) \in Rules /\ plan.rules[RuleOf(plan.rules[k].id)].id = plan.rules[k].id
  BY RuleOfIn
<1> QED
  BY <1>1 DEF DistinctIds

\* A category the command line approves for a candidate is the id of a
\* matching rule, and every matching rule it names gives one.
LEMMA RuleForIs ==
    ASSUME plan \in Scenario, NEW c
    PROVE  LET S == {k \in Matching(c) : plan.rules[k].id \in plan.categories} IN
           IF S = {} THEN RuleForCandidate(c) = NoId
           ELSE \E k \in S : RuleForCandidate(c) = plan.rules[k].id /\ k = First(S)
<1> DEFINE S == {k \in Matching(c) : plan.rules[k].id \in plan.categories}
<1>1. S \subseteq 1..Len(plan.rules) /\ Len(plan.rules) \in Nat
  BY PlanParts DEF Matching
<1>2. S # {} => First(S) \in S
  <2> HIDE DEF S
  <2> QED
    BY <1>1, FirstIn
<1>3. RuleForCandidate(c) = IF S = {} THEN NoId ELSE plan.rules[First(S)].id
  BY DEF RuleForCandidate
<1> QED
  BY <1>2, <1>3

\* The shape of every approval.
LEMMA ApprovedShape ==
    ASSUME plan \in Scenario, NEW c, NEW paths
    PROVE  LET g == Approved(c, paths) IN
           /\ g.ok \in BOOLEAN /\ g.rule \in 0..Len(plan.rules) /\ g.id \in Ids \cup {NoId}
           /\ g.id = NoId => g.rule = 0
           /\ g.id = NoId /\ g.ok => g = Exact
           /\ g.id = NoId /\ g.ok /\ ConfigFor(c) # {} => /\ SameIdentity(First(ConfigFor(c)))
                                                        /\ First(ConfigFor(c)) \in ConfigFor(c)
           /\ g.id = NoId /\ g.ok /\ ConfigFor(c) = {} => c \in paths
           /\ g.id # NoId => /\ g.ok /\ ConfigFor(c) = {} /\ c \notin paths
                             /\ g.rule \in Rules /\ Matching(c) = {g.rule}
                             /\ g.id = plan.rules[g.rule].id /\ plan.rules[g.rule].valid
<1> USE DEF Refused, Exact
<1> DEFINE g == Approved(c, paths)
<1>0. Len(plan.rules) \in Nat /\ Rules = 1..Len(plan.rules)
  BY PlanParts
<1>1. CASE ConfigFor(c) # {}
  <2>1. ConfigFor(c) \subseteq 1..Len(plan.approvals) /\ Len(plan.approvals) \in Nat
    BY PlanParts DEF ConfigFor
  <2>2. First(ConfigFor(c)) \in ConfigFor(c)
    BY <1>1, <2>1, FirstIn
  <2>3. SameIdentity(First(ConfigFor(c))) \in BOOLEAN
    BY DEF SameIdentity
  <2>4. g = IF SameIdentity(First(ConfigFor(c))) THEN Exact ELSE Refused
    BY <1>1 DEF Approved
  <2> QED
    BY <1>0, <1>1, <2>2, <2>3, <2>4
<1>2. CASE ConfigFor(c) = {} /\ c \in paths
  <2>1. g = Exact
    BY <1>2 DEF Approved
  <2> QED
    BY <1>0, <1>2, <2>1
<1>3. CASE /\ ConfigFor(c) = {} /\ c \notin paths
           /\ \E k \in Rules : Matching(c) = {k} /\ plan.rules[k].valid
  <2>1. PICK k \in Rules : Matching(c) = {k} /\ plan.rules[k].valid
    BY <1>3
  <2>2. First(Matching(c)) = k
    BY <1>0, <2>1, FirstOnly
  <2>3. g = [ok |-> TRUE, rule |-> k, id |-> plan.rules[k].id]
    BY <1>3, <2>2 DEF Approved
  <2>4. plan.rules[k].id \in Ids
    BY RuleParts
  <2>5. NoId \notin Ids
    BY ApplyAssumption
  <2>6. g.ok = TRUE /\ g.rule = k /\ g.id = plan.rules[k].id
    BY <2>3
  <2>7. Matching(c) = {g.rule}
    BY <2>1, <2>6
  <2>8. g.rule \in 0..Len(plan.rules) /\ g.rule \in Rules /\ plan.rules[g.rule].valid
    BY <1>0, <2>1, <2>6
  <2> HIDE DEF g
  <2> QED
    BY <1>3, <2>4, <2>5, <2>6, <2>7, <2>8 DEF g
<1>4. CASE /\ ConfigFor(c) = {} /\ c \notin paths
           /\ ~\E k \in Rules : Matching(c) = {k} /\ plan.rules[k].valid
  <2>1. g = Refused
    BY <1>4 DEF Approved
  <2> QED
    BY <1>0, <1>4, <2>1
<1> QED
  BY <1>1, <1>2, <1>3, <1>4

\* The checks that are run are checks of the consent config or optional ones.
LEMMA CollectedTyped ==
    ASSUME plan \in Scenario, NEW c
    PROVE  Collected(c) \subseteq Optional \cup {Unsupported}
<1> DEFINE S == {k \in ConfigFor(c) : plan.approvals[k].match = "equal"}
<1>1. S \subseteq 1..Len(plan.approvals) /\ Len(plan.approvals) \in Nat
  BY PlanParts DEF ConfigFor
<1>2. S # {} => First(S) \in S
  <2> HIDE DEF S
  <2> QED
    BY <1>1, FirstIn
<1>3. S # {} => plan.approvals[First(S)].checks \subseteq Optional \cup {Unsupported}
  BY <1>2, ApprovalParts DEF ConfigFor
<1>4. RuleForCandidate(c) # NoId => plan.rules[RuleOf(RuleForCandidate(c))].checks
                                       \subseteq Optional \cup {Unsupported}
  <2> SUFFICES ASSUME RuleForCandidate(c) # NoId
               PROVE  plan.rules[RuleOf(RuleForCandidate(c))].checks
                          \subseteq Optional \cup {Unsupported}
    OBVIOUS
  <2>1. PICK k \in Matching(c) : RuleForCandidate(c) = plan.rules[k].id
    BY RuleForIs
  <2>2. RuleOf(RuleForCandidate(c)) \in Rules
    BY <2>1, RuleOfIn DEF Matching
  <2> QED
    BY <2>2, RuleParts
<1>5. Collected(c) = IF RuleForCandidate(c) # NoId
                     THEN plan.rules[RuleOf(RuleForCandidate(c))].checks
                     ELSE IF S # {} THEN plan.approvals[First(S)].checks ELSE Optional
  BY DEF Collected
<1> QED
  BY <1>3, <1>4, <1>5

\* A candidate and what is below it are finitely many candidates.
LEMMA TreeFinite ==
    ASSUME NEW c \in Cands
    PROVE  Tree(c) \subseteq Cands /\ IsFiniteSet(Tree(c)) /\ c \in Tree(c) /\ IsFiniteSet(Cands)
<1>1. Tree(c) \subseteq Cands /\ c \in Tree(c)
  BY ApplyAssumption DEF Tree
<1> QED
  BY <1>1, ApplyAssumption, FS_Subset

\* What a candidate frees is a number of bytes.
LEMMA TotalNat ==
    ASSUME own \in [Cands -> Nat], NEW c \in Cands
    PROVE  Total(c) \in Nat
<1>1. IsFiniteSet(Tree(c)) /\ \A x \in Tree(c) : own[x] \in Nat
  BY TreeFinite
<1> QED
  BY <1>1, SumNat DEF Total

-----------------------------------------------------------------------------
(* Types.                                                                  *)

\* As long as the plan stays, so does everything that is read from it.
LEMMA PlanFixed ==
    ASSUME UNCHANGED plan
    PROVE  /\ Rules' = Rules /\ (DistinctIds' <=> DistinctIds)
           /\ \A c : Matching(c)' = Matching(c) /\ ConfigFor(c)' = ConfigFor(c)
           /\ \A id : RuleOf(id)' = RuleOf(id)
           /\ \A c : Approved(c, plan.paths)' = Approved(c, plan.paths)
           /\ \A c : Chosen(c)' <=> Chosen(c)
           /\ \A c, g : Required(c, g)' = Required(c, g)
<1>1. Rules' = Rules
  BY DEF Rules
<1>2. DistinctIds' <=> DistinctIds
  BY <1>1 DEF DistinctIds
<1>3. \A c : Matching(c)' = Matching(c)
  BY <1>1 DEF Matching
<1>4. \A c : ConfigFor(c)' = ConfigFor(c)
  BY DEF ConfigFor
<1>5. \A id : RuleOf(id)' = RuleOf(id)
  BY <1>1 DEF RuleOf
<1>6. \A c, paths : Approved(c, paths)' = Approved(c, paths)
  BY <1>1, <1>3, <1>4 DEF Approved, SameIdentity
<1>7. \A c : RuleForCandidate(c)' = RuleForCandidate(c)
  BY <1>3 DEF RuleForCandidate
<1>8. \A c : Chosen(c)' <=> Chosen(c)
  BY <1>6, <1>7 DEF Chosen, Eligible, Planned
<1>9. \A c, g : Required(c, g)' = Required(c, g)
  BY <1>4, <1>5 DEF Required
<1> QED
  BY <1>1, <1>2, <1>3, <1>4, <1>5, <1>6, <1>8, <1>9

\* Types, with the selection they need to be kept.
Typed == TypeOK /\ SelectionInv

\* What is freed by a partial deletion is a number of bytes.
LEMMA FreedNat ==
    ASSUME own \in [Cands -> Nat], NEW c \in Cands, NEW left \in [Tree(c) -> Nat],
           \A x \in Tree(c) : left[x] <= own[x]
    PROVE  SumFunctionOnSet([x \in Tree(c) |-> own[x] - left[x]], Tree(c)) \in Nat
<1> DEFINE f == [x \in Tree(c) |-> own[x] - left[x]]
<1>1. IsFiniteSet(Tree(c)) /\ Tree(c) \subseteq Cands
  BY TreeFinite
<1>2. \A x \in Tree(c) : f[x] \in Nat
  BY <1>1
<1> HIDE DEF f
<1> QED
  BY <1>1, <1>2, SumNat

\* Appending keeps a sequence typed, and adds one element at the end.
LEMMA Appended ==
    ASSUME NEW T, NEW s \in Seq(T), NEW x \in T
    PROVE  /\ Append(s, x) \in Seq(T) /\ Len(s) \in Nat /\ Len(Append(s, x)) = Len(s) + 1
           /\ DOMAIN s = 1..Len(s) /\ DOMAIN Append(s, x) = 1..(Len(s) + 1)
           /\ \A k \in 1..Len(s) : Append(s, x)[k] = s[k] /\ s[k] \in T
           /\ Append(s, x)[Len(s) + 1] = x
  OBVIOUS

\* An error ends the program and changes nothing else.
LEMMA RaiseTyped ==
    ASSUME Typed, Raise
    PROVE  Typed'
<1>1. UNCHANGED plan
  BY DEF Raise, worldVars
<1>2. TypeOK'
  BY <1>1, PlanFixed DEF Typed, TypeOK, Raise, worldVars, runVars, Scenario
<1>3. SelectionInv'
  BY <1>1, PlanFixed DEF Typed, TypeOK, SelectionInv, InHand, Raise
<1> QED
  BY <1>2, <1>3 DEF Typed

\* A result that is not a contradiction in itself.
LEMMA FinishTyped ==
    ASSUME Typed, NEW c \in Cands, NEW status \in {"rejected", "partial", "deleted"},
           NEW freed \in Nat, status = "partial" => freed > 0, status = "rejected" => freed = 0,
           Finish(c, status, freed)
    PROVE  /\ results' \in Seq(Results) /\ at' \in Nat \ {0} /\ pc' = "next" /\ clear' \subseteq Optional
           /\ granted'.id \in Ids \cup {NoId} /\ granted'.rule = 0
<1>1. [cand |-> c, status |-> status, freed |-> freed] \in Results
  BY DEF Results
<1>2. results' \in Seq(Results)
  BY <1>1, Appended DEF Finish, Typed, TypeOK
<1> QED
  BY <1>2 DEF Finish, Typed, TypeOK, NotGranted

\* The candidate in hand is one.
LEMMA InHandCand ==
    ASSUME Typed, pc \in {"collect", "recheck", "unlink"} \/ (pc = "next" /\ at <= Len(selected))
    PROVE  selected[at] \in Cands /\ at \in DOMAIN selected /\ at \in 1..Len(selected)
  BY DEF Typed, TypeOK, SelectionInv, InHand

\* A rejection keeps the types.
LEMMA RejectTyped ==
    ASSUME Typed, NEW c \in Cands, Reject(c)
    PROVE  Typed'
<1>1. UNCHANGED plan
  BY DEF Reject, worldVars
<1>2. /\ results' \in Seq(Results) /\ at' \in Nat \ {0} /\ pc' = "next" /\ clear' \subseteq Optional
      /\ granted'.id \in Ids \cup {NoId} /\ granted'.rule = 0
  <2>1. Finish(c, "rejected", 0)
    BY DEF Reject
  <2> QED
    BY <2>1, FinishTyped
<1>3. TypeOK'
  <2>1. /\ UNCHANGED <<own, intact, growth, selected, fresh, counts, spent, exit>>
        /\ TypeOK /\ 0 \in 0..Len(plan.rules)
    BY PlanParts DEF Reject, worldVars, Typed, TypeOK
  <2> QED
    BY <1>1, <1>2, <2>1 DEF TypeOK
<1>4. SelectionInv'
  BY <1>1, <1>2, PlanFixed DEF Typed, TypeOK, SelectionInv, InHand, Reject
<1> QED
  BY <1>3, <1>4 DEF Typed

\* So does the accounting of a deletion.
LEMMA AccountTyped ==
    ASSUME Typed, pc = "unlink", NEW c \in Cands, NEW status \in {"partial", "deleted"}, NEW freed \in Nat,
           Account(c, status, freed), own' \in [Cands -> Nat], intact' \subseteq Cands
    PROVE  Typed'
<1>1. UNCHANGED plan /\ UNCHANGED <<growth, selected, fresh, exit>>
  BY DEF Account
<1>2. Finish(c, Reported(status, freed), freed)
  BY DEF Account
<1>3. /\ results' \in Seq(Results) /\ at' \in Nat \ {0} /\ pc' = "next" /\ clear' \subseteq Optional
      /\ granted'.id \in Ids \cup {NoId} /\ granted'.rule = 0
  <2>1. /\ Reported(status, freed) \in {"rejected", "partial", "deleted"}
        /\ Reported(status, freed) = "partial" => freed > 0
        /\ Reported(status, freed) = "rejected" => freed = 0
    BY DEF Reported
  <2> QED
    BY <1>2, <2>1, FinishTyped
<1>4. counts' \in [Ids -> Nat] /\ spent' \in [Ids -> Nat]
  <2>1. counts \in [Ids -> Nat] /\ spent \in [Ids -> Nat] /\ granted.id \in Ids \cup {NoId}
    BY DEF Typed, TypeOK
  <2>2. CASE granted.id # NoId /\ (status = "deleted" \/ freed > 0)
    <3>1. counts' = [counts EXCEPT ![granted.id] = @ + 1] /\ spent' = [spent EXCEPT ![granted.id] = @ + freed]
      BY <2>2 DEF Account
    <3> QED
      BY <2>1, <2>2, <3>1
  <2>3. CASE ~(granted.id # NoId /\ (status = "deleted" \/ freed > 0))
    BY <2>1, <2>3 DEF Account
  <2> QED
    BY <2>2, <2>3
<1>5. TypeOK'
  <2>1. TypeOK /\ 0 \in 0..Len(plan.rules)
    BY PlanParts DEF Typed, TypeOK
  <2> QED
    BY <1>1, <1>3, <1>4, <2>1 DEF TypeOK
<1>6. SelectionInv'
  BY <1>1, <1>3, PlanFixed DEF Typed, TypeOK, SelectionInv, InHand
<1> QED
  BY <1>5, <1>6 DEF Typed

\* Every step of the run keeps the types, and so do other programs.
LEMMA TypedStep ==
    ASSUME Typed, [Next]_vars
    PROVE  Typed'
<1>1. CASE SelectItem
  <2> DEFINE c == plan.items[at]
  <2>1. CASE Raise
    BY <2>1, RaiseTyped
  <2>2. CASE /\ selected' = IF Chosen(c) THEN Append(selected, c) ELSE selected
             /\ at' = at + 1
             /\ UNCHANGED <<worldVars, runVars, pc, fresh, clear, granted, exit>>
    <3>1. c \in Cands /\ at \in Nat \ {0} /\ pc = "select"
      BY <1>1, PlanParts DEF SelectItem, Typed, TypeOK
    <3>2. UNCHANGED plan
      BY <2>2 DEF worldVars
    <3>3. selected' \in Seq(Cands) /\ \A k \in DOMAIN selected' : Chosen(selected'[k])
      <4>1. selected \in Seq(Cands) /\ \A k \in DOMAIN selected : Chosen(selected[k])
        BY DEF Typed, TypeOK, SelectionInv
      <4> HIDE DEF c
      <4>2. CASE Chosen(c)
        <5>1. selected' = Append(selected, c)
          BY <2>2, <4>2
        <5>2. \A k \in DOMAIN selected' : selected'[k] = c \/ (k \in DOMAIN selected /\ selected'[k] = selected[k])
          BY <3>1, <4>1, <5>1, Appended
        <5> QED
          BY <3>1, <4>1, <4>2, <5>1, <5>2, Appended
      <4>3. CASE ~Chosen(c)
        BY <2>2, <4>1, <4>3
      <4> QED
        BY <4>2, <4>3
    <3>4. TypeOK'
      BY <2>2, <3>1, <3>2, <3>3 DEF Typed, TypeOK, worldVars, runVars
    <3>5. \A k \in DOMAIN selected' : Chosen(selected[k])'
      BY <3>2, <3>3, PlanFixed
    <3> QED
      BY <2>2, <3>1, <3>4, <3>5 DEF Typed, SelectionInv, InHand
  <2> QED
    BY <1>1, <2>1, <2>2 DEF SelectItem
<1>2. CASE SelectDone
  <2>1. UNCHANGED plan
    BY <1>2 DEF SelectDone, worldVars
  <2>2. TypeOK'
    BY <1>2, <2>1 DEF SelectDone, Typed, TypeOK, worldVars, runVars
  <2> QED
    BY <1>2, <2>1, <2>2, PlanFixed DEF SelectDone, Typed, SelectionInv, InHand
<1>3. CASE Rescan
  <2>1. CASE Raise
    BY <2>1, RaiseTyped
  <2>2. CASE /\ fresh' \in SUBSET ToSet(selected)
             /\ pc' = "next"
             /\ UNCHANGED <<worldVars, runVars, at, selected, clear, granted, exit>>
    <3>1. UNCHANGED plan
      BY <2>2 DEF worldVars
    <3>2. ToSet(selected) \subseteq Cands
      BY DEF ToSet, Typed, TypeOK
    <3>3. TypeOK'
      BY <2>2, <3>1, <3>2 DEF Typed, TypeOK, worldVars, runVars
    <3> QED
      BY <2>2, <3>1, <3>3, PlanFixed DEF Typed, SelectionInv, InHand
  <2> QED
    BY <1>3, <2>1, <2>2 DEF Rescan
<1>4. CASE NextCandidate
  <2>1. PICK c \in Cands : c = selected[at]
    BY <1>4, InHandCand DEF NextCandidate
  <2>2. CASE Reject(c)
    BY <2>2, RejectTyped
  <2>3. CASE /\ pc' = "collect"
             /\ UNCHANGED <<worldVars, runVars, at, selected, fresh, clear, granted, exit>>
    <3>1. UNCHANGED plan
      BY <2>3 DEF worldVars
    <3>2. TypeOK'
      BY <2>3, <3>1 DEF Typed, TypeOK, worldVars, runVars
    <3> QED
      BY <1>4, <2>3, <3>1, <3>2, PlanFixed DEF NextCandidate, Typed, SelectionInv, InHand
  <2> QED
    BY <1>4, <2>1, <2>2, <2>3 DEF NextCandidate
<1>5. CASE Collect
  <2>1. PICK c \in Cands : c = selected[at]
    BY <1>5, InHandCand DEF Collect
  <2>2. CASE Raise
    BY <2>2, RaiseTyped
  <2>3. CASE /\ Unsupported \notin Collected(c)
             /\ clear' \in SUBSET Collected(c)
             /\ pc' = "recheck"
             /\ UNCHANGED <<worldVars, runVars, at, selected, fresh, granted, exit>>
    <3>1. UNCHANGED plan /\ plan \in Scenario
      BY <2>3 DEF worldVars, Typed, TypeOK
    <3>2. clear' \subseteq Optional
      BY <2>3, <3>1, CollectedTyped
    <3>3. TypeOK'
      BY <2>3, <3>1, <3>2 DEF Typed, TypeOK, worldVars, runVars
    <3> QED
      BY <1>5, <2>3, <3>1, <3>3, PlanFixed DEF Collect, Typed, SelectionInv, InHand
  <2> QED
    BY <1>5, <2>1, <2>2, <2>3 DEF Collect
<1>6. CASE Recheck
  <2>1. PICK c \in Cands : c = selected[at]
    BY <1>6, InHandCand DEF Recheck
  <2>2. CASE Reject(c)
    BY <2>2, RejectTyped
  <2>3. CASE Raise
    BY <2>3, RaiseTyped
  <2>4. CASE /\ granted' = [rule |-> Approved(c, plan.paths).rule, id |-> Approved(c, plan.paths).id]
             /\ pc' = "unlink"
             /\ UNCHANGED <<worldVars, runVars, at, selected, fresh, clear, exit>>
    <3>1. UNCHANGED plan /\ plan \in Scenario
      BY <2>4 DEF worldVars, Typed, TypeOK
    <3>2. granted'.id \in Ids \cup {NoId} /\ granted'.rule \in 0..Len(plan.rules)
      BY <2>4, <3>1, ApprovedShape
    <3>3. TypeOK'
      BY <2>4, <3>1, <3>2 DEF Typed, TypeOK, worldVars, runVars
    <3> QED
      BY <1>6, <2>4, <3>1, <3>3, PlanFixed DEF Recheck, Typed, SelectionInv, InHand
  <2> QED
    BY <1>6, <2>1, <2>2, <2>3, <2>4 DEF Recheck
<1>7. CASE UnlinkAll
  <2>1. PICK c \in Cands : c = selected[at]
    BY <1>7, InHandCand DEF UnlinkAll
  <2>2. own \in [Cands -> Nat] /\ intact \subseteq Cands
    BY DEF Typed, TypeOK
  <2>3. Total(c) \in Nat
    BY <2>2, TotalNat
  <2>4. own' \in [Cands -> Nat] /\ intact' \subseteq Cands
    BY <1>7, <2>2 DEF UnlinkAll
  <2>5. pc = "unlink" /\ Account(c, "deleted", Total(c))
    BY <1>7, <2>1 DEF UnlinkAll
  <2> QED
    BY <2>3, <2>4, <2>5, AccountTyped
<1>8. CASE UnlinkSome
  <2>1. PICK c \in Cands : c = selected[at]
    BY <1>8, InHandCand DEF UnlinkSome
  <2>2. PICK left \in [Tree(c) -> 0..Total(c)] :
          /\ \A x \in Tree(c) : left[x] <= own[x]
          /\ own' = [x \in Cands |-> IF x \in Tree(c) THEN left[x] ELSE own[x]]
          /\ intact' = intact \ {x \in Tree(c) : left[x] = 0}
          /\ Account(c, "partial", SumFunctionOnSet([x \in Tree(c) |-> own[x] - left[x]], Tree(c)))
    BY <1>8, <2>1 DEF UnlinkSome
  <2>3. own \in [Cands -> Nat] /\ intact \subseteq Cands /\ Tree(c) \subseteq Cands
    BY TreeFinite DEF Typed, TypeOK
  <2>4. left \in [Tree(c) -> Nat]
    OBVIOUS
  <2>5. SumFunctionOnSet([x \in Tree(c) |-> own[x] - left[x]], Tree(c)) \in Nat
    BY <2>2, <2>3, <2>4, FreedNat
  <2>6. own' \in [Cands -> Nat] /\ intact' \subseteq Cands
    BY <2>2, <2>3, <2>4
  <2>7. pc = "unlink"
    BY <1>8 DEF UnlinkSome
  <2> QED
    BY <2>2, <2>5, <2>6, <2>7, AccountTyped
<1>9. CASE UnlinkRaises
  BY <1>9, RaiseTyped DEF UnlinkRaises
<1>10. CASE Write
  <2>1. CASE Raise
    BY <2>1, RaiseTyped
  <2>2. CASE /\ exit' = ExitCode
             /\ pc' = "end"
             /\ UNCHANGED <<worldVars, runVars, at, selected, fresh, clear, granted>>
    <3>1. UNCHANGED plan
      BY <2>2 DEF worldVars
    <3>2. TypeOK'
      BY <2>2, <3>1 DEF Typed, TypeOK, worldVars, runVars, ExitCode
    <3> QED
      BY <2>2, <3>1, <3>2, PlanFixed DEF Typed, SelectionInv, InHand
  <2> QED
    BY <1>10, <2>1, <2>2 DEF Write
<1>11. CASE OtherPrograms
  <2>1. PICK c \in Cands : Grow(c)
    BY <1>11 DEF OtherPrograms
  <2>2. UNCHANGED plan /\ own' \in [Cands -> Nat] /\ intact' \subseteq Cands /\ growth' \in Nat
    BY <2>1 DEF Grow, Typed, TypeOK
  <2>3. TypeOK'
    BY <1>11, <2>2 DEF OtherPrograms, Typed, TypeOK, runVars
  <2> QED
    BY <1>11, <2>2, <2>3, PlanFixed DEF OtherPrograms, Typed, SelectionInv, InHand
<1>12. CASE UNCHANGED vars
  <2>1. UNCHANGED plan /\ TypeOK'
    BY <1>12 DEF vars, Typed, TypeOK
  <2> QED
    BY <1>12, <2>1, PlanFixed DEF vars, Typed, SelectionInv, InHand
<1> QED
  BY <1>1, <1>2, <1>3, <1>4, <1>5, <1>6, <1>7, <1>8, <1>9, <1>10, <1>11, <1>12 DEF Next, Run

\* The first state is typed.
LEMMA TypedInit ==
    ASSUME Init
    PROVE  Typed
<1>1. plan \in Scenario /\ Len(plan.rules) \in Nat
  BY ApplyAssumption, PlanParts DEF Init
<1>2. TypeOK
  BY <1>1, ApplyAssumption DEF Init, TypeOK, NotGranted
<1> QED
  BY <1>2 DEF Typed, SelectionInv, InHand, Init

\* Every state of a run is typed.
THEOREM TypesHold == Spec => []Typed
<1> QED
  BY TypedInit, TypedStep, PTL DEF Spec

\* command_apply and execute_delete: every variable keeps its type, and only
\* chosen candidates are selected.
THEOREM TypeCorrect == Spec => []TypeOK /\ []SelectionInv
<1>1. Typed => TypeOK /\ SelectionInv
  BY DEF Typed
<1> QED
  BY <1>1, TypesHold, PTL

-----------------------------------------------------------------------------
(* The kinds of steps.                                                     *)

\* The recheck grants the deletion of the candidate in hand.
Granting ==
    \E c \in Cands :
        LET g == Approved(c, plan.paths)
            r == plan.rules[RuleOf(g.id)]
        IN
        /\ c = selected[at] /\ at \in DOMAIN selected
        /\ g.ok /\ Required(c, g) \subseteq clear
        /\ g.id # NoId => ~CountFull(r, g.id) /\ ~BytesFull(r, g.id, Total(c))
        /\ granted' = [rule |-> g.rule, id |-> g.id]
        /\ pc' = "unlink"
        /\ UNCHANGED <<worldVars, runVars, at, selected, fresh, clear, exit>>

\* Some of the candidate in hand is removed, and accounted for.
Deleting ==
    \E c \in Cands, status \in {"partial", "deleted"}, freed \in Nat :
        /\ c = selected[at] /\ at \in DOMAIN selected /\ pc = "unlink"
        /\ Account(c, status, freed)
        /\ freed <= Total(c)
        /\ own' \in [Cands -> Nat] /\ \A x \in Cands \ Tree(c) : own'[x] = own[x]
        /\ SumFunctionOnSet(own', Tree(c)) + freed = Total(c)
        /\ intact' \subseteq intact /\ (status = "deleted" => Tree(c) \cap intact' = {})

\* Another program writes below a candidate.
Growing ==
    /\ \E d \in Cands : Grow(d)
    /\ UNCHANGED <<runVars, pc, at, selected, fresh, clear, granted, exit>>

\* Nothing is removed, and nothing is granted.
Quiet == UNCHANGED <<own, growth, counts, spent, ledger>> /\ pc' # "unlink"

\* What goes and what is left of a candidate make up what it had.
LEMMA PartialSplit ==
    ASSUME own \in [Cands -> Nat], own' \in [Cands -> Nat], NEW c \in Cands, NEW left \in [Tree(c) -> Nat],
           \A x \in Tree(c) : left[x] <= own[x] /\ own'[x] = left[x]
    PROVE  LET freed == SumFunctionOnSet([x \in Tree(c) |-> own[x] - left[x]], Tree(c)) IN
           /\ freed \in Nat /\ freed <= Total(c)
           /\ SumFunctionOnSet(own', Tree(c)) + freed = Total(c)
<1> DEFINE f == [x \in Tree(c) |-> own[x] - left[x]]
<1>1. IsFiniteSet(Tree(c)) /\ Tree(c) \subseteq Cands
  BY TreeFinite
<1>2. \A x \in Tree(c) : own'[x] \in Nat /\ f[x] \in Int /\ own[x] = own'[x] + f[x]
  BY <1>1
<1>3. SumFunctionOnSet(f, Tree(c)) \in Nat
  BY FreedNat
<1> HIDE DEF f
<1>4. SumFunctionOnSet(own, Tree(c)) = SumFunctionOnSet(own', Tree(c)) + SumFunctionOnSet(f, Tree(c))
  BY <1>1, <1>2, SumPlus
<1>5. SumFunctionOnSet(own', Tree(c)) \in Nat
  BY <1>1, <1>2, SumNat
<1>6. /\ SumFunctionOnSet(f, Tree(c)) <= SumFunctionOnSet(own, Tree(c))
      /\ SumFunctionOnSet(own', Tree(c)) + SumFunctionOnSet(f, Tree(c)) = SumFunctionOnSet(own, Tree(c))
  BY <1>3, <1>4, <1>5
<1> QED
  BY <1>3, <1>6 DEF f, Total

\* A deletion, whole or partial, is one of these.
LEMMA UnlinkDeletes ==
    ASSUME Typed, UnlinkAll \/ UnlinkSome
    PROVE  UNCHANGED plan /\ Deleting
<1>1. CASE UnlinkAll
  <2>1. PICK c \in Cands : c = selected[at] /\ at \in DOMAIN selected /\ pc = "unlink"
    BY <1>1, InHandCand DEF UnlinkAll
  <2>2. own \in [Cands -> Nat] /\ Total(c) \in Nat /\ IsFiniteSet(Tree(c)) /\ Tree(c) \subseteq Cands
    BY TotalNat, TreeFinite DEF Typed, TypeOK
  <2>3. /\ own' = [x \in Cands |-> IF x \in Tree(c) THEN 0 ELSE own[x]]
        /\ Account(c, "deleted", Total(c))
    BY <1>1, <2>1 DEF UnlinkAll
  <2>4. own' \in [Cands -> Nat] /\ \A x \in Cands \ Tree(c) : own'[x] = own[x]
    BY <2>2, <2>3
  <2>5. SumFunctionOnSet(own, Tree(c)) = SumFunctionOnSet(own', Tree(c)) + SumFunctionOnSet(own, Tree(c))
    <3>1. \A x \in Tree(c) : own'[x] \in Int /\ own[x] \in Int /\ own[x] = own'[x] + own[x]
      BY <2>2, <2>3
    <3> QED
      BY <2>2, <3>1, SumPlus
  <2>6. SumFunctionOnSet(own', Tree(c)) \in Nat
    <3>1. \A x \in Tree(c) : own'[x] \in Nat
      BY <2>2, <2>4
    <3> QED
      BY <2>2, <3>1, SumNat
  <2>7. SumFunctionOnSet(own', Tree(c)) + Total(c) = Total(c) /\ Total(c) <= Total(c)
    BY <2>2, <2>5, <2>6 DEF Total
  <2>8. intact' \subseteq intact /\ Tree(c) \cap intact' = {}
    BY <1>1, <2>1 DEF UnlinkAll
  <2>9. Deleting
    BY <2>1, <2>2, <2>3, <2>4, <2>7, <2>8 DEF Deleting
  <2> QED
    BY <2>3, <2>9 DEF Account
<1>2. CASE UnlinkSome
  <2>1. PICK c \in Cands : c = selected[at] /\ at \in DOMAIN selected /\ pc = "unlink"
    BY <1>2, InHandCand DEF UnlinkSome
  <2> DEFINE freed(left) == SumFunctionOnSet([x \in Tree(c) |-> own[x] - left[x]], Tree(c))
  <2>2. PICK left \in [Tree(c) -> 0..Total(c)] :
          /\ \A x \in Tree(c) : left[x] <= own[x]
          /\ own' = [x \in Cands |-> IF x \in Tree(c) THEN left[x] ELSE own[x]]
          /\ intact' \subseteq intact
          /\ Account(c, "partial", freed(left))
    BY <1>2, <2>1 DEF UnlinkSome
  <2>3. own \in [Cands -> Nat] /\ left \in [Tree(c) -> Nat] /\ Tree(c) \subseteq Cands
    BY TreeFinite DEF Typed, TypeOK
  <2>4. /\ own' \in [Cands -> Nat] /\ \A x \in Cands \ Tree(c) : own'[x] = own[x]
        /\ \A x \in Tree(c) : left[x] <= own[x] /\ own'[x] = left[x]
    BY <2>2, <2>3
  <2>5. /\ freed(left) \in Nat /\ freed(left) <= Total(c)
        /\ SumFunctionOnSet(own', Tree(c)) + freed(left) = Total(c)
    BY <2>3, <2>4, PartialSplit
  <2>6. Deleting
    <3> HIDE DEF freed
    <3> QED
      BY <2>1, <2>2, <2>4, <2>5 DEF Deleting
  <2> QED
    BY <2>2, <2>6 DEF Account
<1> QED
  BY <1>1, <1>2

\* Every step is of one of these kinds.
LEMMA StepKinds ==
    ASSUME Typed, [Next]_vars
    PROVE  UNCHANGED plan /\ (Quiet \/ Granting \/ Deleting \/ Growing \/ UNCHANGED vars)
<1>0. ASSUME Raise PROVE UNCHANGED plan /\ Quiet
  BY <1>0 DEF Raise, Quiet, worldVars, runVars
<1>00. ASSUME NEW c, Reject(c) PROVE UNCHANGED plan /\ Quiet
  BY <1>00 DEF Reject, Finish, Quiet, worldVars
<1>1. CASE SelectItem
  <2>1. CASE ~Raise
    BY <1>1, <2>1 DEF SelectItem, Quiet, worldVars, runVars
  <2> QED
    BY <1>0, <2>1
<1>2. CASE SelectDone
  BY <1>2 DEF SelectDone, Quiet, worldVars, runVars
<1>3. CASE Rescan
  <2>1. CASE ~Raise
    BY <1>3, <2>1 DEF Rescan, Quiet, worldVars, runVars
  <2> QED
    BY <1>0, <2>1
<1>4. CASE NextCandidate
  <2>1. CASE ~Reject(selected[at])
    BY <1>4, <2>1 DEF NextCandidate, Quiet, worldVars, runVars
  <2> QED
    BY <1>00, <2>1
<1>5. CASE Collect
  <2>1. CASE ~Raise
    BY <1>5, <2>1 DEF Collect, Quiet, worldVars, runVars
  <2> QED
    BY <1>0, <2>1
<1>6. CASE Recheck
  <2>1. PICK c \in Cands : c = selected[at]
    BY <1>6, InHandCand DEF Recheck
  <2>2. at \in DOMAIN selected
    BY <1>6, InHandCand DEF Recheck
  <2>3. CASE ~Reject(c) /\ ~Raise
    <3>1. Granting
      BY <1>6, <2>1, <2>2, <2>3 DEF Recheck, Granting
    <3>2. UNCHANGED plan
      BY <1>6, <2>1, <2>3 DEF Recheck, worldVars
    <3> QED
      BY <3>1, <3>2
  <2> QED
    BY <1>0, <1>00, <2>3
<1>7. CASE UnlinkAll \/ UnlinkSome
  BY <1>7, UnlinkDeletes
<1>9. CASE UnlinkRaises
  BY <1>0, <1>9 DEF UnlinkRaises
<1>10. CASE Write
  <2>1. CASE ~Raise
    BY <1>10, <2>1 DEF Write, Quiet, worldVars, runVars
  <2> QED
    BY <1>0, <2>1
<1>11. CASE OtherPrograms
  BY <1>11 DEF OtherPrograms, Growing, Grow
<1>12. CASE UNCHANGED vars
  BY <1>12 DEF vars
<1> QED
  BY <1>1, <1>2, <1>3, <1>4, <1>5, <1>6, <1>7, <1>9, <1>10, <1>11, <1>12 DEF Next, Run

-----------------------------------------------------------------------------
(* Consent.                                                                *)

\* Where the history grows by one entry, every entry is an old one or the new.
LEMMA LedgerAppended ==
    ASSUME NEW T, ledger \in Seq(T), NEW e \in T, ledger' = Append(ledger, e)
    PROVE  /\ ledger' \in Seq(T) /\ Len(ledger) \in Nat
           /\ Entries = 1..Len(ledger) /\ Entries' = Entries \cup {Len(ledger) + 1}
           /\ Len(ledger) + 1 \notin Entries /\ IsFiniteSet(Entries)
           /\ \A n \in Entries : ledger'[n] = ledger[n] /\ ledger[n] \in T
           /\ ledger'[Len(ledger) + 1] = e
<1>1. /\ ledger' \in Seq(T) /\ Len(ledger) \in Nat
      /\ DOMAIN ledger = 1..Len(ledger) /\ DOMAIN ledger' = 1..(Len(ledger) + 1)
      /\ \A k \in 1..Len(ledger) : ledger'[k] = ledger[k] /\ ledger[k] \in T
      /\ ledger'[Len(ledger) + 1] = e
  BY Appended
<1>2. Entries = 1..Len(ledger) /\ Entries' = 1..(Len(ledger) + 1)
  BY <1>1 DEF Entries
<1>3. IsFiniteSet(Entries)
  BY <1>1, <1>2, FS_Interval
<1>4. 1..(Len(ledger) + 1) = (1..Len(ledger)) \cup {Len(ledger) + 1} /\ Len(ledger) + 1 \notin 1..Len(ledger)
  BY <1>1
<1> QED
  BY <1>1, <1>2, <1>3, <1>4

\* The approval behind a deletion is read from the plan alone.
LEMMA BackedFixed ==
    ASSUME UNCHANGED plan
    PROVE  \A c, rule, id, checked : Backed(c, rule, id, checked)' <=> Backed(c, rule, id, checked)
<1>1. \A c : Approved(c, plan.paths)' = Approved(c, plan.paths)
  BY PlanFixed
<1>2. \A c, g : Required(c, g)' = Required(c, g)
  BY PlanFixed
<1> QED
  BY <1>1, <1>2 DEF Backed

\* What every entry of the history has.
EntryBacked(e) == Chosen(e.cand) /\ Backed(e.cand, e.rule, e.id, e.clear)

\* Every step keeps the consent behind what was removed.
LEMMA ConsentStep ==
    ASSUME Typed, Typed', ConsentInv, [Next]_vars
    PROVE  ConsentInv'
<1>0. UNCHANGED plan /\ (Quiet \/ Granting \/ Deleting \/ Growing \/ UNCHANGED vars)
  BY StepKinds
<1>1. \A e : EntryBacked(e)' <=> EntryBacked(e)
  BY <1>0, PlanFixed, BackedFixed DEF EntryBacked
<1>2. ASSUME UNCHANGED ledger
      PROVE  (/\ ledger \in Seq(Entry)
              /\ \A n \in Entries : LET e == ledger[n] IN Chosen(e.cand) /\ Backed(e.cand, e.rule, e.id, e.clear))'
  <2>1. \A n \in Entries : EntryBacked(ledger[n])
    BY DEF ConsentInv, EntryBacked
  <2>2. \A n \in Entries' : EntryBacked(ledger[n])'
    BY <1>1, <1>2, <2>1 DEF Entries
  <2> QED
    BY <1>2, <2>2 DEF ConsentInv, EntryBacked
<1>3. CASE Quiet
  BY <1>2, <1>3 DEF Quiet, ConsentInv
<1>4. CASE Granting
  <2>1. PICK c \in Cands :
          LET g == Approved(c, plan.paths) IN
          /\ c = selected[at]
          /\ g.ok /\ Required(c, g) \subseteq clear
          /\ granted' = [rule |-> g.rule, id |-> g.id]
          /\ UNCHANGED <<at, selected, clear, ledger>>
    BY <1>4 DEF Granting, runVars
  <2>2. Backed(c, granted'.rule, granted'.id, clear')
    BY <2>1 DEF Backed
  <2>3. Backed(selected[at], granted.rule, granted.id, clear)'
    BY <1>0, <2>1, <2>2, BackedFixed
  <2> QED
    BY <1>2, <2>1, <2>3 DEF ConsentInv
<1>5. CASE Deleting
  <2>1. PICK c \in Cands, status \in {"partial", "deleted"}, freed \in Nat :
          /\ c = selected[at] /\ at \in DOMAIN selected /\ pc = "unlink"
          /\ Account(c, status, freed)
    BY <1>5 DEF Deleting
  <2>2. pc' # "unlink"
    BY <2>1 DEF Account, Finish
  <2> DEFINE e == [cand |-> c, rule |-> granted.rule, id |-> granted.id,
                   freed |-> freed, clear |-> clear, whole |-> status = "deleted"]
  <2>3. CASE UNCHANGED ledger
    BY <1>2, <2>2, <2>3 DEF ConsentInv
  <2>4. CASE ledger' = Append(ledger, e)
    <3>1. e \in Entry
      <4>1. granted.rule \in Nat /\ granted.id \in Ids \cup {NoId} /\ clear \subseteq Optional
        BY PlanParts DEF Typed, TypeOK
      <4> QED
        BY <4>1 DEF Entry
    <3>2. EntryBacked(e)
      <4>1. Backed(c, granted.rule, granted.id, clear)
        BY <2>1 DEF ConsentInv
      <4>2. Chosen(c)
        BY <2>1 DEF Typed, SelectionInv
      <4> QED
        BY <4>1, <4>2 DEF EntryBacked
    <3>3. ledger \in Seq(Entry) /\ \A n \in Entries : EntryBacked(ledger[n])
      BY DEF ConsentInv, EntryBacked
    <3> HIDE DEF e
    <3>4. ledger' \in Seq(Entry) /\ \A n \in Entries' : EntryBacked(ledger'[n])
      BY <2>4, <3>1, <3>2, <3>3, LedgerAppended
    <3>5. \A n \in Entries' : EntryBacked(ledger[n])'
      BY <1>1, <3>4
    <3> QED
      BY <2>2, <3>4, <3>5 DEF ConsentInv, EntryBacked
  <2> QED
    BY <2>1, <2>3, <2>4 DEF Account
<1>6. CASE Growing
  <2>1. UNCHANGED <<ledger, pc, selected, at, granted, clear>>
    BY <1>6 DEF Growing, runVars
  <2>2. pc = "unlink" => Backed(selected[at], granted.rule, granted.id, clear)'
    BY <1>0, <2>1, BackedFixed DEF ConsentInv
  <2> QED
    BY <1>2, <2>1, <2>2 DEF ConsentInv
<1>7. CASE UNCHANGED vars
  <2>1. UNCHANGED <<ledger, pc, selected, at, granted, clear>>
    BY <1>7 DEF vars
  <2>2. pc = "unlink" => Backed(selected[at], granted.rule, granted.id, clear)'
    BY <1>0, <2>1, BackedFixed DEF ConsentInv
  <2> QED
    BY <1>2, <2>1, <2>2 DEF ConsentInv
<1> QED
  BY <1>0, <1>3, <1>4, <1>5, <1>6, <1>7

\* execute_delete: whatever was removed, and whatever is being removed, was
\* chosen by command_apply, has an approval, and the checks it requires.
THEOREM ConsentHolds == Spec => []ConsentInv
<1>1. Init => ConsentInv
  BY DEF Init, ConsentInv, Entries
<1>2. Typed /\ Typed' /\ ConsentInv /\ [Next]_vars => ConsentInv'
  BY ConsentStep
<1> QED
  BY <1>1, <1>2, TypesHold, PTL DEF Spec

\* cli.py command_apply, safety.py _approved: nothing is removed without a
\* category or a path that the command line names and that covers it.
THEOREM AuthorisedHolds == Spec => []Authorised
<1>1. ASSUME TypeOK, ConsentInv PROVE Authorised
  <2> SUFFICES ASSUME NEW n \in Entries
               PROVE  LET e == ledger[n] IN
                      /\ e.cand \in plan.paths
                           \/ \E k \in Matching(e.cand) : plan.rules[k].id \in plan.categories
                      /\ IF e.id = NoId THEN e.cand \in plan.paths
                                              \/ \E k \in ConfigFor(e.cand) : SameIdentity(k)
                         ELSE e.id \in plan.categories /\ Matching(e.cand) = {e.rule}
    BY DEF Authorised
  <2> DEFINE c == ledger[n].cand
             g == Approved(c, plan.paths)
  <2>1. Chosen(c) /\ g.ok /\ ledger[n].rule = g.rule /\ ledger[n].id = g.id /\ plan \in Scenario
    BY <1>1 DEF ConsentInv, Backed, TypeOK
  <2>2. c \in plan.paths \/ \E k \in Matching(c) : plan.rules[k].id \in plan.categories
    BY <2>1, RuleForIs DEF Chosen
  <2>3. g.id = NoId => c \in plan.paths \/ \E k \in ConfigFor(c) : SameIdentity(k)
    BY <2>1, ApprovedShape
  <2>4. g.id # NoId => c \notin plan.paths /\ Matching(c) = {g.rule} /\ g.id = plan.rules[g.rule].id
    BY <2>1, ApprovedShape
  <2>5. g.id # NoId => g.id \in plan.categories
    BY <2>2, <2>4
  <2> QED
    BY <2>1, <2>2, <2>3, <2>4, <2>5
<1> QED
  BY <1>1, TypeCorrect, ConsentHolds, PTL

\* cli.py _required_optional_checks, safety.py execute_delete: with one rule
\* per id, whatever was removed had passed the checks of its rule, of its
\* approval, or all of them.
THEOREM ChecksHonouredHolds == Spec => []ChecksHonoured
<1>1. ASSUME TypeOK, ConsentInv PROVE ChecksHonoured
  <2> SUFFICES ASSUME DistinctIds, NEW n \in Entries
               PROVE  LET e == ledger[n] IN
                      IF e.id # NoId THEN plan.rules[e.rule].checks \subseteq e.clear
                      ELSE IF ConfigFor(e.cand) # {}
                           THEN \E k \in ConfigFor(e.cand) :
                                    SameIdentity(k) /\ plan.approvals[k].checks \subseteq e.clear
                           ELSE Optional \subseteq e.clear
    BY DEF ChecksHonoured
  <2> DEFINE e == ledger[n]
             g == Approved(e.cand, plan.paths)
  <2>1. g.ok /\ e.rule = g.rule /\ e.id = g.id /\ Required(e.cand, g) \subseteq e.clear /\ plan \in Scenario
    BY <1>1 DEF ConsentInv, Backed, TypeOK
  <2>2. CASE g.id # NoId
    <3>1. g.rule \in Rules /\ g.id = plan.rules[g.rule].id
      BY <2>1, <2>2, ApprovedShape
    <3>2. RuleOf(g.id) = g.rule
      BY <2>1, <3>1, RuleOfOnly
    <3>3. Required(e.cand, g) = plan.rules[g.rule].checks
      BY <2>2, <3>2 DEF Required
    <3> QED
      BY <2>1, <2>2, <3>3
  <2>3. CASE g.id = NoId /\ ConfigFor(e.cand) # {}
    <3>1. /\ SameIdentity(First(ConfigFor(e.cand)))
          /\ First(ConfigFor(e.cand)) \in ConfigFor(e.cand)
      BY <2>1, <2>3, ApprovedShape
    <3>2. Required(e.cand, g) = plan.approvals[First(ConfigFor(e.cand))].checks
      BY <2>3 DEF Required
    <3> QED
      BY <2>1, <2>3, <3>1, <3>2
  <2>4. CASE g.id = NoId /\ ConfigFor(e.cand) = {}
    <3>1. Required(e.cand, g) = Optional
      BY <2>4 DEF Required
    <3> QED
      BY <2>1, <2>4, <3>1
  <2> QED
    BY <2>2, <2>3, <2>4
<1> QED
  BY <1>1, TypeCorrect, ConsentHolds, PTL

-----------------------------------------------------------------------------
(* Limits of a category, and bytes.                                        *)

\* Bytes freed by some entries of the history, before and after a new one.
LEMMA LedgerSums ==
    ASSUME ledger \in Seq(Entry), NEW e \in Entry, ledger' = Append(ledger, e)
    PROVE  LET f == [n \in Entries |-> ledger[n].freed]
               g == [n \in Entries' |-> ledger'[n].freed] IN
           \A S \in SUBSET Entries :
              /\ SumFunctionOnSet(g, S) = SumFunctionOnSet(f, S)
              /\ SumFunctionOnSet(g, S \cup {Len(ledger) + 1}) = SumFunctionOnSet(f, S) + e.freed
<1> DEFINE f == [n \in Entries |-> ledger[n].freed]
           g == [n \in Entries' |-> ledger'[n].freed]
           last == Len(ledger) + 1
<1>1. /\ Entries' = Entries \cup {last} /\ last \notin Entries /\ IsFiniteSet(Entries)
      /\ \A n \in Entries : ledger'[n] = ledger[n] /\ ledger[n] \in Entry
      /\ ledger'[last] = e
  BY LedgerAppended
<1>2. \A n \in Entries : f[n] \in Int /\ g[n] = f[n]
  <2> SUFFICES ASSUME NEW n \in Entries PROVE f[n] \in Int /\ g[n] = f[n]
    OBVIOUS
  <2>1. ledger[n].freed \in Nat /\ ledger'[n] = ledger[n] /\ n \in Entries'
    BY <1>1 DEF Entry
  <2>2. f[n] = ledger[n].freed /\ g[n] = ledger'[n].freed
    BY <2>1
  <2> HIDE DEF f, g
  <2> QED
    BY <2>1, <2>2
<1>3. g[last] = e.freed /\ e.freed \in Int
  BY <1>1 DEF Entry
<1>4. SUFFICES ASSUME NEW S \in SUBSET Entries
               PROVE  /\ SumFunctionOnSet(g, S) = SumFunctionOnSet(f, S)
                      /\ SumFunctionOnSet(g, S \cup {last}) = SumFunctionOnSet(f, S) + e.freed
  OBVIOUS
<1> HIDE DEF f, g, last
<1>5. IsFiniteSet(S) /\ last \notin S
  BY <1>1, FS_Subset
<1>6. SumFunctionOnSet(g, S) = SumFunctionOnSet(f, S)
  BY <1>2, <1>5, SumSame
<1>7. SumFunctionOnSet(f, S) \in Int
  BY <1>2, <1>5, SumInt
<1>8. SumFunctionOnSet(g, S \cup {last}) = g[last] + SumFunctionOnSet(g, S)
  <2>1. \A n \in S \cup {last} : g[n] \in Int
    BY <1>2, <1>3
  <2> QED
    BY <1>5, <2>1, SumAdd
<1> QED
  BY <1>3, <1>6, <1>7, <1>8

\* Bytes freed are a number of bytes.
LEMMA FreedTyped ==
    ASSUME ledger \in Seq(Entry)
    PROVE  IsFiniteSet(Entries) /\ \A S \in SUBSET Entries : Freed(S) \in Nat /\ IsFiniteSet(S)
<1> DEFINE f == [n \in Entries |-> ledger[n].freed]
<1>1. Entries = 1..Len(ledger) /\ Len(ledger) \in Nat /\ \A n \in Entries : ledger[n] \in Entry
  BY DEF Entries
<1>2. IsFiniteSet(Entries)
  BY <1>1, FS_Interval
<1>3. \A n \in Entries : f[n] \in Nat
  BY <1>1 DEF Entry
<1>4. ASSUME NEW S \in SUBSET Entries PROVE Freed(S) \in Nat /\ IsFiniteSet(S)
  <2>1. IsFiniteSet(S)
    BY <1>2, FS_Subset
  <2> HIDE DEF f
  <2>2. SumFunctionOnSet(f, S) \in Nat
    BY <1>3, <2>1, SumNat
  <2> QED
    BY <2>1, <2>2 DEF Freed, f
<1> QED
  BY <1>2, <1>4

\* What another program writes adds one byte to what it is written below of.
LEMMA GrowSums ==
    ASSUME own \in [Cands -> Nat], NEW d \in Cands, Grow(d), NEW S \in SUBSET Cands
    PROVE  /\ SumFunctionOnSet(own, S) \in Nat /\ SumFunctionOnSet(own', S) \in Nat
           /\ SumFunctionOnSet(own', S) = SumFunctionOnSet(own, S) + (IF d \in S THEN 1 ELSE 0)
<1>1. IsFiniteSet(S)
  BY ApplyAssumption, FS_Subset
<1>2. \A x \in S : own[x] \in Nat /\ own'[x] \in Nat /\ own'[x] = IF x = d THEN own[x] + 1 ELSE own[x]
  BY DEF Grow
<1>3. SumFunctionOnSet(own, S) \in Nat /\ SumFunctionOnSet(own', S) \in Nat
  BY <1>1, <1>2, SumNat
<1>4. CASE d \notin S
  <2>1. \A x \in S : own[x] \in Int /\ own'[x] = own[x]
    BY <1>2, <1>4
  <2>2. SumFunctionOnSet(own, S) = SumFunctionOnSet(own', S)
    BY <1>1, <2>1, SumSame
  <2> QED
    BY <1>3, <1>4, <2>2
<1>5. CASE d \in S
  <2> DEFINE R == S \ {d}
  <2>1. SumFunctionOnSet(own, S) = own[d] + SumFunctionOnSet(own, R)
    BY <1>1, <1>2, <1>5, SumRemove
  <2>2. SumFunctionOnSet(own', S) = own'[d] + SumFunctionOnSet(own', R)
    BY <1>1, <1>2, <1>5, SumRemove
  <2>3. IsFiniteSet(R) /\ \A x \in R : own[x] \in Nat /\ own'[x] = own[x]
    BY <1>1, <1>2, FS_Subset
  <2> HIDE DEF R
  <2>4. SumFunctionOnSet(own, R) = SumFunctionOnSet(own', R) /\ SumFunctionOnSet(own, R) \in Nat
    BY <2>3, SumSame, SumNat
  <2>5. own[d] \in Nat /\ own'[d] = own[d] + 1
    BY <1>2, <1>5
  <2>6. SumFunctionOnSet(own', S) = SumFunctionOnSet(own, S) + 1
    BY <2>1, <2>2, <2>4, <2>5
  <2> QED
    BY <1>3, <1>5, <2>6
<1> QED
  BY <1>3, <1>4, <1>5

\* The gates of execute_delete and its counters keep the limits of a rule.
LEMMA CountersStep ==
    ASSUME Typed, Typed', ConsentInv, CountersInv, [Next]_vars
    PROVE  CountersInv'
<1>0. UNCHANGED plan /\ plan \in Scenario /\ (Quiet \/ Granting \/ Deleting \/ Growing \/ UNCHANGED vars)
  BY StepKinds DEF Typed, TypeOK
<1>1. Rules' = Rules /\ (DistinctIds' <=> DistinctIds)
  BY <1>0, PlanFixed
<1> SUFFICES ASSUME DistinctIds, NEW k \in Rules
             PROVE  LET r == plan.rules[k] IN
                    /\ counts'[r.id] = Cardinality(UsedBy(k)') /\ counts'[r.id] <= r.maxCount
                    /\ spent'[r.id] = Freed(UsedBy(k))' /\ spent'[r.id] <= r.maxBytes + growth'
                    /\ pc' = "unlink" /\ granted'.rule = k =>
                          /\ counts'[r.id] < r.maxCount
                          /\ spent'[r.id] + Total(selected[at])' <= r.maxBytes + growth'
  BY <1>0, <1>1 DEF CountersInv
<1> DEFINE r == plan.rules[k]
<1>2. /\ r.id \in Ids /\ r.maxCount \in Nat /\ r.maxBytes \in Nat
      /\ counts[r.id] \in Nat /\ spent[r.id] \in Nat /\ growth \in Nat
      /\ counts[r.id] = Cardinality(UsedBy(k)) /\ counts[r.id] <= r.maxCount
      /\ spent[r.id] = Freed(UsedBy(k)) /\ spent[r.id] <= r.maxBytes + growth
  BY <1>0, RuleParts DEF CountersInv, Typed, TypeOK
<1>3. pc = "unlink" /\ granted.rule = k =>
         counts[r.id] < r.maxCount /\ spent[r.id] + Total(selected[at]) <= r.maxBytes + growth
  BY DEF CountersInv
<1>4. ledger \in Seq(Entry)
  BY DEF ConsentInv
<1>5. ASSUME UNCHANGED ledger PROVE UsedBy(k)' = UsedBy(k) /\ Freed(UsedBy(k))' = Freed(UsedBy(k))
  BY <1>5 DEF UsedBy, Freed, Entries
<1>6. CASE Quiet
  BY <1>2, <1>5, <1>6 DEF Quiet
<1>7. CASE Granting
  <2>1. PICK c \in Cands :
          LET g == Approved(c, plan.paths)
              s == plan.rules[RuleOf(g.id)] IN
          /\ c = selected[at] /\ g.ok
          /\ g.id # NoId => ~CountFull(s, g.id) /\ ~BytesFull(s, g.id, Total(c))
          /\ granted' = [rule |-> g.rule, id |-> g.id]
          /\ UNCHANGED <<own, growth, counts, spent, ledger, at, selected>>
    BY <1>7 DEF Granting, runVars, worldVars
  <2> DEFINE g == Approved(c, plan.paths)
  <2>2. ASSUME granted'.rule = k
        PROVE  counts[r.id] < r.maxCount /\ spent[r.id] + Total(c) <= r.maxBytes + growth
    <3>1. g.rule = k /\ k # 0
      BY <1>0, <2>1, <2>2, PlanParts
    <3>2. g.id # NoId /\ g.id = r.id
      BY <1>0, <3>1, ApprovedShape
    <3>3. RuleOf(g.id) = k
      BY <1>0, <3>2, RuleOfOnly
    <3>4. ~CountFull(r, r.id) /\ ~BytesFull(r, r.id, Total(c))
      BY <2>1, <3>2, <3>3
    <3>5. Total(c) \in Nat
      BY TotalNat DEF Typed, TypeOK
    <3> QED
      BY <1>2, <3>4, <3>5 DEF CountFull, BytesFull
  <2>3. Total(selected[at])' = Total(c)
    BY <2>1 DEF Total, Tree
  <2> QED
    BY <1>2, <1>5, <2>1, <2>2, <2>3
<1>8. CASE Deleting
  <2>1. PICK c \in Cands, status \in {"partial", "deleted"}, freed \in Nat :
          /\ c = selected[at] /\ at \in DOMAIN selected /\ pc = "unlink"
          /\ Account(c, status, freed) /\ freed <= Total(c)
    BY <1>8 DEF Deleting
  <2>2. pc' # "unlink" /\ UNCHANGED growth
    BY <2>1 DEF Account, Finish
  <2>3. CASE ~(status = "deleted" \/ freed > 0)
    <3>1. UNCHANGED <<counts, spent, ledger>>
      BY <2>1, <2>3 DEF Account
    <3> QED
      BY <1>2, <1>5, <2>2, <3>1
  <2>4. CASE status = "deleted" \/ freed > 0
    <3> DEFINE e == [cand |-> c, rule |-> granted.rule, id |-> granted.id,
                     freed |-> freed, clear |-> clear, whole |-> status = "deleted"]
               last == Len(ledger) + 1
    <3>1. ledger' = Append(ledger, e)
      BY <2>1, <2>4 DEF Account
    <3>2. e \in Entry
      <4>1. granted.rule \in Nat /\ granted.id \in Ids \cup {NoId} /\ clear \subseteq Optional
        BY PlanParts DEF Typed, TypeOK
      <4> QED
        BY <4>1 DEF Entry
    <3>3. e.rule = granted.rule /\ e.freed = freed
      OBVIOUS
    <3> HIDE DEF e
    <3>4. /\ Entries' = Entries \cup {last} /\ last \notin Entries /\ IsFiniteSet(Entries)
          /\ \A n \in Entries : ledger'[n] = ledger[n]
          /\ ledger'[last] = e
      BY <1>4, <3>1, <3>2, LedgerAppended
    <3>5. UsedBy(k)' = IF granted.rule = k THEN UsedBy(k) \cup {last} ELSE UsedBy(k)
      BY <3>3, <3>4 DEF UsedBy
    <3>6. UsedBy(k) \subseteq Entries /\ IsFiniteSet(UsedBy(k)) /\ last \notin UsedBy(k)
      BY <3>4, FS_Subset DEF UsedBy
    <3>7. Freed(UsedBy(k))' = IF granted.rule = k THEN Freed(UsedBy(k)) + freed ELSE Freed(UsedBy(k))
      <4> DEFINE f2 == [n \in Entries' |-> ledger'[n].freed]
      <4>1. /\ SumFunctionOnSet(f2, UsedBy(k)) = Freed(UsedBy(k))
            /\ SumFunctionOnSet(f2, UsedBy(k) \cup {last}) = Freed(UsedBy(k)) + freed
        BY <1>4, <3>1, <3>2, <3>3, <3>6, LedgerSums DEF Freed
      <4>2. Freed(UsedBy(k))' = SumFunctionOnSet(f2, UsedBy(k)')
        BY DEF Freed
      <4> HIDE DEF f2
      <4>3. CASE granted.rule = k
        <5>1. UsedBy(k)' = UsedBy(k) \cup {last}
          BY <3>5, <4>3
        <5> QED
          BY <4>1, <4>2, <4>3, <5>1
      <4>4. CASE granted.rule # k
        <5>1. UsedBy(k)' = UsedBy(k)
          BY <3>5, <4>4
        <5> QED
          BY <4>1, <4>2, <4>4, <5>1
      <4> QED
        BY <4>3, <4>4
    <3>8. Cardinality(UsedBy(k) \cup {last}) = Cardinality(UsedBy(k)) + 1
      BY <3>6, FS_AddElement
    <3>9. LET g == Approved(c, plan.paths) IN g.ok /\ granted.rule = g.rule /\ granted.id = g.id
      BY <2>1 DEF ConsentInv, Backed
    <3>10. /\ granted.id = NoId => granted.rule = 0
           /\ granted.id # NoId => granted.rule \in Rules /\ granted.id = plan.rules[granted.rule].id
      BY <1>0, <3>9, ApprovedShape
    <3>11. k # 0
      BY <1>0, PlanParts
    <3>12. counts \in [Ids -> Nat] /\ spent \in [Ids -> Nat] /\ Total(c) \in Nat
      BY TotalNat DEF Typed, TypeOK
    <3>13. CASE granted.rule = k
      <4>1. granted.id = r.id /\ granted.id # NoId
        BY <3>10, <3>11, <3>13
      <4>2. /\ counts' = [counts EXCEPT ![r.id] = @ + 1]
            /\ spent' = [spent EXCEPT ![r.id] = @ + freed]
        BY <2>1, <2>4, <4>1 DEF Account
      <4>3. counts'[r.id] = counts[r.id] + 1 /\ spent'[r.id] = spent[r.id] + freed
        BY <1>2, <3>12, <4>2
      <4>4. counts[r.id] < r.maxCount /\ spent[r.id] + Total(c) <= r.maxBytes + growth
        BY <1>3, <2>1, <3>13
      <4>5. UsedBy(k)' = UsedBy(k) \cup {last} /\ Freed(UsedBy(k))' = Freed(UsedBy(k)) + freed
        BY <3>5, <3>7, <3>13
      <4>6. Cardinality(UsedBy(k)') = Cardinality(UsedBy(k)) + 1
        BY <3>8, <4>5
      <4>7. counts[r.id] + 1 <= r.maxCount /\ spent[r.id] + freed <= r.maxBytes + growth
        BY <1>2, <2>1, <3>12, <4>4
      <4> QED
        BY <1>2, <2>2, <4>3, <4>5, <4>6, <4>7
    <3>14. CASE granted.rule # k
      <4>1. granted.id # r.id
        BY <1>2, <3>10, <3>14, ApplyAssumption DEF DistinctIds
      <4>2. counts'[r.id] = counts[r.id] /\ spent'[r.id] = spent[r.id]
        BY <1>2, <2>1, <3>12, <4>1 DEF Account
      <4>3. UsedBy(k)' = UsedBy(k) /\ Freed(UsedBy(k))' = Freed(UsedBy(k))
        BY <3>5, <3>7, <3>14
      <4> QED
        BY <1>2, <2>2, <4>2, <4>3
    <3> QED
      BY <3>13, <3>14
  <2> QED
    BY <2>3, <2>4
<1>9. CASE Growing
  <2>1. PICK d \in Cands : Grow(d)
    BY <1>9 DEF Growing
  <2>2. UNCHANGED <<counts, spent, ledger, pc, granted, at, selected>> /\ growth' = growth + 1
    BY <1>9, <2>1 DEF Growing, Grow, runVars
  <2>3. ASSUME pc = "unlink" PROVE /\ Total(selected[at])' <= Total(selected[at]) + 1
                                   /\ Total(selected[at]) \in Nat /\ Total(selected[at])' \in Nat
    <3>1. PICK c \in Cands : c = selected[at]
      BY <2>3, InHandCand
    <3>2. Tree(c) \in SUBSET Cands /\ own \in [Cands -> Nat]
      BY TreeFinite DEF Typed, TypeOK
    <3>3. /\ SumFunctionOnSet(own, Tree(c)) \in Nat /\ SumFunctionOnSet(own', Tree(c)) \in Nat
          /\ SumFunctionOnSet(own', Tree(c)) <= SumFunctionOnSet(own, Tree(c)) + 1
      BY <2>1, <3>2, GrowSums
    <3> QED
      BY <2>2, <3>1, <3>3 DEF Total, Tree
  <2> QED
    BY <1>2, <1>3, <1>5, <2>2, <2>3
<1>10. CASE UNCHANGED vars
  <2>1. UNCHANGED <<counts, spent, ledger, pc, granted, at, selected, own, growth>>
    BY <1>10 DEF vars
  <2>2. Total(selected[at])' = Total(selected[at])
    BY <2>1 DEF Total, Tree
  <2> QED
    BY <1>2, <1>3, <1>5, <2>1, <2>2
<1> QED
  BY <1>0, <1>6, <1>7, <1>8, <1>9, <1>10

\* safety.py execute_delete: the counters of a category are what was removed
\* because of its rule, and they stay within the limits of the rule.
THEOREM CountersHold == Spec => []CountersInv
<1>1. Init => CountersInv
  <2> SUFFICES ASSUME Init, NEW k \in Rules
               PROVE  LET r == plan.rules[k] IN
                      /\ counts[r.id] = Cardinality(UsedBy(k)) /\ counts[r.id] <= r.maxCount
                      /\ spent[r.id] = Freed(UsedBy(k)) /\ spent[r.id] <= r.maxBytes + growth
                      /\ pc # "unlink"
    BY DEF CountersInv
  <2>1. plan \in Scenario
    BY ApplyAssumption DEF Init
  <2>2. UsedBy(k) = {}
    BY DEF Init, UsedBy, Entries
  <2>3. Freed(UsedBy(k)) = 0
    <3>1. Freed({}) = 0
      BY SumEmpty DEF Freed
    <3> QED
      BY <2>2, <3>1
  <2>4. Cardinality(UsedBy(k)) = 0
    BY <2>2, FS_EmptySet
  <2> QED
    BY <2>1, <2>3, <2>4, RuleParts DEF Init
<1>2. Typed /\ Typed' /\ ConsentInv /\ CountersInv /\ [Next]_vars => CountersInv'
  BY CountersStep
<1> QED
  BY <1>1, <1>2, TypesHold, ConsentHolds, PTL DEF Spec

\* README.md:28, safety.py execute_delete: with one rule per id, a run removes
\* no more candidates and no more bytes because of a rule than it allows, but
\* for what is written after the recheck.
THEOREM LimitsHold == Spec => []LimitsKept
<1>1. ASSUME TypeOK, CountersInv PROVE LimitsKept
  BY <1>1, RuleParts DEF LimitsKept, OwnLimits, CountersInv, TypeOK
<1> QED
  BY <1>1, TypeCorrect, CountersHold, PTL

\* What is on the disk and what was freed make up what was there and what
\* was written.
LEMMA BytesStep ==
    ASSUME Typed, Typed', ConsentInv, BytesInv, [Next]_vars
    PROVE  BytesInv'
<1>0. Quiet \/ Granting \/ Deleting \/ Growing \/ UNCHANGED vars
  BY StepKinds
<1>1. /\ ledger \in Seq(Entry) /\ own \in [Cands -> Nat] /\ own' \in [Cands -> Nat]
      /\ growth \in Nat /\ IsFiniteSet(Cands)
  BY ApplyAssumption DEF ConsentInv, Typed, TypeOK
<1>2. /\ Freed(Entries) + SumFunctionOnSet(own, Cands) = SumFunctionOnSet(InitOwn, Cands) + growth
      /\ Freed(Entries) \in Nat /\ SumFunctionOnSet(own, Cands) \in Nat
      /\ SumFunctionOnSet(InitOwn, Cands) \in Nat
  <2>1. (\A x \in Cands : own[x] \in Nat) /\ (\A x \in Cands : InitOwn[x] \in Nat)
    BY <1>1, ApplyAssumption
  <2> QED
    BY <1>1, <2>1, FreedTyped, SumNat DEF BytesInv
<1>3. ASSUME UNCHANGED <<own, growth, ledger>> PROVE BytesInv'
  BY <1>3 DEF BytesInv, Freed, Entries
<1>4. CASE Quiet
  BY <1>3, <1>4 DEF Quiet
<1>5. CASE Granting
  BY <1>3, <1>5 DEF Granting, runVars, worldVars
<1>6. CASE Deleting
  <2>1. PICK c \in Cands, status \in {"partial", "deleted"}, freed \in Nat :
          /\ Account(c, status, freed)
          /\ own' \in [Cands -> Nat] /\ \A x \in Cands \ Tree(c) : own'[x] = own[x]
          /\ SumFunctionOnSet(own', Tree(c)) + freed = Total(c)
    BY <1>6 DEF Deleting
  <2> DEFINE rest == Cands \ Tree(c)
  <2>2. Tree(c) \in SUBSET Cands /\ IsFiniteSet(rest) /\ IsFiniteSet(Tree(c)) /\ rest \subseteq Cands
    BY <1>1, TreeFinite, FS_Difference
  <2>3. /\ \A x \in Cands : own[x] \in Int /\ own'[x] \in Int
        /\ \A x \in rest : own[x] \in Int /\ own'[x] = own[x]
    BY <1>1, <2>1
  <2> HIDE DEF rest
  <2>4. SumFunctionOnSet(own, Cands) = SumFunctionOnSet(own, Tree(c)) + SumFunctionOnSet(own, rest)
    BY <1>1, <2>2, <2>3, SumSplit DEF rest
  <2>5. SumFunctionOnSet(own', Cands) = SumFunctionOnSet(own', Tree(c)) + SumFunctionOnSet(own', rest)
    BY <1>1, <2>2, <2>3, SumSplit DEF rest
  <2>6. SumFunctionOnSet(own, rest) = SumFunctionOnSet(own', rest)
    BY <2>2, <2>3, SumSame
  <2>7. SumFunctionOnSet(own', Tree(c)) \in Int /\ SumFunctionOnSet(own, rest) \in Int
    BY <2>2, <2>3, SumInt
  <2>8. SumFunctionOnSet(own', Cands) + freed = SumFunctionOnSet(own, Cands)
    BY <2>1, <2>4, <2>5, <2>6, <2>7 DEF Total
  <2>9. growth' = growth
    BY <2>1 DEF Account
  <2>10. SumFunctionOnSet(own', Cands) \in Int
    BY <1>1, <2>3, SumInt
  <2>11. Freed(Entries)' = Freed(Entries) + freed
    <3>1. CASE ~(status = "deleted" \/ freed > 0)
      <4>1. ledger' = ledger /\ freed = 0
        BY <2>1, <3>1 DEF Account
      <4>2. Freed(Entries)' = Freed(Entries)
        BY <4>1 DEF Freed, Entries
      <4> QED
        BY <1>2, <4>1, <4>2
    <3>2. CASE status = "deleted" \/ freed > 0
      <4> DEFINE e == [cand |-> c, rule |-> granted.rule, id |-> granted.id,
                       freed |-> freed, clear |-> clear, whole |-> status = "deleted"]
      <4>1. ledger' = Append(ledger, e)
        BY <2>1, <3>2 DEF Account
      <4>2. e \in Entry /\ e.freed = freed
        <5>1. granted.rule \in Nat /\ granted.id \in Ids \cup {NoId} /\ clear \subseteq Optional
          BY PlanParts DEF Typed, TypeOK
        <5> QED
          BY <5>1 DEF Entry
      <4> HIDE DEF e
      <4>3. Entries' = Entries \cup {Len(ledger) + 1}
        BY <1>1, <4>1, <4>2, LedgerAppended
      <4> DEFINE f2 == [n \in Entries' |-> ledger'[n].freed]
      <4>4. SumFunctionOnSet(f2, Entries \cup {Len(ledger) + 1}) = Freed(Entries) + freed
        BY <1>1, <4>1, <4>2, LedgerSums DEF Freed
      <4>5. Freed(Entries)' = SumFunctionOnSet(f2, Entries')
        BY DEF Freed
      <4> HIDE DEF f2
      <4> QED
        BY <4>3, <4>4, <4>5
    <3> QED
      BY <3>1, <3>2
  <2> QED
    BY <1>2, <2>8, <2>9, <2>10, <2>11 DEF BytesInv
<1>7. CASE Growing
  <2>1. PICK d \in Cands : Grow(d)
    BY <1>7 DEF Growing
  <2>2. UNCHANGED ledger /\ growth' = growth + 1
    BY <1>7, <2>1 DEF Growing, Grow, runVars
  <2>3. Freed(Entries)' = Freed(Entries)
    BY <2>2 DEF Freed, Entries
  <2>4. SumFunctionOnSet(own', Cands) = SumFunctionOnSet(own, Cands) + 1
    <3>1. SumFunctionOnSet(own', Cands) = SumFunctionOnSet(own, Cands) + (IF d \in Cands THEN 1 ELSE 0)
      BY <1>1, <2>1, GrowSums
    <3> QED
      BY <3>1
  <2>5. Freed(Entries)' + SumFunctionOnSet(own', Cands) = SumFunctionOnSet(InitOwn, Cands) + growth'
    <3>1. growth \in Nat /\ growth' = growth + 1
      BY <1>1, <2>2
    <3> QED
      BY <1>2, <2>3, <2>4, <3>1
  <2> QED
    BY <2>5 DEF BytesInv
<1>8. CASE UNCHANGED vars
  BY <1>3, <1>8 DEF vars
<1> QED
  BY <1>0, <1>4, <1>5, <1>6, <1>7, <1>8

\* safety.py execute_delete: the bytes the report counts as freed were
\* allocated, and each of them is counted once, though candidates may lie
\* inside one another and deletions may be partial.
THEOREM BytesHold == Spec => []BytesInv
<1>1. Init => BytesInv
  <2> SUFFICES ASSUME Init PROVE BytesInv
    OBVIOUS
  <2>1. Entries = {} /\ own = InitOwn /\ growth = 0
    BY DEF Init, Entries
  <2>2. Freed(Entries) = 0
    <3>1. Freed({}) = 0
      BY SumEmpty DEF Freed
    <3> QED
      BY <2>1, <3>1
  <2>3. SumFunctionOnSet(InitOwn, Cands) \in Nat
    <3>1. \A x \in Cands : InitOwn[x] \in Nat
      BY ApplyAssumption
    <3> QED
      BY <3>1, ApplyAssumption, SumNat
  <2> QED
    BY <2>1, <2>2, <2>3 DEF BytesInv
<1>2. Typed /\ Typed' /\ ConsentInv /\ BytesInv /\ [Next]_vars => BytesInv'
  BY BytesStep
<1> QED
  BY <1>1, <1>2, TypesHold, ConsentHolds, PTL DEF Spec

\* The report never counts more bytes as freed than there were.
THEOREM FreedOnceHolds == Spec => []FreedOnce
<1>1. ASSUME TypeOK, ConsentInv, BytesInv PROVE FreedOnce
  <2>1. SumFunctionOnSet(own, Cands) \in Nat
    <3>1. \A x \in Cands : own[x] \in Nat
      BY <1>1 DEF TypeOK
    <3> QED
      BY <3>1, ApplyAssumption, SumNat
  <2>2. SumFunctionOnSet(InitOwn, Cands) \in Nat
    <3>1. \A x \in Cands : InitOwn[x] \in Nat
      BY ApplyAssumption
    <3> QED
      BY <3>1, ApplyAssumption, SumNat
  <2>3. Freed(Entries) \in Nat /\ growth \in Nat
    BY <1>1, FreedTyped DEF ConsentInv, TypeOK
  <2> QED
    BY <1>1, <2>1, <2>2, <2>3 DEF FreedOnce, BytesInv
<1> QED
  BY <1>1, TypeCorrect, ConsentHolds, BytesHold, PTL

-----------------------------------------------------------------------------
(* The report.                                                             *)

\* A result is for the candidate in hand, and "deleted" is not said of one
\* that was not removed whole.
LEMMA FinishReport ==
    ASSUME Typed, ReportInv, pc \in {"next", "recheck", "unlink"}, at <= Len(selected),
           NEW c, NEW status \in {"rejected", "partial", "deleted"}, NEW freed \in Nat,
           status = "partial" => freed > 0, status = "rejected" => freed = 0, c = selected[at],
           Finish(c, status, freed), UNCHANGED <<selected, exit>>,
           Wholes \subseteq Wholes', Wholes' \subseteq ToSet(selected),
           status = "deleted" => c \in Wholes'
    PROVE  ReportInv'
<1>1. c \in Cands /\ at \in Nat \ {0} /\ Len(selected) \in Nat /\ results \in Seq(Results)
  BY DEF Typed, TypeOK
<1> DEFINE res == [cand |-> c, status |-> status, freed |-> freed]
<1>2. res \in Results /\ res.status = status
  BY <1>1 DEF Results
<1>3. results' = Append(results, res) /\ at' = at + 1 /\ pc' = "next"
  BY DEF Finish
<1>4. Len(results) = at - 1 /\ exit = 3
  BY DEF ReportInv, InHand, Typed, TypeOK
<1> HIDE DEF res
<1>5. /\ Len(results') = at /\ DOMAIN results = 1..(at - 1) /\ DOMAIN results' = 1..at
      /\ \A k \in 1..(at - 1) : results'[k] = results[k]
      /\ results'[at] = res
  BY <1>1, <1>2, <1>3, <1>4, Appended
<1>6. \A k \in DOMAIN results' :
         k <= Len(selected) /\ (results'[k].status = "deleted" => selected[k] \in Wholes')
  <2> SUFFICES ASSUME NEW k \in 1..at
               PROVE  k <= Len(selected) /\ (results'[k].status = "deleted" => selected[k] \in Wholes')
    BY <1>5
  <2>1. CASE k = at
    BY <1>2, <1>5, <2>1
  <2>2. CASE k # at
    <3>1. k \in 1..(at - 1) /\ k \in DOMAIN results /\ results'[k] = results[k]
      BY <1>1, <1>5, <2>2
    <3>2. results[k].status = "deleted" => selected[k] \in Wholes
      BY <3>1 DEF ReportInv
    <3> QED
      BY <1>1, <3>1, <3>2
  <2> QED
    BY <2>1, <2>2
<1>7. Len(results') = at' - 1 /\ exit' = 3 /\ pc' = "next" /\ selected' = selected
  BY <1>1, <1>3, <1>4, <1>5
<1>8. ToSet(selected)' = ToSet(selected)
  BY DEF ToSet
<1> QED
  BY <1>6, <1>7, <1>8 DEF ReportInv, InHand

\* Nothing but the control state changes.
LEMMA ControlReport ==
    ASSUME Typed, ReportInv, UNCHANGED <<selected, results, ledger>>
    PROVE  /\ ToSet(selected)' = ToSet(selected) /\ Wholes' = Wholes
           /\ Wholes \subseteq ToSet(selected)
           /\ \A k \in DOMAIN results' :
                 k <= Len(selected') /\ (results'[k].status = "deleted" => selected'[k] \in Wholes')
<1>1. Wholes' = Wholes /\ ToSet(selected)' = ToSet(selected)
  BY DEF Wholes, Entries, ToSet
<1> QED
  BY <1>1 DEF ReportInv

\* An error leaves no report and an exit code of 1.
LEMMA RaiseReport ==
    ASSUME Typed, ReportInv, Raise
    PROVE  ReportInv'
<1>1. UNCHANGED <<selected, results, ledger>> /\ pc' = "end" /\ exit' = 1
  BY DEF Raise, runVars
<1> QED
  BY <1>1, ControlReport DEF ReportInv, InHand

\* Every step keeps the report honest.
LEMMA ReportStep ==
    ASSUME Typed, Typed', ConsentInv, ReportInv, [Next]_vars
    PROVE  ReportInv'
<1>0. /\ at \in Nat \ {0} /\ Len(selected) \in Nat /\ results \in Seq(Results) /\ Len(results) \in Nat
      /\ exit \in 0..3 /\ DOMAIN results = 1..Len(results)
  BY DEF Typed, TypeOK
<1>00. ASSUME NEW c \in Cands, c = selected[at], Reject(c), pc \in {"next", "recheck"}, at <= Len(selected)
       PROVE  ReportInv'
  <2>1. Finish(c, "rejected", 0) /\ UNCHANGED <<selected, exit, ledger>>
    BY <1>00 DEF Reject
  <2>2. Wholes' = Wholes /\ Wholes \subseteq ToSet(selected)
    BY <2>1 DEF Wholes, Entries, ReportInv
  <2> QED
    BY <1>00, <2>1, <2>2, FinishReport
<1>1. CASE SelectItem
  <2>1. CASE Raise
    BY <2>1, RaiseReport
  <2>2. CASE ~Raise
    <3>1. /\ pc = "select" /\ pc' = "select" /\ UNCHANGED <<results, ledger, exit>>
      BY <1>1, <2>2 DEF SelectItem, runVars
    <3>2. results' = <<>> /\ ledger' = <<>> /\ exit' = 3
      BY <3>1, <1>0 DEF ReportInv
    <3>3. Wholes' = {} /\ DOMAIN results' = {}
      BY <3>2 DEF Wholes, Entries
    <3> QED
      BY <3>1, <3>2, <3>3 DEF ReportInv, InHand
  <2> QED
    BY <2>1, <2>2
<1>2. CASE SelectDone
  <2>1. UNCHANGED <<selected, results, ledger, exit>> /\ pc = "select" /\ pc' = "rescan" /\ at' = 1
    BY <1>2 DEF SelectDone, runVars
  <2> QED
    BY <1>0, <2>1, ControlReport DEF ReportInv, InHand
<1>3. CASE Rescan
  <2>1. CASE Raise
    BY <2>1, RaiseReport
  <2>2. CASE ~Raise
    <3>1. UNCHANGED <<selected, results, ledger, exit, at>> /\ pc = "rescan" /\ pc' = "next"
      BY <1>3, <2>2 DEF Rescan, runVars
    <3>2. Len(results') = at' - 1
      BY <3>1 DEF ReportInv
    <3> QED
      BY <1>0, <3>1, <3>2, ControlReport DEF ReportInv, InHand
  <2> QED
    BY <2>1, <2>2
<1>4. CASE NextCandidate
  <2>1. PICK c \in Cands : c = selected[at]
    BY <1>4, InHandCand DEF NextCandidate
  <2>2. CASE Reject(c)
    BY <1>4, <1>00, <2>1, <2>2 DEF NextCandidate
  <2>3. CASE ~Reject(c)
    <3>1. UNCHANGED <<selected, results, ledger, exit, at>> /\ pc = "next" /\ pc' = "collect"
      BY <1>4, <2>1, <2>3 DEF NextCandidate, runVars
    <3> QED
      BY <1>0, <3>1, ControlReport DEF ReportInv, InHand
  <2> QED
    BY <2>2, <2>3
<1>5. CASE Collect
  <2>1. CASE Raise
    BY <2>1, RaiseReport
  <2>2. CASE ~Raise
    <3>1. UNCHANGED <<selected, results, ledger, exit, at>> /\ pc = "collect" /\ pc' = "recheck"
      BY <1>5, <2>2 DEF Collect, runVars
    <3> QED
      BY <1>0, <3>1, ControlReport DEF ReportInv, InHand
  <2> QED
    BY <2>1, <2>2
<1>6. CASE Recheck
  <2>1. PICK c \in Cands : c = selected[at] /\ at <= Len(selected) /\ pc = "recheck"
    BY <1>6, InHandCand DEF Recheck
  <2>2. CASE Reject(c)
    BY <1>00, <2>1, <2>2
  <2>3. CASE Raise
    BY <2>3, RaiseReport
  <2>4. CASE ~Reject(c) /\ ~Raise
    <3>1. UNCHANGED <<selected, results, ledger, exit, at>> /\ pc' = "unlink"
      BY <1>6, <2>1, <2>4 DEF Recheck, runVars
    <3> QED
      BY <1>0, <2>1, <3>1, ControlReport DEF ReportInv, InHand
  <2> QED
    BY <2>2, <2>3, <2>4
<1>7. CASE Deleting
  <2>1. PICK c \in Cands, status \in {"partial", "deleted"}, freed \in Nat :
          /\ c = selected[at] /\ at \in DOMAIN selected /\ pc = "unlink"
          /\ Account(c, status, freed)
    BY <1>7 DEF Deleting
  <2>2. at <= Len(selected) /\ UNCHANGED <<selected, exit>>
    BY <2>1 DEF Account, Typed, SelectionInv, InHand
  <2> DEFINE e == [cand |-> c, rule |-> granted.rule, id |-> granted.id,
                   freed |-> freed, clear |-> clear, whole |-> status = "deleted"]
  <2>3. e \in Entry /\ e.cand = c /\ (e.whole <=> status = "deleted")
    <3>1. granted.rule \in Nat /\ granted.id \in Ids \cup {NoId} /\ clear \subseteq Optional
      BY PlanParts DEF Typed, TypeOK
    <3> QED
      BY <3>1 DEF Entry
  <2>4. ledger' = IF status = "deleted" \/ freed > 0 THEN Append(ledger, e) ELSE ledger
    BY <2>1 DEF Account
  <2> HIDE DEF e
  <2>5. Wholes' = IF status = "deleted" THEN Wholes \cup {c} ELSE Wholes
    <3>1. CASE ledger' = ledger /\ status # "deleted"
      BY <3>1 DEF Wholes, Entries
    <3>2. CASE ledger' = Append(ledger, e)
      <4> DEFINE last == Len(ledger) + 1
      <4>1. /\ Entries' = Entries \cup {last} /\ last \notin Entries
            /\ \A n \in Entries : ledger'[n] = ledger[n]
            /\ ledger'[last] = e
        BY <2>3, <3>2, LedgerAppended DEF ConsentInv
      <4> HIDE DEF last
      <4>2. CASE status = "deleted"
        BY <2>3, <4>1, <4>2 DEF Wholes
      <4>3. CASE status # "deleted"
        BY <2>3, <4>1, <4>3 DEF Wholes
      <4> QED
        BY <4>2, <4>3
    <3> QED
      BY <2>4, <3>1, <3>2
  <2>6. c \in ToSet(selected) /\ Wholes \subseteq ToSet(selected)
    BY <2>1 DEF ToSet, ReportInv
  <2>7. /\ Reported(status, freed) \in {"rejected", "partial", "deleted"}
        /\ Reported(status, freed) = "partial" => freed > 0
        /\ Reported(status, freed) = "rejected" => freed = 0
        /\ Reported(status, freed) = "deleted" => status = "deleted"
    BY DEF Reported
  <2>8. Finish(c, Reported(status, freed), freed)
    BY <2>1 DEF Account
  <2>9. /\ Wholes \subseteq Wholes' /\ Wholes' \subseteq ToSet(selected)
        /\ Reported(status, freed) = "deleted" => c \in Wholes'
    BY <2>5, <2>6, <2>7
  <2> QED
    BY <2>1, <2>2, <2>7, <2>8, <2>9, FinishReport
<1>8. CASE UnlinkRaises
  BY <1>8, RaiseReport DEF UnlinkRaises
<1>9. CASE Write
  <2>1. CASE Raise
    BY <2>1, RaiseReport
  <2>2. CASE ~Raise
    <3>1. UNCHANGED <<selected, results, ledger, at>> /\ pc = "next" /\ pc' = "end" /\ exit' = ExitCode
      BY <1>9, <2>2 DEF Write, runVars
    <3>2. Len(results) >= Len(selected)
      BY <1>0, <1>9 DEF Write, ReportInv
    <3>3. exit' \in {0, 2} /\ (exit' = 0 => DeletedOnly(results))
      BY <3>1 DEF ExitCode
    <3>4. DeletedOnly(results)' <=> DeletedOnly(results)
      BY <3>1 DEF DeletedOnly
    <3> QED
      BY <1>0, <3>1, <3>2, <3>3, <3>4, ControlReport DEF ReportInv, InHand
  <2> QED
    BY <2>1, <2>2
<1>10. CASE Growing \/ UNCHANGED vars
  <2>1. UNCHANGED <<selected, results, ledger, at, pc, exit>>
    BY <1>10 DEF Growing, vars, runVars
  <2>2. DeletedOnly(results)' <=> DeletedOnly(results)
    BY <2>1 DEF DeletedOnly
  <2> QED
    BY <2>1, <2>2, ControlReport DEF ReportInv, InHand
<1>11. (UnlinkAll \/ UnlinkSome) => Deleting
  BY UnlinkDeletes
<1> QED
  BY <1>1, <1>2, <1>3, <1>4, <1>5, <1>6, <1>7, <1>8, <1>9, <1>10, <1>11
     DEF Next, Run, OtherPrograms, Growing

\* cli.py command_apply: there is one result for each candidate that was
\* dealt with, and exit code 0 is for a run that removed every one.
THEOREM ReportHolds == Spec => []ReportInv
<1>1. Init => ReportInv
  BY DEF Init, ReportInv, InHand, Wholes, Entries
<1>2. Typed /\ Typed' /\ ConsentInv /\ ReportInv /\ [Next]_vars => ReportInv'
  BY ReportStep
<1> QED
  BY <1>1, <1>2, TypesHold, ConsentHolds, PTL DEF Spec

\* cli.py command_apply: exit code 0 means that every selected candidate was
\* removed whole, and no other.
THEOREM ExitHonestHolds == Spec => []ExitHonest
<1>1. ASSUME TypeOK, ReportInv PROVE ExitHonest
  <2> SUFFICES ASSUME exit = 0 PROVE ToSet(selected) \subseteq Wholes /\ Wholes \subseteq ToSet(selected)
    BY DEF ExitHonest, Wholes
  <2>1. /\ DOMAIN selected = 1..Len(selected) /\ DOMAIN results = 1..Len(results)
        /\ Len(selected) \in Nat /\ Len(results) \in Nat /\ Len(results) >= Len(selected)
    BY <1>1 DEF TypeOK, ReportInv
  <2>2. ASSUME NEW k \in DOMAIN selected PROVE selected[k] \in Wholes
    <3>1. k \in DOMAIN results
      BY <2>1
    <3> QED
      BY <1>1, <3>1 DEF ReportInv, DeletedOnly
  <2> QED
    BY <1>1, <2>2 DEF ReportInv, ToSet
<1> QED
  BY <1>1, TypeCorrect, ReportHolds, PTL

-----------------------------------------------------------------------------
(* Charging.                                                               *)

\* Where nothing is selected, charged or removed.
LEMMA ChargeSame ==
    ASSUME Typed, ChargeInv, UNCHANGED <<selected, ledger, intact>>, at' \in Nat,
           ledger = <<>> \/ at <= at', pc' # "select", pc' = "unlink" => selected[at'] \in intact
    PROVE  ChargeInv'
<1>1. Entries' = Entries /\ (ledger = <<>> => Entries = {}) /\ at \in Nat
  BY DEF Entries, Typed, TypeOK
<1>2. \A n \in Entries : \E j \in DOMAIN selected : j < at' /\ selected[j] = ledger[n].cand
  <2> SUFFICES ASSUME NEW n \in Entries
               PROVE  \E j \in DOMAIN selected : j < at' /\ selected[j] = ledger[n].cand
    OBVIOUS
  <2>1. PICK j \in DOMAIN selected : j < at /\ selected[j] = ledger[n].cand
    BY DEF ChargeInv
  <2>2. at <= at' /\ j \in Nat
    BY <1>1 DEF Typed, TypeOK
  <2> QED
    BY <1>1, <2>1, <2>2
<1>3. ChargedOnce'
  BY <1>1 DEF ChargeInv, ChargedOnce, Tree
<1> QED
  BY <1>1, <1>2, <1>3 DEF ChargeInv, Tree

\* An error charges nothing.
LEMMA RaiseCharge ==
    ASSUME Typed, ChargeInv, Raise
    PROVE  ChargeInv'
<1>1. UNCHANGED <<selected, ledger, intact, at>> /\ pc' = "end" /\ at \in Nat
  BY DEF Raise, runVars, worldVars, Typed, TypeOK
<1> QED
  BY <1>1, ChargeSame

\* Nor does a rejection.
LEMMA RejectCharge ==
    ASSUME Typed, ChargeInv, NEW c, Reject(c)
    PROVE  ChargeInv'
<1>1. UNCHANGED <<selected, ledger, intact>> /\ at' = at + 1 /\ pc' = "next" /\ at \in Nat
  BY DEF Reject, Finish, worldVars, Typed, TypeOK
<1> QED
  BY <1>1, ChargeSame

\* A candidate that comes to the selection is not in it.
LEMMA SelectCharge ==
    ASSUME Typed, ReportInv, ChargeInv, SelectItem, ~Raise
    PROVE  ChargeInv'
<1> DEFINE c == plan.items[at]
<1>1. /\ pc = "select" /\ pc' = "select" /\ at' = at + 1 /\ at \in Nat \ {0}
      /\ UNCHANGED <<plan, ledger, intact>> /\ ~(Eligible(c) /\ Repeated)
      /\ selected' = IF Chosen(c) THEN Append(selected, c) ELSE selected
  BY DEF SelectItem, worldVars, runVars, Typed, TypeOK
<1>2. Entries' = {} /\ selected \in Seq(Cands) /\ c \in Cands
  BY <1>1, PlanParts DEF ReportInv, Entries, Typed, TypeOK, SelectItem
<1>3. ASSUME Chosen(c) PROVE \A i \in 1..(at - 1) : plan.items[i] # c
  BY <1>1, <1>3 DEF Chosen, Repeated
<1>4. \A j \in DOMAIN selected : \E i \in 1..(at - 1) : plan.items[i] = selected[j]
  BY <1>1 DEF ChargeInv
<1>5. \A j, k \in DOMAIN selected : selected[j] = selected[k] => j = k
  BY DEF ChargeInv
<1>6. ChargedOnce'
  BY <1>2 DEF ChargedOnce
<1> HIDE DEF c
<1>7. /\ \A j, k \in DOMAIN selected' : selected'[j] = selected'[k] => j = k
      /\ \A j \in DOMAIN selected' : \E i \in 1..at : plan.items[i] = selected'[j]
  <2>1. CASE ~Chosen(c)
    BY <1>1, <1>4, <1>5, <2>1
  <2>2. CASE Chosen(c)
    <3>1. /\ DOMAIN selected = 1..Len(selected) /\ DOMAIN selected' = 1..(Len(selected) + 1)
          /\ \A k \in 1..Len(selected) : selected'[k] = selected[k]
          /\ selected'[Len(selected) + 1] = c /\ Len(selected) \in Nat
      BY <1>1, <1>2, <2>2, Appended
    <3>2. \A j \in 1..Len(selected) : selected'[j] # c
      BY <1>3, <1>4, <2>2, <3>1
    <3>3. \A j \in DOMAIN selected' : j \in 1..Len(selected) \/ j = Len(selected) + 1
      BY <3>1
    <3>4. \A j, k \in DOMAIN selected' : selected'[j] = selected'[k] => j = k
      BY <1>5, <3>1, <3>2, <3>3
    <3>5. plan.items[at] = c /\ at \in 1..at /\ 1..(at - 1) \subseteq 1..at
      BY <1>1 DEF c
    <3>6. \A j \in DOMAIN selected' : \E i \in 1..at : plan.items[i] = selected'[j]
      BY <1>4, <3>1, <3>3, <3>5
    <3> QED
      BY <3>4, <3>6
  <2> QED
    BY <2>1, <2>2
<1>8. pc' # "unlink" /\ at' - 1 = at /\ UNCHANGED plan
  BY <1>1
<1> QED
  BY <1>2, <1>6, <1>7, <1>8 DEF ChargeInv

\* A deletion charges the candidate in hand, which was not charged before, and
\* is not below one that went whole.
LEMMA DeleteCharge ==
    ASSUME Typed, ConsentInv, ChargeInv, Deleting
    PROVE  ChargeInv'
<1>1. PICK c \in Cands, status \in {"partial", "deleted"}, freed \in Nat :
        /\ c = selected[at] /\ at \in DOMAIN selected /\ pc = "unlink"
        /\ Account(c, status, freed)
        /\ intact' \subseteq intact /\ (status = "deleted" => Tree(c) \cap intact' = {})
  BY DEF Deleting
<1> DEFINE e == [cand |-> c, rule |-> granted.rule, id |-> granted.id,
                 freed |-> freed, clear |-> clear, whole |-> status = "deleted"]
<1>2. e \in Entry /\ e.cand = c /\ (e.whole <=> status = "deleted")
  <2>1. granted.rule \in Nat /\ granted.id \in Ids \cup {NoId} /\ clear \subseteq Optional
    BY PlanParts DEF Typed, TypeOK
  <2> QED
    BY <2>1 DEF Entry
<1>3. ledger' = IF status = "deleted" \/ freed > 0 THEN Append(ledger, e) ELSE ledger
  BY <1>1 DEF Account
<1>4. /\ UNCHANGED selected /\ at' = at + 1 /\ pc' = "next" /\ at \in Nat
      /\ \A j \in DOMAIN selected : j \in Nat
  BY <1>1 DEF Account, Finish, Typed, TypeOK
<1> HIDE DEF e
<1>5. c \in intact /\ c \in Tree(c)
  BY <1>1, TreeFinite DEF ChargeInv
<1>6. \A n \in Entries : ledger[n].cand # c /\ (ledger[n].whole => c \notin Tree(ledger[n].cand))
  BY <1>1, <1>4, <1>5 DEF ChargeInv
<1>7. ASSUME NEW n \in Entries PROVE \E j \in DOMAIN selected : j < at' /\ selected[j] = ledger[n].cand
  <2>1. PICK j \in DOMAIN selected : j < at /\ selected[j] = ledger[n].cand
    BY DEF ChargeInv
  <2> QED
    BY <1>4, <2>1
<1>8. \A n \in Entries : ledger[n].whole => Tree(ledger[n].cand) \cap intact' = {}
  BY <1>1 DEF ChargeInv
<1>9. /\ \A m, n \in Entries : m < n => /\ ledger[m].cand # ledger[n].cand
                                        /\ ledger[m].whole => ledger[n].cand \notin Tree(ledger[m].cand)
      /\ \A j, k \in DOMAIN selected : selected[j] = selected[k] => j = k
  BY DEF ChargeInv, ChargedOnce
<1>10. CASE ledger' = ledger
  <2>1. Entries' = Entries
    BY <1>10 DEF Entries
  <2>2. ChargedOnce'
    <3> SUFFICES ASSUME NEW m \in Entries, NEW n \in Entries, m < n
                 PROVE  /\ ledger[m].cand # ledger[n].cand
                        /\ ledger[m].whole => ledger[n].cand \notin Tree(ledger[m].cand)
      BY <1>10, <2>1 DEF ChargedOnce, Tree
    <3> QED
      BY <1>9
  <2> QED
    BY <1>4, <1>7, <1>8, <1>9, <1>10, <2>1, <2>2 DEF ChargeInv, Tree
<1>11. CASE ledger' = Append(ledger, e)
  <2> DEFINE last == Len(ledger) + 1
  <2>1. /\ Entries' = Entries \cup {last} /\ last \notin Entries
        /\ \A n \in Entries : ledger'[n] = ledger[n]
        /\ ledger'[last] = e /\ \A n \in Entries : n < last
    <3>1. /\ Entries' = Entries \cup {last} /\ last \notin Entries
          /\ \A n \in Entries : ledger'[n] = ledger[n]
          /\ ledger'[last] = e /\ Entries = 1..Len(ledger) /\ Len(ledger) \in Nat
      BY <1>2, <1>11, LedgerAppended DEF ConsentInv
    <3> QED
      BY <3>1
  <2>2. ~(last < last) /\ \A n \in Entries : ~(last < n)
    <3>1. Entries = 1..Len(ledger) /\ Len(ledger) \in Nat
      BY <1>2, <1>11, LedgerAppended DEF ConsentInv
    <3> QED
      BY <3>1
  <2> HIDE DEF last
  <2>3. \A n \in Entries' : \E j \in DOMAIN selected : j < at' /\ selected[j] = ledger'[n].cand
    <3>1. at < at' /\ selected[at] = ledger'[last].cand
      BY <1>1, <1>2, <1>4, <2>1
    <3> QED
      BY <1>1, <1>7, <2>1, <3>1
  <2>4. \A n \in Entries' : ledger'[n].whole => Tree(ledger'[n].cand) \cap intact' = {}
    BY <1>1, <1>2, <1>8, <2>1
  <2>6. \A m, n \in Entries' : m < n => /\ ledger'[m].cand # ledger'[n].cand
                                        /\ ledger'[m].whole => ledger'[n].cand \notin Tree(ledger'[m].cand)
    BY <1>2, <1>6, <1>9, <2>1, <2>2
  <2>7. ChargedOnce'
    <3> SUFFICES ASSUME NEW m \in Entries', NEW n \in Entries', m < n
                 PROVE  /\ ledger'[m].cand # ledger'[n].cand
                        /\ ledger'[m].whole => ledger'[n].cand \notin Tree(ledger'[m].cand)
      BY DEF ChargedOnce, Tree
    <3> QED
      BY <2>6
  <2> QED
    BY <1>4, <1>9, <2>3, <2>4, <2>7 DEF ChargeInv, Tree
<1> QED
  BY <1>3, <1>10, <1>11

\* Every step keeps what the charges rest on.
LEMMA ChargeStep ==
    ASSUME Typed, Typed', ConsentInv, ReportInv, ChargeInv, [Next]_vars
    PROVE  ChargeInv'
<1>0. at \in Nat /\ at' \in Nat
  BY DEF Typed, TypeOK
<1>1. CASE SelectItem
  BY <1>1, RaiseCharge, SelectCharge
<1>2. CASE SelectDone
  <2>1. UNCHANGED <<selected, ledger, intact>> /\ ledger = <<>> /\ pc' = "rescan"
    BY <1>2 DEF SelectDone, worldVars, runVars, ReportInv
  <2> QED
    BY <1>0, <2>1, ChargeSame
<1>3. CASE Rescan /\ ~Raise
  <2>1. UNCHANGED <<selected, ledger, intact, at>> /\ pc' = "next"
    BY <1>3 DEF Rescan, worldVars, runVars
  <2> QED
    BY <1>0, <2>1, ChargeSame
<1>4. CASE NextCandidate /\ ~Reject(selected[at])
  <2>1. UNCHANGED <<selected, ledger, intact, at>> /\ pc' = "collect"
    BY <1>4 DEF NextCandidate, worldVars, runVars
  <2> QED
    BY <1>0, <2>1, ChargeSame
<1>5. CASE Collect /\ ~Raise
  <2>1. UNCHANGED <<selected, ledger, intact, at>> /\ pc' = "recheck"
    BY <1>5 DEF Collect, worldVars, runVars
  <2> QED
    BY <1>0, <2>1, ChargeSame
<1>6. CASE Recheck /\ ~Reject(selected[at]) /\ ~Raise
  <2>1. UNCHANGED <<selected, ledger, intact, at>> /\ pc' = "unlink" /\ selected[at] \in intact
    BY <1>6 DEF Recheck, worldVars, runVars
  <2> QED
    BY <1>0, <2>1, ChargeSame
<1>7. CASE UnlinkAll \/ UnlinkSome
  BY <1>7, UnlinkDeletes, DeleteCharge
<1>8. CASE Raise
  BY <1>8, RaiseCharge
<1>9. CASE Reject(selected[at])
  BY <1>9, RejectCharge
<1>10. CASE Write /\ ~Raise
  <2>1. UNCHANGED <<selected, ledger, intact, at>> /\ pc' = "end"
    BY <1>10 DEF Write, worldVars, runVars
  <2> QED
    BY <1>0, <2>1, ChargeSame
<1>11. CASE OtherPrograms \/ UNCHANGED vars
  <2>1. UNCHANGED <<selected, ledger, intact, at, pc>>
    BY <1>11 DEF OtherPrograms, Grow, vars, runVars
  <2>2. CASE pc = "select"
    <3>1. Entries' = Entries /\ UNCHANGED plan
      BY <1>11, <2>1 DEF Entries, OtherPrograms, Grow, vars
    <3>2. ChargedOnce'
      BY <2>1, <3>1 DEF ChargeInv, ChargedOnce, Tree
    <3> QED
      BY <2>1, <3>1, <3>2 DEF ChargeInv, Tree
  <2>3. CASE pc # "select"
    <3>1. pc' = "unlink" => selected[at'] \in intact
      BY <2>1 DEF ChargeInv
    <3> QED
      BY <1>0, <2>1, <2>3, <3>1, ChargeSame
  <2> QED
    BY <2>2, <2>3
<1> QED
  BY <1>1, <1>2, <1>3, <1>4, <1>5, <1>6, <1>7, <1>8, <1>9, <1>10, <1>11
     DEF Next, Run, UnlinkRaises

\* cli.py command_apply and safety.py execute_delete: a candidate is charged
\* once at most, however often a plan names it, and never after it went with
\* another that it lies in.
THEOREM ChargedOnceHolds == Spec => []ChargedOnce
<1>1. Init => ChargeInv
  BY DEF Init, ChargeInv, ChargedOnce, Entries
<1>2. Typed /\ Typed' /\ ConsentInv /\ ReportInv /\ ChargeInv /\ [Next]_vars => ChargeInv'
  BY ChargeStep
<1>3. ChargeInv => ChargedOnce
  BY DEF ChargeInv
<1> QED
  BY <1>1, <1>2, <1>3, TypesHold, ConsentHolds, ReportHolds, PTL DEF Spec
=============================================================================
