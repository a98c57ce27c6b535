------------------------------ MODULE ApplyRun ------------------------------
(***************************************************************************)
(* One run of the command "apply": command_apply in cleanup_agent/cli.py   *)
(* and, for every candidate it selects, the approval, the gates and the    *)
(* accounting of execute_delete in cleanup_agent/safety.py.                *)
(*                                                                         *)
(*   select   the items of the plan that the command line approves         *)
(*   rescan   the boundary is scanned again, once                          *)
(*   next     one candidate after the other:                               *)
(*   collect    its optional consumer checks are run                       *)
(*   recheck    approval, fresh evidence, limits of the category           *)
(*   unlink     _unlink_tree (module DeleteTree), seen from outside        *)
(*   write    the report                                                   *)
(*                                                                         *)
(* A candidate is a path with the identity the plan recorded.  Other       *)
(* programs let it grow.  That they replace it needs no action: every      *)
(* check may reject any candidate.                                         *)
(***************************************************************************)
EXTENDS Integers, FiniteSets, SequencesExt

CONSTANTS
    Cands,        \* candidates of the source scan
    Ids,          \* category ids
    NoId,         \* no category: an exact path approval
    Optional,     \* OPTIONAL_CONSUMER_CHECKS
    Unsupported,  \* a check name the program does not know
    Inside,       \* Inside[c]: candidates below c
    Scenarios,    \* plans with the consent config and the command line
    InitOwn,      \* allocated bytes of a candidate, without candidates inside it
    MaxGrowth     \* bound: bytes other programs add

Rule     == [id : Ids, covers : SUBSET Cands, valid : BOOLEAN, maxCount : Nat, maxBytes : Nat,
             checks : SUBSET (Optional \cup {Unsupported})]
\* match: the identity in the approval is the candidate's as a whole ("equal"),
\* in the nine fields of _identity but with another key besides ("same"), or
\* not at all ("other").
Approval == [cand : Cands, match : {"equal", "same", "other"},
             checks : SUBSET (Optional \cup {Unsupported})]
\* review: the items a model plan calls candidate_for_review.
Scenario == {s \in [manual : BOOLEAN, items : Seq(Cands), review : SUBSET Cands,
                    rules : Seq(Rule), enabled : SUBSET Ids, approvals : Seq(Approval),
                    categories : SUBSET Ids, paths : SUBSET Cands] :
               s.categories \subseteq s.enabled /\ (s.categories # {} \/ s.paths # {})}

ASSUME ApplyAssumption ==
    /\ IsFiniteSet(Cands) /\ NoId \notin Ids /\ Unsupported \notin Optional
    /\ Inside \in [Cands -> SUBSET Cands]
    /\ Scenarios \subseteq Scenario /\ InitOwn \in [Cands -> Nat] /\ MaxGrowth \in Nat

VARIABLES
    plan,      \* the plan, the consent config and the arguments
    own,       \* allocated bytes now
    intact,    \* candidates this run has not removed
    pc,
    at,        \* position in the items, then in the selected candidates
    selected,  \* candidates to delete
    fresh,     \* those of them the second scan found unchanged
    clear,     \* optional checks that were run and found nothing
    granted,   \* what approved the current candidate: [rule, id]
    counts,    \* run_state["category_counts"]
    spent,     \* run_state["category_bytes"]
    results,   \* [cand, status, freed]
    exit,      \* exit code, or 3 while running
    ledger,    \* history: [cand, rule, id, freed, clear, whole] of everything that freed or deleted
    growth     \* history: bytes other programs added

vars == <<plan, own, intact, pc, at, selected, fresh, clear, granted, counts, spent,
          results, exit, ledger, growth>>

worldVars == <<plan, own, intact, growth>>
runVars   == <<counts, spent, results, ledger>>

Results ==
    {res \in [cand : Cands, status : {"rejected", "partial", "deleted"}, freed : Nat] :
        /\ res.status = "partial" => res.freed > 0
        /\ res.status = "rejected" => res.freed = 0}

TypeOK ==
    /\ plan \in Scenario
    /\ own \in [Cands -> Nat] /\ intact \subseteq Cands /\ growth \in Nat
    /\ pc \in {"select", "rescan", "next", "collect", "recheck", "unlink", "write", "end"}
    /\ at \in Nat \ {0} /\ selected \in Seq(Cands) /\ fresh \subseteq Cands
    /\ clear \subseteq Optional
    /\ granted.id \in Ids \cup {NoId} /\ granted.rule \in 0..Len(plan.rules)
    /\ counts \in [Ids -> Nat] /\ spent \in [Ids -> Nat]
    /\ results \in Seq(Results)
    /\ exit \in 0..3

-----------------------------------------------------------------------------
(* Consent.                                                                *)

Rules     == DOMAIN plan.rules
Tree(c)   == {c} \cup Inside[c]
TotalAsScanned(c) == SumFunctionOnSet(InitOwn, Tree(c))   \* mutated form
Total(c)  == SumFunctionOnSet(own, Tree(c))
First(S)  == CHOOSE k \in S : \A j \in S : k <= j

\* Enabled category rules whose parent and name match the candidate's path.
Matching(c) == {k \in Rules : plan.rules[k].id \in plan.enabled /\ c \in plan.rules[k].covers}

\* _rule_for_candidate: the first of them the command line approves.
RuleForAny(c) ==   \* mutated form: whatever category is enabled
    IF Matching(c) = {} THEN NoId ELSE plan.rules[First(Matching(c))].id
RuleForCandidate(c) ==
    LET S == {k \in Matching(c) : plan.rules[k].id \in plan.categories}
    IN  IF S = {} THEN NoId ELSE plan.rules[First(S)].id

\* The approvals of the config, and the one the command line adds.
ConfigFor(c) == {k \in DOMAIN plan.approvals : plan.approvals[k].cand = c}
\* _same_identity compares nine fields, the command line the whole object.
SameIdentity(k) == plan.approvals[k].match \in {"equal", "same"}
ExactConfig(c)  == \E k \in ConfigFor(c) : plan.approvals[k].match = "equal"

Refused == [ok |-> FALSE, rule |-> 0, id |-> NoId]
Exact   == [ok |-> TRUE, rule |-> 0, id |-> NoId]

\* _approved: an approval of the path decides alone, else exactly one rule must match.
Approved(c, paths) ==
    IF ConfigFor(c) # {}
    THEN IF SameIdentity(First(ConfigFor(c))) THEN Exact ELSE Refused
    ELSE IF c \in paths THEN Exact
    ELSE IF \E k \in Rules : Matching(c) = {k} /\ plan.rules[k].valid
    THEN LET k == First(Matching(c)) IN [ok |-> TRUE, rule |-> k, id |-> plan.rules[k].id]
    ELSE Refused

\* execute_delete takes the limits from the first rule with the approved id,
\* and so does _required_checks.
RuleOf(id) == First({k \in Rules : plan.rules[k].id = id})

\* Checks execute_delete demands; a path the command line added demands all.
RequiredNone(c, g) == {}   \* mutated form: nothing is demanded
Required(c, g) ==
    IF g.id # NoId THEN plan.rules[RuleOf(g.id)].checks
    ELSE IF ConfigFor(c) # {} THEN plan.approvals[First(ConfigFor(c))].checks
    ELSE Optional

\* Checks command_apply runs before (_required_optional_checks).
Collected(c) ==
    LET id == RuleForCandidate(c)
        S  == {k \in ConfigFor(c) : plan.approvals[k].match = "equal"}
    IN  IF id # NoId THEN plan.rules[RuleOf(id)].checks
        ELSE IF S # {} THEN plan.approvals[First(S)].checks
        ELSE Optional

-----------------------------------------------------------------------------
(* Selection.                                                              *)

\* A ValueError or OSError ends the program with exit code 1 and no report.
Raise ==
    /\ pc' = "end" /\ exit' = 1
    /\ UNCHANGED <<worldVars, runVars, at, selected, fresh, clear, granted>>

\* manual_plan stores what _approved said of the same config.
Planned(c) == Approved(c, {})

Eligible(c) == IF plan.manual THEN Planned(c).ok \/ c \in plan.paths
                              ELSE c \in plan.review
Chosen(c)   == Eligible(c) /\ (RuleForCandidate(c) # NoId \/ c \in plan.paths)

\* The two consistency checks of a manual plan.  An approval that is only "same"
\* makes the second fail although the config is the plan's.
Disagrees(c) ==
    /\ plan.manual
    /\ \/ /\ Planned(c).id \notin {NoId, RuleForCandidate(c)} /\ c \notin plan.paths
       \/ Planned(c) = Exact /\ ~ExactConfig(c)

\* The candidate was met before: selected_refs.
RepeatedInRow == at > 1 /\ plan.items[at - 1] = plan.items[at]   \* mutated form: neighbours only
Repeated == \E j \in 1..(at - 1) : plan.items[j] = plan.items[at]

SelectItem ==
    LET c == plan.items[at] IN
    /\ pc = "select" /\ at <= Len(plan.items)
    /\ IF (Eligible(c) /\ Repeated) \/ (Chosen(c) /\ Disagrees(c))
       THEN Raise
       ELSE /\ selected' = IF Chosen(c) THEN Append(selected, c) ELSE selected
            /\ at' = at + 1
            /\ UNCHANGED <<worldVars, runVars, pc, fresh, clear, granted, exit>>

SelectDone ==
    /\ pc = "select" /\ at > Len(plan.items)
    /\ pc' = "rescan" /\ at' = 1
    /\ UNCHANGED <<worldVars, runVars, selected, fresh, clear, granted, exit>>

\* The scan may fail, and a bounded one may miss candidates.
Rescan ==
    /\ pc = "rescan"
    /\ \/ Raise
       \/ /\ fresh' \in SUBSET ToSet(selected)
          /\ pc' = "next"
          /\ UNCHANGED <<worldVars, runVars, at, selected, clear, granted, exit>>

-----------------------------------------------------------------------------
(* One candidate.                                                          *)

NotGranted == [rule |-> 0, id |-> NoId]

Finish(c, status, freed) ==
    /\ results' = Append(results, [cand |-> c, status |-> status, freed |-> freed])
    /\ at' = at + 1
    /\ pc' = "next"
    /\ clear' = {} /\ granted' = NotGranted

Reject(c) ==
    /\ Finish(c, "rejected", 0)
    /\ UNCHANGED <<worldVars, selected, fresh, counts, spent, exit, ledger>>

NextCandidate ==
    LET c == selected[at] IN
    /\ pc = "next" /\ at <= Len(selected)
    /\ IF c \notin fresh THEN Reject(c)
       ELSE /\ pc' = "collect"
            /\ UNCHANGED <<worldVars, runVars, at, selected, fresh, clear, granted, exit>>

\* A check that runs either clears the candidate or not.
Collect ==
    LET c == selected[at] IN
    /\ pc = "collect"
    /\ IF Unsupported \in Collected(c) THEN Raise
       ELSE /\ clear' \in SUBSET Collected(c)
            /\ pc' = "recheck"
            /\ UNCHANGED <<worldVars, runVars, at, selected, fresh, granted, exit>>

\* The gates of a category, read from the first rule with its id.
CountFullLate(r, id) == counts[id] > r.maxCount   \* mutated form: one too many
CountFull(r, id)     == counts[id] >= r.maxCount

BytesFull(r, id, bytes) == bytes > r.maxBytes \/ spent[id] + bytes > r.maxBytes

\* Approval, fresh evidence and limits.  Evidence and age may reject any
\* candidate; a rule that was never validated may raise.
Recheck ==
    LET c == selected[at]
        g == Approved(c, plan.paths)
        r == plan.rules[RuleOf(g.id)]
    IN
    /\ pc = "recheck"
    /\ \/ Reject(c)
       \/ g.id # NoId /\ ~r.valid /\ Raise
       \/ /\ g.ok /\ Unsupported \notin Required(c, g) /\ Required(c, g) \subseteq clear
          /\ c \in intact
          /\ g.id # NoId => ~CountFull(r, g.id) /\ ~BytesFull(r, g.id, Total(c))
          /\ granted' = [rule |-> g.rule, id |-> g.id]
          /\ pc' = "unlink"
          /\ UNCHANGED <<worldVars, runVars, at, selected, fresh, clear, exit>>

\* An interrupted deletion that freed nothing is reported as a rejection.
ReportedRaw(status, freed) == status   \* mutated form
Reported(status, freed)    == IF status = "partial" /\ freed = 0 THEN "rejected" ELSE status

\* The accounting of execute_delete, and the history.
Account(c, status, freed) ==
    LET id == granted.id IN
    /\ IF id # NoId /\ (status = "deleted" \/ freed > 0)
       THEN /\ counts' = [counts EXCEPT ![id] = @ + 1]
            /\ spent' = [spent EXCEPT ![id] = @ + freed]
       ELSE UNCHANGED <<counts, spent>>
    /\ ledger' = IF status = "deleted" \/ freed > 0
                 THEN Append(ledger, [cand |-> c, rule |-> granted.rule, id |-> id,
                                      freed |-> freed, clear |-> clear,
                                      whole |-> status = "deleted"])
                 ELSE ledger
    /\ Finish(c, Reported(status, freed), freed)
    /\ UNCHANGED <<plan, growth, selected, fresh, exit>>

\* Everything below the candidate goes.
UnlinkAll ==
    LET c == selected[at] IN
    /\ pc = "unlink" /\ c \in intact
    /\ own' = [x \in Cands |-> IF x \in Tree(c) THEN 0 ELSE own[x]]
    /\ intact' = intact \ Tree(c)
    /\ Account(c, "deleted", Total(c))

\* Or some of it, or nothing.
UnlinkSome ==
    LET c == selected[at] IN
    /\ pc = "unlink"
    /\ \E left \in [Tree(c) -> 0..Total(c)] :
          /\ \A x \in Tree(c) : left[x] <= own[x]
          /\ own' = [x \in Cands |-> IF x \in Tree(c) THEN left[x] ELSE own[x]]
          /\ intact' = intact \ {x \in Tree(c) : left[x] = 0}
          /\ Account(c, "partial",
                     SumFunctionOnSet([x \in Tree(c) |-> own[x] - left[x]], Tree(c)))

\* The first open of the walk is outside its handler of errors.
UnlinkRaises == pc = "unlink" /\ Raise

-----------------------------------------------------------------------------
(* The report.                                                             *)

\* Writing the report may fail, on an existing file without --overwrite too;
\* nothing is reported then.
DeletedOnly(res)    == \A k \in DOMAIN res : res[k].status = "deleted"
NothingRefused(res) == \A k \in DOMAIN res : res[k].status # "rejected"   \* mutated form

ExitLenient == IF NothingRefused(results) THEN 0 ELSE 2   \* mutated form: partial is success
ExitCode    == IF DeletedOnly(results) THEN 0 ELSE 2

Write ==
    /\ pc = "next" /\ at > Len(selected)
    /\ \/ Raise
       \/ /\ exit' = ExitCode
          /\ pc' = "end"
          /\ UNCHANGED <<worldVars, runVars, at, selected, fresh, clear, granted>>

-----------------------------------------------------------------------------
(* Other programs.                                                         *)

\* Something is written below a candidate that was not removed.
Grow(c) ==
    /\ growth < MaxGrowth /\ own[c] > 0
    /\ own' = [own EXCEPT ![c] = @ + 1]
    /\ growth' = growth + 1
    /\ UNCHANGED <<plan, intact>>

OtherPrograms ==
    /\ pc # "end"
    /\ \E c \in Cands : Grow(c)
    /\ UNCHANGED <<runVars, pc, at, selected, fresh, clear, granted, exit>>

Init ==
    /\ plan \in Scenarios
    /\ own = InitOwn /\ intact = Cands /\ growth = 0
    /\ pc = "select" /\ at = 1 /\ selected = <<>> /\ fresh = {} /\ clear = {}
    /\ granted = NotGranted
    /\ counts = [i \in Ids |-> 0] /\ spent = [i \in Ids |-> 0]
    /\ results = <<>> /\ exit = 3 /\ ledger = <<>>

Run == \/ SelectItem \/ SelectDone \/ Rescan \/ NextCandidate \/ Collect \/ Recheck
       \/ UnlinkAll \/ UnlinkSome \/ UnlinkRaises \/ Write

Next == Run \/ OtherPrograms

Spec == Init /\ [][Next]_vars

-----------------------------------------------------------------------------
(* Properties.                                                             *)

Entries     == DOMAIN ledger
Freed(S)    == SumFunctionOnSet([n \in Entries |-> ledger[n].freed], S)
UsedBy(k)   == {n \in Entries : ledger[n].rule = k}
DistinctIds == \A j, k \in Rules : plan.rules[j].id = plan.rules[k].id => j = k

\* README.md:28: a category has limits of deletion.  What one run removes
\* because of a rule stays within the count and the bytes of that rule; only
\* what was written after the recheck comes on top.
OwnLimits ==
    \A k \in Rules : /\ Cardinality(UsedBy(k)) <= plan.rules[k].maxCount
                     /\ Freed(UsedBy(k)) <= plan.rules[k].maxBytes + growth

\* With one rule per id the counters of run_state and the gates of
\* execute_delete keep these limits over all candidates of a run, the partly
\* deleted ones included.
LimitsKept == DistinctIds => OwnLimits

\* command_apply selects with one function and execute_delete approves with
\* another: nothing is removed under a category the command line did not
\* name, nor under a rule that does not cover it, nor as an exact path that
\* neither the config nor the command line approves.
Authorised ==
    \A n \in Entries :
        LET e == ledger[n] IN
        /\ e.cand \in plan.paths
             \/ \E k \in Matching(e.cand) : plan.rules[k].id \in plan.categories
        /\ IF e.id = NoId THEN e.cand \in plan.paths \/ \E k \in ConfigFor(e.cand) : SameIdentity(k)
           ELSE e.id \in plan.categories /\ Matching(e.cand) = {e.rule}

\* Whatever is removed was found clear by every check its rule or its
\* approval requires, though the checks are chosen and demanded in two places.
ChecksHonoured ==
    DistinctIds =>
    \A n \in Entries :
        LET e == ledger[n] IN
        IF e.id # NoId THEN plan.rules[e.rule].checks \subseteq e.clear
        ELSE IF ConfigFor(e.cand) # {}
             THEN \E k \in ConfigFor(e.cand) :
                      SameIdentity(k) /\ plan.approvals[k].checks \subseteq e.clear
             ELSE Optional \subseteq e.clear

\* Exit code 0 means that every selected candidate was removed whole.
ExitHonest ==
    exit = 0 => ToSet(selected) = {ledger[n].cand : n \in {m \in Entries : ledger[m].whole}}

\* Candidates may lie inside one another; what is reported as freed was
\* allocated once.
FreedOnce ==
    Freed(Entries) <= SumFunctionOnSet(InitOwn, Cands) + growth

\* Candidates may be named twice and lie inside one another, and a partly
\* deleted one is still there: nothing is charged to a category again, neither
\* itself nor with the candidate it went with.
ChargedOnce ==
    \A m, n \in Entries :
        m < n => /\ ledger[m].cand # ledger[n].cand
                 /\ ledger[m].whole => ledger[n].cand \notin Tree(ledger[m].cand)

-----------------------------------------------------------------------------
(* What the properties rest on.                                            *)

InHand == pc \in {"collect", "recheck", "unlink"}

\* Only chosen candidates are selected, and one of them is in hand.
SelectionInv ==
    /\ \A k \in DOMAIN selected : Chosen(selected[k])
    /\ InHand => at <= Len(selected)

\* What is unlinked, and what was, has the approval of execute_delete, and
\* the checks this approval demands.
Backed(c, rule, id, checked) ==
    LET g == Approved(c, plan.paths) IN
    /\ g.ok /\ rule = g.rule /\ id = g.id /\ Required(c, g) \subseteq checked

Entry == [cand : Cands, rule : Nat, id : Ids \cup {NoId}, freed : Nat, clear : SUBSET Optional,
          whole : BOOLEAN]

ConsentInv ==
    /\ pc = "unlink" => Backed(selected[at], granted.rule, granted.id, clear)
    /\ ledger \in Seq(Entry)
    /\ \A n \in Entries : LET e == ledger[n] IN Chosen(e.cand) /\ Backed(e.cand, e.rule, e.id, e.clear)

\* The counters of a category are those of its rule, and what is unlinked
\* fits in, but for what was written since the recheck.
CountersInv ==
    DistinctIds => \A k \in Rules :
        LET r == plan.rules[k] IN
        /\ counts[r.id] = Cardinality(UsedBy(k)) /\ counts[r.id] <= r.maxCount
        /\ spent[r.id] = Freed(UsedBy(k)) /\ spent[r.id] <= r.maxBytes + growth
        /\ pc = "unlink" /\ granted.rule = k =>
               counts[r.id] < r.maxCount /\ spent[r.id] + Total(selected[at]) <= r.maxBytes + growth

\* Bytes are on the disk or in the ledger.
BytesInv ==
    Freed(Entries) + SumFunctionOnSet(own, Cands) = SumFunctionOnSet(InitOwn, Cands) + growth

\* One result for every candidate that was dealt with.
Wholes == {ledger[n].cand : n \in {m \in Entries : ledger[m].whole}}
ReportInv ==
    /\ Wholes \subseteq ToSet(selected)
    /\ \A k \in DOMAIN results :
           k <= Len(selected) /\ (results[k].status = "deleted" => selected[k] \in Wholes)
    /\ pc \in {"select", "rescan"} => results = <<>> /\ ledger = <<>>
    /\ pc = "rescan" => at = 1
    /\ pc = "next" \/ InHand => Len(results) = at - 1
    /\ exit = 3 <=> pc # "end"
    /\ exit = 0 => Len(results) >= Len(selected) /\ DeletedOnly(results)

\* Selected candidates are different, what is in the ledger was dealt with, and
\* nothing of what went whole is there any more.
ChargeInv ==
    /\ \A j, k \in DOMAIN selected : selected[j] = selected[k] => j = k
    /\ pc = "select" =>
           \A j \in DOMAIN selected : \E i \in 1..(at - 1) : plan.items[i] = selected[j]
    /\ \A n \in Entries : \E j \in DOMAIN selected : j < at /\ selected[j] = ledger[n].cand
    /\ \A n \in Entries : ledger[n].whole => Tree(ledger[n].cand) \cap intact = {}
    /\ pc = "unlink" => selected[at] \in intact
    /\ ChargedOnce

=============================================================================
