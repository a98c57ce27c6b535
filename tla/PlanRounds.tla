----------------------------- MODULE PlanRounds -----------------------------
(***************************************************************************)
(* The command "plan": command_plan, _parse_model_round and _write_json of *)
(* cleanup_agent/cli.py.                                                   *)
(*                                                                         *)
(*   preinspect  the largest candidates are inspected, time permitting     *)
(*   ask         the local model is asked, within what time is left        *)
(*   answer      its answer is parsed: a final list, or more inspections   *)
(*   inspect     the inspections it asked for, then the next round         *)
(*   create, fill, publish, unlink, tidy    the plan is written            *)
(*                                                                         *)
(* The model may answer anything.  The command may be killed at any point. *)
(* Other programs write or remove the output file and may remove the       *)
(* temporary one.  How a request runs and ends is the subject of           *)
(* ChildLifecycle; here it takes time or fails.                            *)
(***************************************************************************)
EXTENDS Integers, SequencesExt, ConsumerChecks

CONSTANTS
    Ranked,       \* the candidates of the scan, largest first
    Machines,     \* what an inspection of a candidate may meet
    Jobs,         \* snapshots with command lines
    MaxRefs, MaxRounds, MaxItems,  \* MAX_INSPECT_REFS_PER_ROUND, MAX_INSPECT_ROUNDS, items of an answer
    PreinspectionLimit,            \* PREINSPECTION_CANDIDATE_LIMIT
    Reserve,      \* PREINSPECTION_SECONDS_PER_CANDIDATE
    MaxInspection,                 \* the timeouts of one inspection together
    Floor,        \* one second: no request starts with less left
    MinTime, MaxStartup,           \* bounds of the startup timeout
    StopTime,     \* what stopping the children of a request may take
    MaxWrites     \* bound: what other programs do to the output file

Cands == ToSet(Ranked)
Evidence == [status : {"clear", "complete", "unsafe", "unknown", "not_checked"}, unknown : BOOLEAN]
Job == [scan : {"complete", "partial", "error"}, known : [Cands -> Evidence], total : Nat, request : Nat,
        preinspect : Nat, output : {"stdout", "new", "overwrite"}]

ASSUME PlanAssumption ==
    /\ Ranked \in Seq(Cands) /\ IsInjective(Ranked)
    /\ Jobs \subseteq Job /\ Machines \subseteq {m \in Machine : Truthful(m)}
    /\ {MaxRounds, MaxItems, PreinspectionLimit, MaxInspection, MaxStartup, StopTime, MaxWrites} \subseteq Nat
    /\ {MaxRefs, Reserve, Floor, MinTime} \subseteq Nat \ {0} /\ 2 * MinTime <= Floor + 1
    \* The evidence of a scan has no answers of the optional checks.
    /\ \A j \in Jobs, c \in Cands : j.known[c].unknown \/ j.known[c].status = "unsafe"

VARIABLES
    job, pc,
    elapsed,    \* time since the start
    quota,      \* candidates to inspect before the first request
    inspected,  \* inspected_by_ref: candidate :> [clear, missed]; its domain is repeated
    round,
    wanted,     \* candidates the model asked for and that are still to be inspected
    limited,    \* some limitation was recorded
    plan,       \* [status, items: candidate :> assessment]
    target,     \* the output file: absent, other, part or plan
    temp,       \* the temporary file: absent, part or plan
    trouble,    \* the exception _write_json is about to raise: none, raised, or stuck if by an unlink
    exit,       \* exit code, or 3 while running
    writes,     \* what other programs did to the output file
    work,       \* history: inspections made
    judged      \* history: candidates the final answer named

timeVars == <<elapsed, quota>>
askVars  == <<inspected, round, wanted, limited, judged, work>>
fileVars == <<target, temp, writes, trouble>>
vars     == <<job, pc, timeVars, askVars, plan, fileVars, exit>>

Assessments == {"candidate_for_review", "keep", "unknown"}
NoPlan      == [status |-> "none", items |-> <<>>]
Finding     == [clear : BOOLEAN, missed : BOOLEAN]
\* What _inspect_candidate may find; missed is a history: clear, and yet used
\* by someone a source reaches.
Findings    == LET clear(m) == Status(m.core, collect(m)) = "clear"
               IN  {[clear |-> clear(m), missed |-> clear(m) /\ Used(m)] : m \in Machines}

TypeOK ==
    /\ job \in Jobs /\ elapsed \in Nat /\ quota \in 0..PreinspectionLimit
    /\ pc \in {"start", "preinspect", "ask", "answer", "inspect",
               "create", "fill", "publish", "unlink", "tidy", "end"}
    /\ DOMAIN inspected \subseteq Cands /\ \A c \in DOMAIN inspected : inspected[c] \in Finding
    /\ round \in 0..MaxRounds + 1 /\ wanted \subseteq Cands /\ limited \in BOOLEAN
    /\ judged \subseteq Cands
    /\ plan.status \in {"none", "complete", "partial"}
    /\ plan.items \in IF plan.status = "none" THEN {<<>>} ELSE [Cands -> Assessments]
    /\ target \in {"absent", "other", "part", "plan"} /\ temp \in {"absent", "part", "plan"}
    /\ trouble \in {"none", "raised", "stuck"}
    /\ exit \in 0..3 /\ writes \in 0..MaxWrites /\ work \in Nat

Init ==
    /\ job \in Jobs /\ pc = "start" /\ elapsed = 0 /\ quota = 0 /\ inspected = <<>>
    /\ round = 0 /\ wanted = {} /\ limited = FALSE /\ judged = {} /\ plan = NoPlan
    /\ target \in {"absent", "other"} /\ temp = "absent" /\ trouble = "none"
    /\ exit = 3 /\ writes = 0 /\ work = 0

-----------------------------------------------------------------------------
Left     == job.total - elapsed
Least(a, b) == IF a < b THEN a ELSE b
Most(a, b)  == IF a < b THEN b ELSE a

\* An exception outside _write_json: main prints it and returns 1.
Fail ==
    /\ pc' = "end" /\ exit' = 1
    /\ UNCHANGED <<job, plan, fileVars>>

RefuseScan ==
    /\ pc = "start" /\ job.scan = "error"
    /\ Fail /\ UNCHANGED <<timeVars, askVars>>

StartQuietly ==   \* mutated form: candidates that are passed over are not mentioned
    /\ pc = "start" /\ job.scan # "error"
    /\ LET limit == Least(job.preinspect, PreinspectionLimit)
       IN /\ quota' = Least(limit, Most(0, Left - Floor) \div Reserve)
          /\ limited' = FALSE
    /\ pc' = "preinspect"
    /\ UNCHANGED <<job, elapsed, inspected, round, wanted, judged, work, plan, fileVars, exit>>
Start ==
    /\ pc = "start" /\ job.scan # "error"
    /\ LET limit == Least(job.preinspect, PreinspectionLimit)
       IN /\ quota' = Least(limit, Most(0, Left - Floor) \div Reserve)
          /\ limited' = (quota' < Least(limit, Len(Ranked)))
    /\ pc' = "preinspect"
    /\ UNCHANGED <<job, elapsed, inspected, round, wanted, judged, work, plan, fileVars, exit>>

\* _inspect_candidate.  The timeouts of the checks add up to more than the reserve.
Inspect(c) ==
    /\ \E f \in Findings : inspected' = [x \in DOMAIN inspected \cup {c} |-> IF x = c THEN f ELSE inspected[x]]
    /\ \E d \in 0..MaxInspection : elapsed' = elapsed + d
    /\ work' = work + 1

Preinspect ==
    /\ pc = "preinspect" /\ work < Least(quota, Len(Ranked)) /\ Left >= Reserve
    /\ Inspect(Ranked[work + 1])
    /\ UNCHANGED <<job, pc, quota, round, wanted, limited, judged, plan, fileVars, exit>>

PreinspectionEnds ==
    /\ pc = "preinspect"
    /\ \/ work = Least(quota, Len(Ranked)) /\ limited' = limited
       \/ work < Least(quota, Len(Ranked)) /\ Left < Reserve /\ limited' = TRUE
    /\ pc' = "ask"
    /\ UNCHANGED <<job, timeVars, inspected, round, wanted, judged, work, plan, fileVars, exit>>

TooLate ==
    /\ pc = "ask" /\ Left <= Floor
    /\ Fail /\ UNCHANGED <<timeVars, askVars>>

\* A check raises and with it the inspection: a directory it may not look into.
InspectionRaises ==
    /\ \/ pc = "preinspect" /\ work < Least(quota, Len(Ranked)) /\ Left >= Reserve
       \/ pc = "inspect" /\ wanted # {}
    /\ \E d \in 0..MaxInspection : elapsed' = elapsed + d
    /\ Fail /\ UNCHANGED <<quota, askVars>>

\* The time one request may take: the server's start, then the answer.
RequestTimeFixed ==   \* mutated form: the request timeout is not cut to what is left
    Least(MaxStartup, Most(MinTime, Left \div 3)) + job.request
RequestTime ==
    LET startup == Least(MaxStartup, Most(MinTime, Left \div 3))
    IN  startup + Least(job.request, Most(MinTime, Left - startup))

Ask ==
    /\ pc = "ask" /\ Left > Floor
    /\ \E d \in 0..RequestTime + StopTime : elapsed' = elapsed + d
    /\ pc' = "answer"
    /\ UNCHANGED <<job, quota, askVars, plan, fileVars, exit>>

\* The runtime raises, or the answer is no JSON, has another shape, names
\* unknown candidates, cites unknown evidence or promotes what it may not.
Rejected ==
    /\ pc = "answer"
    /\ Fail /\ UNCHANGED <<timeVars, askVars>>

\* May the model call c a candidate for review?
PromotableUnlessUnknown(c) ==   \* mutated form: only the unknown marks are looked at
    IF c \in DOMAIN inspected THEN inspected[c].clear ELSE ~job.known[c].unknown
Promotable(c) ==
    IF c \in DOMAIN inspected THEN inspected[c].clear
    ELSE ~job.known[c].unknown /\ job.known[c].status \in {"clear", "complete"}

\* Candidates the model left out stay in the plan as unknown, which is a limitation.
Compose(marks, limits) ==
    /\ limited' = (limited \/ limits \/ DOMAIN marks # Cands)
    /\ plan' = [status |-> IF ~limited' /\ job.scan = "complete" THEN "complete" ELSE "partial",
                items |-> [c \in Cands |-> IF c \in DOMAIN marks THEN marks[c] ELSE "unknown"]]

FinalAnswer ==
    /\ pc = "answer"
    /\ \E S \in {x \in SUBSET Cands : Cardinality(x) <= MaxItems} : \E marks \in [S -> Assessments], l \in BOOLEAN :
          /\ \A c \in S : marks[c] = "candidate_for_review" => Promotable(c)
          /\ Compose(marks, l) /\ judged' = S
    /\ round' = round + 1 /\ pc' = "create"
    /\ UNCHANGED <<job, timeVars, inspected, wanted, work, fileVars, exit>>

Requests == {x \in SUBSET Cands : x # {} /\ Cardinality(x) <= MaxRefs}

AcceptableOnceMore(refs) == round <= MaxRounds /\ refs \cap DOMAIN inspected = {}   \* mutated form: off by one
AcceptableAgain(refs) == round < MaxRounds   \* mutated form: repetitions are allowed
\* Asking again, or once too often, ends the command.
Acceptable(refs) == round < MaxRounds /\ refs \cap DOMAIN inspected = {}

AskedTooMuch ==
    /\ pc = "answer" /\ \E refs \in Requests : ~Acceptable(refs)
    /\ round' = round + 1 /\ Fail
    /\ UNCHANGED <<timeVars, inspected, wanted, limited, judged, work>>

\* mutated form: no limit of rounds, and what was asked before is answered again
RequestsWithoutEnd(refs) ==
    /\ pc = "answer"
    /\ wanted' = refs \ DOMAIN inspected /\ round' = round
    /\ pc' = IF wanted' = {} THEN "ask" ELSE "inspect"
    /\ \E l \in BOOLEAN : limited' = (limited \/ l)
    /\ UNCHANGED <<job, timeVars, inspected, judged, work, plan, fileVars, exit>>
RequestInspections(refs) ==
    /\ pc = "answer" /\ Acceptable(refs)
    /\ wanted' = refs /\ round' = round + 1 /\ pc' = "inspect"
    /\ \E l \in BOOLEAN : limited' = (limited \/ l)
    /\ UNCHANGED <<job, timeVars, inspected, judged, work, plan, fileVars, exit>>

InspectWanted(c) ==
    /\ pc = "inspect" /\ c \in wanted
    /\ Inspect(c) /\ wanted' = wanted \ {c}
    /\ pc' = IF wanted' = {} THEN "ask" ELSE "inspect"
    /\ UNCHANGED <<job, quota, round, limited, judged, plan, fileVars, exit>>

-----------------------------------------------------------------------------
(* _write_json.                                                            *)

Done ==
    /\ pc' = "end" /\ exit' = IF plan.status = "complete" THEN 0 ELSE 2

PrintPlan ==
    /\ pc = "create" /\ job.output = "stdout"
    /\ Done /\ UNCHANGED <<job, timeVars, askVars, plan, fileVars>>

CreateInPlace ==   \* mutated form: the target is opened for writing
    /\ pc = "create" /\ job.output # "stdout"
    /\ temp' = "part" /\ target' = "part" /\ pc' = "fill"
    /\ UNCHANGED <<job, timeVars, askVars, plan, writes, trouble, exit>>
\* The temporary file lies beside the target.
Create ==
    /\ pc = "create" /\ job.output # "stdout"
    /\ temp' = "part" /\ pc' = "fill"
    /\ UNCHANGED <<job, timeVars, askVars, plan, target, writes, trouble, exit>>

\* A closed pipe, a missing permission: there is no temporary file yet.
CreateFails ==
    /\ pc = "create"
    /\ Fail /\ UNCHANGED <<timeVars, askVars>>

\* Written, flushed and synchronised, if need be without a name.
Fill ==
    /\ pc = "fill" /\ pc' = "publish"
    /\ temp' = IF temp = "absent" THEN "absent" ELSE "plan"
    /\ UNCHANGED <<job, timeVars, askVars, plan, target, writes, trouble, exit>>

ReplaceAnyway == job.output \in {"new", "overwrite"}   \* mutated form: os.replace in both cases
Replaces      == job.output = "overwrite"

Replace ==
    /\ pc = "publish" /\ Replaces /\ temp # "absent"
    /\ target' = temp /\ temp' = "absent" /\ pc' = "tidy"
    /\ UNCHANGED <<job, timeVars, askVars, plan, writes, trouble, exit>>

\* A link never replaces what is there.
Link ==
    /\ pc = "publish" /\ ~Replaces /\ temp # "absent" /\ target = "absent"
    /\ target' = temp /\ pc' = "unlink"
    /\ UNCHANGED <<job, timeVars, askVars, plan, temp, writes, trouble, exit>>

\* A full disk, a missing permission; the output file is there already; the
\* temporary file is not there any more.
WriteFails ==
    /\ pc \in {"fill", "publish"}
    /\ trouble' = "raised" /\ pc' = "tidy"
    /\ UNCHANGED <<job, timeVars, askVars, plan, target, temp, writes, exit>>

Unlink ==
    /\ pc = "unlink" /\ temp # "absent"
    /\ temp' = "absent" /\ pc' = "tidy"
    /\ UNCHANGED <<job, timeVars, askVars, plan, target, writes, trouble, exit>>

\* The plan is published by now.
UnlinkFails ==
    /\ pc = "unlink"
    /\ trouble' = "stuck" /\ pc' = "tidy"
    /\ UNCHANGED <<job, timeVars, askVars, plan, target, temp, writes, exit>>

TidyNothing ==   \* mutated form: what is left of a failed write is not removed
    /\ pc = "tidy"
    /\ IF trouble = "none" THEN Done ELSE pc' = "end" /\ exit' = 1
    /\ UNCHANGED <<job, timeVars, askVars, plan, fileVars>>
\* The finally clause: no complaint if the temporary file is gone.
Tidy ==
    /\ pc = "tidy" /\ temp' = "absent"
    /\ IF trouble = "none" THEN Done ELSE pc' = "end" /\ exit' = 1
    /\ UNCHANGED <<job, timeVars, askVars, plan, target, writes, trouble>>

TidyFails ==
    /\ pc = "tidy" /\ trouble' = "stuck" /\ pc' = "end" /\ exit' = 1
    /\ UNCHANGED <<job, timeVars, askVars, plan, target, temp, writes>>

-----------------------------------------------------------------------------
(* The world around.                                                       *)

\* The command is killed: nothing is tidied up.  Before the temporary file
\* is there, a kill leaves nothing to tell of.
Crash ==
    /\ pc \in {"fill", "publish", "unlink", "tidy"} /\ pc' = "end"
    /\ UNCHANGED <<job, timeVars, askVars, plan, fileVars, exit>>

\* Before the plan is written nothing depends on the output file, so what
\* happens to it until then is in the initial states.
OtherWriter ==
    /\ pc \in {"create", "fill", "publish", "unlink", "tidy"} /\ writes < MaxWrites
    /\ \/ target' \in {"absent", "other"} \ {target} /\ temp' = temp
       \/ temp # "absent" /\ temp' = "absent" /\ target' = target
    /\ writes' = writes + 1
    /\ UNCHANGED <<job, pc, timeVars, askVars, plan, trouble, exit>>

Command ==
    \/ RefuseScan \/ Start \/ Preinspect \/ PreinspectionEnds \/ InspectionRaises
    \/ TooLate \/ Ask \/ Rejected \/ FinalAnswer \/ AskedTooMuch
    \/ (\E refs \in Requests : RequestInspections(refs)) \/ (\E c \in Cands : InspectWanted(c))
    \/ PrintPlan \/ Create \/ CreateFails \/ Fill \/ Replace \/ Link \/ WriteFails
    \/ Unlink \/ UnlinkFails \/ Tidy \/ TidyFails

Next == Command \/ Crash \/ OtherWriter

\* The command is one thread; its inspections and requests are bounded in time.
Spec == Init /\ [][Next]_vars /\ WF_vars(Command)

-----------------------------------------------------------------------------

\* No plan calls a candidate fit for review unless it was inspected, every
\* source could be asked, and nobody uses it as far as the sources reach,
\* whatever the model says and whatever the scan recorded.
ReviewInspected ==
    \A c \in DOMAIN plan.items : plan.items[c] = "candidate_for_review" =>
        c \in DOMAIN inspected /\ inspected[c].clear /\ ~inspected[c].missed

\* Exit code 0 means that nothing was left out on the way: the scan was
\* whole, no inspection was skipped for lack of time and the model judged
\* every candidate.
CompleteMeansAll ==
    exit = 0 =>
        /\ job.scan = "complete" /\ judged = Cands
        /\ \A i \in DOMAIN Ranked : i <= Least(job.preinspect, PreinspectionLimit) => Ranked[i] \in DOMAIN inspected

\* The budget is checked before a request and before the inspections that
\* precede the first, not before those the model asks for: one batch of them,
\* and the stopping of the children, are all that can exceed it.
OverrunBounded == elapsed <= job.total + StopTime + MaxRefs * MaxInspection

\* Every inspection is of another candidate: a model that keeps asking makes
\* progress until the rounds are used up.
InspectedOnce ==
    /\ work = Cardinality(DOMAIN inspected)
    /\ work <= PreinspectionLimit + MaxRounds * MaxRefs

\* The output file is never half a plan, even when the command is killed.  It
\* is there after success, and a failure leaves neither it nor a temporary
\* file behind, unless the removal of the temporary file itself failed.
OutputHonest ==
    /\ target # "part"
    /\ exit \in {0, 2} => /\ temp = "absent"
                          /\ writes = 0 /\ job.output # "stdout" => target = "plan"
    /\ exit = 1 /\ trouble # "stuck" => temp = "absent" /\ target # "plan"

\* Without --overwrite the command never replaces a file, not even one that
\* another program creates while the plan is being written.
OutputKept ==
    [][target # "plan" /\ target' = "plan" => target = "absent" \/ job.output = "overwrite"]_vars

\* The command ends, whatever the model asks for and however fast it answers.
Ends == <>(pc = "end")

-----------------------------------------------------------------------------
(* What the properties rest on.                                            *)

Gathering == {"start", "preinspect", "ask", "answer", "inspect"}

\* The final answer comes after every inspection, and a round is left for it.
RoundsInv ==
    /\ pc \in Gathering => plan = NoPlan /\ round <= MaxRounds
    /\ exit = 3 \/ pc = "end"

\* An inspection that finds nothing has not missed anything.
EvidenceInv ==
    /\ \A c \in DOMAIN inspected : inspected[c].clear => ~inspected[c].missed
    /\ ReviewInspected

\* Unless a limitation was recorded, the first candidates are inspected.
Foremost == {i \in DOMAIN Ranked : i <= Least(job.preinspect, PreinspectionLimit)}
LimitedInv ==
    /\ pc = "preinspect" /\ ~limited => \A i \in Foremost : i <= quota
    /\ pc \notin {"start", "preinspect"} /\ exit # 1 /\ ~limited => \A i \in Foremost : Ranked[i] \in DOMAIN inspected
    /\ plan.status = "complete" =>
           job.scan = "complete" /\ judged = Cands /\ ~limited /\ pc \notin {"start", "preinspect"}
    /\ exit = 0 => plan.status = "complete"

\* The time that inspections still to be made may take is accounted for.
BudgetInv ==
    /\ pc = "start" => elapsed = 0
    /\ pc = "preinspect" => elapsed <= job.total + MaxInspection
    /\ pc = "answer" => elapsed <= job.total + StopTime
    /\ pc = "inspect" =>
           elapsed + Cardinality(wanted) * MaxInspection <= job.total + StopTime + MaxRefs * MaxInspection
    /\ OverrunBounded

\* So are the inspections themselves; what is wanted has not been inspected.
WorkInv ==
    /\ work = Cardinality(DOMAIN inspected)
    /\ pc = "start" => work = 0
    /\ pc = "preinspect" => work <= quota /\ work <= Len(Ranked)
    /\ pc \in {"start", "preinspect"} => round = 0 /\ DOMAIN inspected = {Ranked[i] : i \in 1..work}
    /\ pc \in {"ask", "answer"} => work <= PreinspectionLimit + round * MaxRefs
    /\ pc = "inspect" => /\ wanted \cap DOMAIN inspected = {}
                         /\ work + Cardinality(wanted) <= PreinspectionLimit + round * MaxRefs
    /\ work <= PreinspectionLimit + MaxRounds * MaxRefs

\* The temporary file becomes the output file when it is whole.
FileInv ==
    /\ pc \in Gathering \cup {"create"} => temp = "absent"
    /\ pc \in {"publish", "unlink"} => temp \in {"absent", "plan"}
    /\ target = "plan" => pc \in {"unlink", "tidy", "end"}
    /\ pc = "unlink" /\ writes = 0 => target = "plan"
    /\ pc = "tidy" /\ trouble = "none" /\ writes = 0 => target = "plan"
    /\ pc = "tidy" /\ trouble = "raised" => target # "plan"
    /\ pc \notin {"tidy", "end"} => trouble = "none"
    /\ pc = "end" \/ exit = 3
    /\ OutputHonest
=============================================================================
