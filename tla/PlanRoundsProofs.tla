-------------------------- MODULE PlanRoundsProofs --------------------------
(***************************************************************************)
(* Proofs about the command "plan": its types, the evidence behind what it *)
(* calls fit for review, what exit code 0 means, the time and the number   *)
(* of inspections, and the output file, for every snapshot, machine and    *)
(* answer of the model, and for all limits.                                *)
(***************************************************************************)
EXTENDS PlanRounds, FiniteSetTheorems, SequenceTheorems, TLAPS

-----------------------------------------------------------------------------
(* The kinds of steps.                                                     *)

\* The command gives up, perhaps after an inspection that raised.
Failing ==
    /\ Fail /\ UNCHANGED <<quota, inspected, wanted, limited, judged, work>>
    /\ round' = round \/ (pc = "answer" /\ round' = round + 1)
    /\ elapsed' = elapsed \/ InspectionRaises
    /\ pc \in Gathering \cup {"create"}

\* The plan is there, and is being written.
Writing ==
    /\ pc \in {"create", "fill", "publish", "unlink", "tidy"}
    /\ pc' \in {"create", "fill", "publish", "unlink", "tidy", "end"}
    /\ UNCHANGED <<job, timeVars, askVars, plan>>
    /\ \/ exit' = exit
       \/ pc' = "end" /\ exit' = (IF plan.status = "complete" THEN 0 ELSE 2)
       \/ pc' = "end" /\ exit' = 1

\* These are the ways to give up.
LEMMA Fails ==
    ASSUME RefuseScan \/ InspectionRaises \/ TooLate \/ Rejected \/ AskedTooMuch \/ CreateFails
    PROVE  Failing
<1>1. CASE InspectionRaises
  BY <1>1 DEF InspectionRaises, Failing, Gathering, askVars
<1>2. CASE RefuseScan \/ TooLate \/ Rejected \/ AskedTooMuch \/ CreateFails
  BY <1>2 DEF RefuseScan, TooLate, Rejected, AskedTooMuch, CreateFails, Failing, Gathering, timeVars, askVars
<1> QED
  BY <1>1, <1>2

\* Every step is of one of these kinds, or gathers evidence.
LEMMA PlanSteps ==
    ASSUME [Next]_vars
    PROVE  \/ Failing \/ Writing \/ UNCHANGED vars
           \/ Start \/ Preinspect \/ PreinspectionEnds \/ Ask \/ FinalAnswer
           \/ (\E refs \in Requests : RequestInspections(refs)) \/ (\E c \in Cands : InspectWanted(c))
<1>1. ASSUME PrintPlan \/ Create \/ Fill \/ Replace \/ Link PROVE Writing
  BY <1>1 DEF PrintPlan, Create, Fill, Replace, Link, Writing, Done
<1>2. ASSUME WriteFails \/ Unlink \/ UnlinkFails \/ Tidy \/ TidyFails PROVE Writing
  BY <1>2 DEF WriteFails, Unlink, UnlinkFails, Tidy, TidyFails, Writing, Done
<1>3. ASSUME Crash \/ OtherWriter PROVE Writing
  BY <1>3 DEF Crash, OtherWriter, Writing
<1> QED
  BY <1>1, <1>2, <1>3, Fails DEF Next, Command

\* The limits are numbers; a batch of inspections has a place for one.
LEMMA Limits ==
    /\ MaxRounds \in Nat /\ MaxItems \in Nat /\ PreinspectionLimit \in Nat /\ MaxInspection \in Nat
    /\ MaxStartup \in Nat /\ StopTime \in Nat /\ MaxWrites \in Nat
    /\ MaxRefs \in Nat /\ MaxRefs > 0 /\ Reserve \in Nat /\ Reserve > 0 /\ Floor \in Nat /\ Floor > 0
    /\ MinTime \in Nat /\ MinTime > 0 /\ 2 * MinTime <= Floor + 1
  BY PlanAssumption

\* What a snapshot with its command line is made of.
LEMMA JobParts ==
    ASSUME job \in Jobs
    PROVE  /\ job.total \in Nat /\ job.request \in Nat /\ job.preinspect \in Nat
           /\ job.scan \in {"complete", "partial", "error"} /\ job.output \in {"stdout", "new", "overwrite"}
  BY PlanAssumption DEF Job

\* The candidates of the scan are finitely many, and each is in one place.
LEMMA RankedParts ==
    /\ Len(Ranked) \in Nat /\ DOMAIN Ranked = 1..Len(Ranked) /\ IsFiniteSet(Cands)
    /\ \A i \in DOMAIN Ranked : Ranked[i] \in Cands
    /\ \A i, j \in DOMAIN Ranked : Ranked[i] = Ranked[j] => i = j
<1>1. Len(Ranked) \in Nat /\ DOMAIN Ranked = 1..Len(Ranked) /\ \A i \in DOMAIN Ranked : Ranked[i] \in Cands
  BY PlanAssumption
<1>2. \A i, j \in DOMAIN Ranked : Ranked[i] = Ranked[j] => i = j
  BY PlanAssumption DEF IsInjective
<1>3. Ranked \in [1..Len(Ranked) -> Cands]
  BY PlanAssumption
<1>4. \A x \in Cands : \E i \in 1..Len(Ranked) : Ranked[i] = x
  BY <1>1 DEF Cands, ToSet
<1>5. IsFiniteSet(1..Len(Ranked))
  BY <1>1, FS_Interval
<1>6. Ranked \in Surjection(1..Len(Ranked), Cands)
  BY <1>3, <1>4 DEF Surjection
<1>7. IsFiniteSet(Cands)
  BY <1>5, <1>6, FS_Surjection
<1> QED
  BY <1>1, <1>2, <1>7

-----------------------------------------------------------------------------
(* Types.                                                                  *)

Typed == TypeOK /\ RoundsInv

\* A finding has its shape.
LEMMA FindingTyped == Findings \subseteq Finding
<1> SUFFICES ASSUME NEW m \in Machines
             PROVE  LET clear == Status(m.core, collect(m)) = "clear"
                    IN  [clear |-> clear, missed |-> clear /\ Used(m)] \in Finding
  BY DEF Findings
<1> DEFINE clear == Status(m.core, collect(m)) = "clear"
           missed == clear /\ Used(m)
<1>1. clear \in BOOLEAN /\ missed \in BOOLEAN
  OBVIOUS
<1> HIDE DEF clear, missed
<1>2. [clear |-> clear, missed |-> missed] \in Finding
  BY <1>1 DEF Finding
<1> QED
  BY <1>2 DEF clear, missed

\* An inspection adds one candidate, or replaces what is known of it.
LEMMA InspectTyped ==
    ASSUME TypeOK, NEW c \in Cands, Inspect(c)
    PROVE  /\ DOMAIN inspected' = DOMAIN inspected \cup {c} /\ DOMAIN inspected' \subseteq Cands
           /\ inspected'[c] \in Findings
           /\ \A x \in DOMAIN inspected \ {c} : inspected'[x] = inspected[x]
           /\ \A x \in DOMAIN inspected' : inspected'[x] \in Finding
           /\ elapsed' \in Nat /\ elapsed' <= elapsed + MaxInspection
           /\ work' = work + 1 /\ work' \in Nat
<1>1. PICK f \in Findings : inspected' = [x \in DOMAIN inspected \cup {c} |-> IF x = c THEN f ELSE inspected[x]]
  BY DEF Inspect
<1>2. f \in Finding
  BY FindingTyped
<1>3. elapsed' \in Nat /\ elapsed' <= elapsed + MaxInspection /\ work' = work + 1 /\ work' \in Nat
  BY Limits DEF Inspect, TypeOK
<1>4. DOMAIN inspected \subseteq Cands /\ \A x \in DOMAIN inspected : inspected[x] \in Finding
  BY DEF TypeOK
<1> QED
  BY <1>1, <1>2, <1>3, <1>4

\* The time that is left has place for so many inspections.
LEMMA QuotaTyped ==
    ASSUME TypeOK
    PROVE  LET limit == Least(job.preinspect, PreinspectionLimit) IN
           /\ limit \in 0..PreinspectionLimit
           /\ Least(limit, Most(0, Left - Floor) \div Reserve) \in 0..limit
<1> DEFINE limit == Least(job.preinspect, PreinspectionLimit)
           time == Most(0, Left - Floor)
<1>1. limit \in 0..PreinspectionLimit
  BY Limits, JobParts DEF TypeOK, Least
<1>2. time \in Nat
  BY Limits, JobParts DEF TypeOK, Most, Left
<1> HIDE DEF limit, time
<1>3. time \div Reserve \in Nat
  BY <1>2, Limits
<1>4. limit \in Nat
  BY <1>1, Limits
<1>5. Least(limit, time \div Reserve) \in 0..limit
  BY <1>3, <1>4 DEF Least
<1> QED
  BY <1>1, <1>5 DEF limit, time

LEMMA TypedStep ==
    ASSUME Typed, [Next]_vars
    PROVE  Typed'
<1>0. TypeOK /\ RoundsInv
  BY DEF Typed
<1> USE DEF timeVars, askVars, fileVars
<1>1. CASE Failing
  <2>1. elapsed' \in Nat
    BY <1>0, <1>1, Limits DEF Failing, InspectionRaises, TypeOK
  <2>2. round' \in 0..MaxRounds + 1
    BY <1>0, <1>1, Limits DEF Failing, TypeOK, RoundsInv, Gathering
  <2> QED
    BY <1>0, <1>1, <2>1, <2>2 DEF Failing, Fail, Typed, TypeOK, RoundsInv, Gathering
<1>2. CASE Start
  <2>1. quota' \in 0..PreinspectionLimit
    BY <1>0, <1>2, QuotaTyped, Limits DEF Start
  <2> QED
    BY <1>0, <1>2, <2>1 DEF Start, Typed, TypeOK, RoundsInv, Gathering
<1>3. CASE Preinspect
  <2>1. Ranked[work + 1] \in Cands
    BY <1>0, <1>3, RankedParts DEF Preinspect, TypeOK, Least
  <2>2. Inspect(Ranked[work + 1])
    BY <1>3 DEF Preinspect
  <2>3. /\ DOMAIN inspected' \subseteq Cands /\ \A x \in DOMAIN inspected' : inspected'[x] \in Finding
        /\ elapsed' \in Nat /\ work' \in Nat
    BY <1>0, <2>1, <2>2, InspectTyped
  <2> QED
    BY <1>0, <1>3, <2>3 DEF Preinspect, Typed, TypeOK, RoundsInv, Gathering
<1>4. CASE PreinspectionEnds
  BY <1>0, <1>4 DEF PreinspectionEnds, Typed, TypeOK, RoundsInv, Gathering
<1>5. CASE Ask
  BY <1>0, <1>5 DEF Ask, Typed, TypeOK, RoundsInv, Gathering
<1>6. CASE FinalAnswer
  <2>0. PICK S \in SUBSET Cands : \E marks \in [S -> Assessments], l \in BOOLEAN :
          Compose(marks, l) /\ judged' = S
    BY <1>6 DEF FinalAnswer
  <2>1. PICK marks \in [S -> Assessments], l \in BOOLEAN : Compose(marks, l) /\ judged' = S
    BY <2>0
  <2>2. /\ limited' \in BOOLEAN /\ plan'.status \in {"complete", "partial"}
        /\ plan'.items \in [Cands -> Assessments]
    BY <1>0, <2>1 DEF Compose, TypeOK, Assessments
  <2>3. round' = round + 1 /\ round <= MaxRounds /\ pc' = "create"
    BY <1>0, <1>6 DEF FinalAnswer, RoundsInv, Gathering
  <2>4. UNCHANGED <<job, timeVars, inspected, wanted, work, fileVars, exit>> /\ exit = 3
    BY <1>0, <1>6 DEF FinalAnswer, RoundsInv
  <2> QED
    BY <1>0, <2>1, <2>2, <2>3, <2>4, Limits DEF Typed, TypeOK, RoundsInv, Gathering
<1>7. CASE \E refs \in Requests : RequestInspections(refs)
  BY <1>0, <1>7, Limits DEF RequestInspections, Requests, Acceptable, Typed, TypeOK, RoundsInv, Gathering
<1>8. CASE \E c \in Cands : InspectWanted(c)
  <2>1. PICK c \in Cands : InspectWanted(c)
    BY <1>8
  <2>2. Inspect(c)
    BY <2>1 DEF InspectWanted
  <2>3. /\ DOMAIN inspected' \subseteq Cands /\ \A x \in DOMAIN inspected' : inspected'[x] \in Finding
        /\ elapsed' \in Nat /\ work' \in Nat
    BY <1>0, <2>2, InspectTyped
  <2> QED
    BY <1>0, <2>1, <2>3 DEF InspectWanted, Typed, TypeOK, RoundsInv, Gathering
<1>9. CASE PrintPlan \/ Create \/ Fill
  BY <1>0, <1>9 DEF PrintPlan, Create, Fill, Done, Typed, TypeOK, RoundsInv, Gathering
<1>10. CASE Replace \/ Link \/ WriteFails \/ Unlink \/ UnlinkFails
  BY <1>0, <1>10 DEF Replace, Link, WriteFails, Unlink, UnlinkFails, Typed, TypeOK, RoundsInv, Gathering
<1>11. CASE Tidy \/ TidyFails
  BY <1>0, <1>11 DEF Tidy, TidyFails, Done, Typed, TypeOK, RoundsInv, Gathering
<1>12. CASE Crash \/ OtherWriter
  BY <1>0, <1>12, Limits DEF Crash, OtherWriter, Typed, TypeOK, RoundsInv, Gathering
<1>13. CASE UNCHANGED vars
  BY <1>0, <1>13 DEF vars, Typed, TypeOK, RoundsInv, Gathering
<1> QED
  BY <1>1, <1>2, <1>3, <1>4, <1>5, <1>6, <1>7, <1>8, <1>9, <1>10, <1>11, <1>12, <1>13, Fails
     DEF Next, Command

\* Every state is typed, and a round is left while evidence is gathered.
THEOREM TypesHold == Spec => []Typed
<1>1. Init => Typed
  <2> SUFFICES ASSUME Init PROVE Typed
    OBVIOUS
  <2>1. job \in Jobs /\ 0 \in 0..PreinspectionLimit /\ 0 \in 0..MaxRounds + 1 /\ 0 \in 0..MaxWrites
    BY Limits DEF Init
  <2>2. DOMAIN inspected = {}
    BY DEF Init
  <2>3. plan.status = "none" /\ plan.items = <<>>
    BY DEF Init, NoPlan
  <2>4. TypeOK
    <3>1. limited \in BOOLEAN
      BY Zenon DEF Init
    <3> QED
      BY <2>1, <2>2, <2>3, <3>1 DEF Init, TypeOK
  <2> QED
    BY <2>4, Limits DEF Init, Typed, RoundsInv
<1> QED
  BY <1>1, TypedStep, PTL DEF Spec

\* command_plan: every variable keeps its type.
THEOREM TypeCorrect == Spec => []TypeOK
<1>1. Typed => TypeOK
  BY DEF Typed
<1> QED
  BY <1>1, TypesHold, PTL

-----------------------------------------------------------------------------
(* Evidence.                                                               *)

\* consumers.py: when every source could be asked and had nothing, and the
\* sources tell what they cover, nobody they reach uses the path.
LEMMA ClearUnused ==
    ASSUME NEW m \in Machine, Truthful(m), Status(m.core, collect(m)) = "clear"
    PROVE  ~Used(m)
<1>1. m.core # "unsafe" /\ collect(m) = {"clear"}
  BY DEF Status, Machine
<1>2. /\ docker_mounts(m.docker) = "clear" /\ pm2_processes(m.pm2) = "clear"
      /\ literal_files(m.systemd) = "clear" /\ literal_files(m.cron) = "clear" /\ literal_files(m.code) = "clear"
      /\ git_state(m.git) = "clear"
  BY <1>1 DEF collect
<1>3. ~Matches(m.docker.refs) /\ ~Matches(m.pm2.refs)
  BY <1>2 DEF docker_mounts, pm2_processes, Verdict
<1>4. \A ref \in m.docker.refs \cup m.pm2.refs : ~(ref.given = "path" /\ ref.place # "elsewhere")
  <2> SUFFICES ASSUME NEW ref \in m.docker.refs \cup m.pm2.refs, ref.given = "path" PROVE ref.place = "elsewhere"
    OBVIOUS
  <2>1. ~Overlaps(ref)
    BY <1>3 DEF Matches
  <2>2. ref \in References
    BY DEF Machine, Docker, Pm2
  <2> QED
    BY <2>1, <2>2 DEF Overlaps, References
<1>5. ASSUME NEW f \in {m.systemd, m.cron, m.code} PROVE f.mentioned # "searched"
  <2>1. literal_files(f) = "clear"
    BY <1>2
  <2>2. /\ f.first \in {"found", "none"} /\ f.second \in {"found", "none", "short"}
        /\ "found" \notin {f.first, f.second}
    BY <2>1 DEF literal_files, Verdict
  <2>3. f.mentioned = "searched" => f.first # "none" \/ f.second \notin {"none", "short"}
    BY DEF Truthful
  <2> QED
    BY <2>2, <2>3
<1>6. ~m.git.marker /\ ~m.git.inside
  BY <1>2 DEF git_state
<1>7. ~m.git.tracked
  BY <1>6 DEF Truthful
<1> QED
  BY <1>1, <1>4, <1>5, <1>6, <1>7 DEF Used

\* Hence no finding is clear of a path that is used.
LEMMA FindingTrue ==
    ASSUME NEW f \in Findings, f.clear
    PROVE  ~f.missed
<1>1. PICK m \in Machines :
        f = LET clear == Status(m.core, collect(m)) = "clear" IN [clear |-> clear, missed |-> clear /\ Used(m)]
  BY DEF Findings
<1>2. m \in Machine /\ Truthful(m)
  BY PlanAssumption
<1>3. f.clear = (Status(m.core, collect(m)) = "clear") /\ f.missed = (Status(m.core, collect(m)) = "clear" /\ Used(m))
  BY <1>1
<1> QED
  BY <1>2, <1>3, ClearUnused

\* Every step keeps the evidence behind the plan.
LEMMA EvidenceStep ==
    ASSUME Typed, EvidenceInv, [Next]_vars
    PROVE  EvidenceInv'
<1>0. TypeOK /\ RoundsInv
  BY DEF Typed
<1> USE DEF timeVars, askVars, fileVars
<1>1. ASSUME UNCHANGED <<inspected, plan>> PROVE EvidenceInv'
  BY <1>1 DEF EvidenceInv, ReviewInspected
<1>2. ASSUME NEW c \in Cands, Inspect(c), UNCHANGED plan, pc \in Gathering PROVE EvidenceInv'
  <2>1. /\ inspected'[c] \in Findings /\ DOMAIN inspected' = DOMAIN inspected \cup {c}
        /\ \A x \in DOMAIN inspected \ {c} : inspected'[x] = inspected[x]
    BY <1>0, <1>2, InspectTyped
  <2>2. \A x \in DOMAIN inspected' : inspected'[x].clear => ~inspected'[x].missed
    BY <2>1, FindingTrue DEF EvidenceInv
  <2>3. DOMAIN plan'.items = {}
    BY <1>0, <1>2 DEF RoundsInv, NoPlan
  <2> QED
    BY <2>2, <2>3 DEF EvidenceInv, ReviewInspected
<1>3. CASE Failing \/ Writing \/ UNCHANGED vars \/ Start \/ PreinspectionEnds \/ Ask
  BY <1>1, <1>3 DEF Failing, Fail, Writing, vars, Start, PreinspectionEnds, Ask
<1>4. CASE Preinspect
  <2>1. Ranked[work + 1] \in Cands
    BY <1>0, <1>4, RankedParts DEF Preinspect, TypeOK, Least
  <2> QED
    BY <1>2, <1>4, <2>1 DEF Preinspect, Gathering
<1>5. CASE FinalAnswer
  <2>0. PICK S \in SUBSET Cands : \E marks \in [S -> Assessments], l \in BOOLEAN :
          /\ \A c \in S : marks[c] = "candidate_for_review" => Promotable(c)
          /\ Compose(marks, l)
    BY <1>5 DEF FinalAnswer
  <2>1. PICK marks \in [S -> Assessments], l \in BOOLEAN :
          /\ \A c \in S : marks[c] = "candidate_for_review" => Promotable(c)
          /\ Compose(marks, l)
    BY <2>0
  <2>2. plan'.items = [c \in Cands |-> IF c \in S THEN marks[c] ELSE "unknown"]
    BY <2>1 DEF Compose
  <2>3. UNCHANGED inspected
    BY <1>5 DEF FinalAnswer
  <2>4. ASSUME NEW c \in Cands, plan'.items[c] = "candidate_for_review"
        PROVE  c \in DOMAIN inspected /\ inspected[c].clear
    <3>1. c \in S /\ Promotable(c)
      BY <2>1, <2>2, <2>4
    <3>2. job.known[c].unknown \/ job.known[c].status = "unsafe"
      BY <1>0, PlanAssumption DEF TypeOK
    <3> QED
      BY <3>1, <3>2 DEF Promotable
  <2>5. ASSUME NEW c \in DOMAIN plan'.items, plan'.items[c] = "candidate_for_review"
        PROVE  c \in DOMAIN inspected' /\ inspected'[c].clear /\ ~inspected'[c].missed
    BY <2>2, <2>3, <2>4, <2>5 DEF EvidenceInv
  <2> QED
    BY <2>3, <2>5 DEF EvidenceInv, ReviewInspected
<1>6. CASE \E refs \in Requests : RequestInspections(refs)
  BY <1>1, <1>6 DEF RequestInspections
<1>7. CASE \E c \in Cands : InspectWanted(c)
  BY <1>2, <1>7 DEF InspectWanted, Gathering
<1> QED
  BY <1>3, <1>4, <1>5, <1>6, <1>7, PlanSteps

\* cli.py _parse_model_round: whatever the model answers and the scan
\* recorded, what the plan calls fit for review was inspected, every source
\* was asked, and nobody uses it as far as the sources reach.
THEOREM ReviewInspectedHolds == Spec => []ReviewInspected
<1>1. Init => EvidenceInv
  BY DEF Init, EvidenceInv, ReviewInspected, NoPlan
<1>2. Typed /\ EvidenceInv /\ [Next]_vars => EvidenceInv'
  BY EvidenceStep
<1>3. EvidenceInv => ReviewInspected
  BY DEF EvidenceInv
<1> QED
  BY <1>1, <1>2, <1>3, TypesHold, PTL DEF Spec

-----------------------------------------------------------------------------
(* Limitations.                                                            *)

\* Every step that passes over one of the first candidates says so.
LEMMA LimitedStep ==
    ASSUME Typed, Typed', WorkInv, LimitedInv, [Next]_vars
    PROVE  LimitedInv'
<1>0. TypeOK /\ RoundsInv /\ TypeOK'
  BY DEF Typed
<1>a. Foremost' = Foremost
  <2>1. job' = job
    BY PlanSteps DEF Failing, Fail, Writing, vars, Start, Preinspect, PreinspectionEnds, Ask, FinalAnswer,
                     RequestInspections, InspectWanted
  <2> QED
    BY <2>1 DEF Foremost
<1> USE DEF timeVars, askVars, fileVars
<1>1. CASE Failing
  BY <1>0, <1>a, <1>1 DEF Failing, Fail, LimitedInv, RoundsInv
<1>2. CASE Writing
  BY <1>0, <1>a, <1>2 DEF Writing, LimitedInv, RoundsInv
<1>3. CASE UNCHANGED vars
  BY <1>a, <1>3 DEF vars, LimitedInv
<1>4. CASE Start
  <2> DEFINE limit == Least(job.preinspect, PreinspectionLimit)
  <2>1. /\ limited' = (quota' < Least(limit, Len(Ranked)))
        /\ pc' = "preinspect" /\ UNCHANGED <<plan, exit>> /\ plan = NoPlan /\ exit = 3
    BY <1>0, <1>4 DEF Start, RoundsInv, Gathering
  <2>2. limit \in Nat /\ quota' \in Nat
    BY <1>0, QuotaTyped, Limits DEF TypeOK
  <2>3. ASSUME ~limited', NEW i \in Foremost PROVE i <= quota'
    <3>1. i <= limit /\ i <= Len(Ranked) /\ i \in Nat
      BY RankedParts DEF Foremost
    <3>2. Len(Ranked) \in Nat /\ ~(quota' < Least(limit, Len(Ranked)))
      BY <2>1, <2>3, RankedParts
    <3> HIDE DEF limit
    <3> QED
      BY <2>2, <3>1, <3>2 DEF Least
  <2> QED
    BY <1>a, <2>1, <2>3 DEF LimitedInv, NoPlan
<1>5. CASE Preinspect
  BY <1>0, <1>a, <1>5 DEF Preinspect, LimitedInv, RoundsInv, Gathering, NoPlan
<1>6. CASE PreinspectionEnds
  <2>1. pc = "preinspect" /\ pc' = "ask" /\ UNCHANGED <<quota, inspected, work, plan, exit>> /\ plan = NoPlan /\ exit = 3
    BY <1>0, <1>6 DEF PreinspectionEnds, RoundsInv, Gathering
  <2>2. ASSUME ~limited', NEW i \in Foremost PROVE Ranked[i] \in DOMAIN inspected'
    <3>1. work = Least(quota, Len(Ranked)) /\ ~limited
      BY <1>6, <2>2 DEF PreinspectionEnds
    <3>2. i <= quota /\ i \in 1..Len(Ranked) /\ Len(Ranked) \in Nat /\ quota \in Nat
      BY <1>0, <2>1, <3>1, RankedParts, Limits DEF LimitedInv, Foremost, TypeOK
    <3>3. i \in 1..work
      BY <3>1, <3>2 DEF Least
    <3>4. DOMAIN inspected = {Ranked[j] : j \in 1..work}
      BY <2>1 DEF WorkInv
    <3> QED
      BY <2>1, <3>3, <3>4
  <2> QED
    BY <1>a, <2>1, <2>2 DEF LimitedInv, NoPlan
<1>7. CASE Ask
  <2>1. /\ pc = "ask" /\ pc' = "answer" /\ UNCHANGED <<job, inspected, limited, plan, exit, judged>>
        /\ plan = NoPlan /\ exit = 3
    BY <1>0, <1>7 DEF Ask, RoundsInv, Gathering
  <2> QED
    BY <1>a, <2>1 DEF LimitedInv, NoPlan
<1>8. CASE FinalAnswer
  <2>0. PICK S \in SUBSET Cands : \E marks \in [S -> Assessments], l \in BOOLEAN :
          Compose(marks, l) /\ judged' = S
    BY <1>8 DEF FinalAnswer
  <2>1. PICK marks \in [S -> Assessments], l \in BOOLEAN : Compose(marks, l) /\ judged' = S
    BY <2>0
  <2>2. /\ pc = "answer" /\ pc' = "create" /\ UNCHANGED <<job, inspected, exit>> /\ exit = 3
    BY <1>0, <1>8 DEF FinalAnswer, RoundsInv
  <2>3. ~limited' => ~limited /\ S = Cands
    BY <2>1 DEF Compose
  <2>4. plan'.status = "complete" => ~limited' /\ job.scan = "complete"
    BY <2>1 DEF Compose
  <2>5. ~limited' => \A i \in Foremost : Ranked[i] \in DOMAIN inspected'
    BY <2>2, <2>3 DEF LimitedInv
  <2> QED
    BY <1>a, <2>1, <2>2, <2>3, <2>4, <2>5 DEF LimitedInv
<1>9. CASE \E refs \in Requests : RequestInspections(refs)
  <2>1. /\ pc = "answer" /\ pc' = "inspect" /\ UNCHANGED <<job, inspected, plan, exit, judged>>
        /\ (limited => limited') /\ plan = NoPlan /\ exit = 3
    BY <1>0, <1>9 DEF RequestInspections, RoundsInv, Gathering
  <2> QED
    BY <1>a, <2>1 DEF LimitedInv, NoPlan
<1>10. CASE \E c \in Cands : InspectWanted(c)
  <2>1. PICK c \in Cands : InspectWanted(c)
    BY <1>10
  <2>2. Inspect(c) /\ pc = "inspect" /\ pc' \in {"ask", "inspect"} /\ UNCHANGED <<limited, plan, exit>>
    BY <2>1 DEF InspectWanted
  <2>3. DOMAIN inspected \subseteq DOMAIN inspected'
    BY <1>0, <2>2, InspectTyped
  <2> QED
    BY <1>0, <1>a, <2>2, <2>3 DEF LimitedInv, RoundsInv, Gathering, NoPlan
<1> QED
  BY <1>1, <1>2, <1>3, <1>4, <1>5, <1>6, <1>7, <1>8, <1>9, <1>10, PlanSteps

-----------------------------------------------------------------------------
(* Inspections.                                                            *)

\* Products of numbers.
LEMMA Products ==
    ASSUME NEW a \in Nat, NEW m \in Nat
    PROVE  /\ a * m \in Nat /\ (a + 1) * m = a * m + m
           /\ a > 0 => (a - 1) * m = a * m - m /\ a * m >= m
           /\ \A b \in Nat : a <= b => a * m <= b * m
<1>1. a * m \in Nat /\ (a + 1) * m = a * m + m /\ (a - 1) * m = a * m - m
  OBVIOUS
<1>2. a > 0 => a * m >= m
  <2> SUFFICES ASSUME a > 0 PROVE a * m >= m
    OBVIOUS
  <2>1. a - 1 \in Nat
    OBVIOUS
  <2>2. (a - 1) * m \in Nat
    BY <2>1
  <2> QED
    BY <1>1, <2>2
<1>3. ASSUME NEW b \in Nat, a <= b PROVE a * m <= b * m
  <2>1. b - a \in Nat
    BY <1>3
  <2>2. (b - a) * m \in Nat
    BY <2>1
  <2>3. (b - a) * m = b * m - a * m /\ b * m \in Nat
    OBVIOUS
  <2> QED
    BY <1>1, <2>2, <2>3
<1> QED
  BY <1>1, <1>2, <1>3

\* A batch asked for by the model is finite, and no larger than allowed.
LEMMA WantedFinite ==
    ASSUME TypeOK
    PROVE  /\ IsFiniteSet(wanted) /\ Cardinality(wanted) \in Nat
           /\ IsFiniteSet(DOMAIN inspected) /\ Cardinality(DOMAIN inspected) \in Nat
           /\ \A refs \in Requests : Cardinality(refs) \in Nat /\ Cardinality(refs) <= MaxRefs
<1>1. IsFiniteSet(wanted) /\ IsFiniteSet(DOMAIN inspected)
  BY RankedParts, FS_Subset DEF TypeOK
<1>2. \A refs \in Requests : IsFiniteSet(refs) /\ Cardinality(refs) <= MaxRefs
  BY RankedParts, FS_Subset DEF Requests
<1> QED
  BY <1>1, <1>2, FS_CardinalityType

\* One inspection more is one candidate more, if it is another.
LEMMA InspectCounts ==
    ASSUME TypeOK, NEW c \in Cands, Inspect(c), c \notin DOMAIN inspected,
           work = Cardinality(DOMAIN inspected)
    PROVE  work' = Cardinality(DOMAIN inspected') /\ work' = work + 1
<1>1. DOMAIN inspected' = DOMAIN inspected \cup {c} /\ work' = work + 1
  BY InspectTyped
<1>2. IsFiniteSet(DOMAIN inspected)
  BY WantedFinite
<1>3. Cardinality(DOMAIN inspected \cup {c}) = Cardinality(DOMAIN inspected) + 1
  BY <1>2, FS_AddElement
<1>4. Cardinality(DOMAIN inspected') = Cardinality(DOMAIN inspected) + 1
  BY <1>1, <1>3
<1> QED
  BY <1>1, <1>4

\* One inspection that was wanted is one less to make.
LEMMA WantedCounts ==
    ASSUME TypeOK, NEW c \in wanted, wanted' = wanted \ {c}
    PROVE  /\ Cardinality(wanted) > 0 /\ Cardinality(wanted) \in Nat
           /\ Cardinality(wanted') = Cardinality(wanted) - 1
<1>1. IsFiniteSet(wanted) /\ Cardinality(wanted) \in Nat
  BY WantedFinite
<1>2. Cardinality(wanted \ {c}) = Cardinality(wanted) - 1
  BY <1>1, FS_RemoveElement
<1>3. Cardinality(wanted) # 0
  BY <1>1, FS_EmptySet
<1>4. Cardinality(wanted') = Cardinality(wanted \ {c})
  BY Zenon
<1> QED
  BY <1>1, <1>2, <1>3, <1>4

\* Every step keeps the inspections distinct and within the rounds.
LEMMA WorkStep ==
    ASSUME Typed, Typed', WorkInv, [Next]_vars
    PROVE  WorkInv'
<1>0. TypeOK /\ RoundsInv /\ TypeOK' /\ work \in Nat /\ quota \in 0..PreinspectionLimit
  BY DEF Typed, TypeOK
<1>00. MaxRounds * MaxRefs \in Nat /\ round * MaxRefs \in Nat /\ round \in Nat
  BY <1>0, Limits, Products DEF TypeOK
<1> USE DEF timeVars, askVars, fileVars
<1>1. CASE Failing \/ Writing
  <2>1. /\ UNCHANGED <<work, inspected>> /\ pc' \in {"create", "fill", "publish", "unlink", "tidy", "end"}
    BY <1>1 DEF Failing, Fail, Writing
  <2> QED
    BY <2>1 DEF WorkInv
<1>2. CASE UNCHANGED vars
  BY <1>2 DEF vars, WorkInv
<1>3. CASE Start
  <2>1. UNCHANGED <<work, inspected, round>> /\ pc = "start" /\ pc' = "preinspect" /\ work = 0 /\ quota' \in Nat
    BY <1>0, <1>3, Limits DEF Start, WorkInv, TypeOK
  <2>2. round = 0
    BY <1>3 DEF Start, WorkInv
  <2> QED
    BY <2>1, <2>2, RankedParts DEF WorkInv
<1>4. CASE Preinspect
  <2> DEFINE c == Ranked[work + 1]
  <2>1. /\ pc = "preinspect" /\ work < quota /\ work < Len(Ranked) /\ Inspect(c)
        /\ UNCHANGED <<pc, quota, round>>
    BY <1>0, <1>4, RankedParts DEF Preinspect, Least
  <2>2. DOMAIN inspected = {Ranked[i] : i \in 1..work} /\ work = Cardinality(DOMAIN inspected) /\ round = 0
    BY <2>1 DEF WorkInv
  <2>3. c \in Cands /\ c \notin DOMAIN inspected
    BY <1>0, <2>1, <2>2, RankedParts
  <2> HIDE DEF c
  <2>4. /\ work' = Cardinality(DOMAIN inspected') /\ work' = work + 1
        /\ DOMAIN inspected' = DOMAIN inspected \cup {c}
    BY <1>0, <2>1, <2>2, <2>3, InspectCounts, InspectTyped
  <2>5. 1..work' = (1..work) \cup {work + 1}
    BY <1>0, <2>4
  <2>6. DOMAIN inspected' = {Ranked[i] : i \in 1..work'}
    BY <2>2, <2>4, <2>5 DEF c
  <2>7. work' <= quota' /\ work' <= Len(Ranked) /\ work' <= PreinspectionLimit + MaxRounds * MaxRefs
    BY <1>0, <1>00, <2>1, <2>4, RankedParts, Limits
  <2> QED
    BY <2>1, <2>2, <2>4, <2>6, <2>7 DEF WorkInv
<1>5. CASE PreinspectionEnds
  <2>1. /\ UNCHANGED <<work, inspected, round>> /\ pc' = "ask" /\ work <= quota /\ work = Cardinality(DOMAIN inspected)
        /\ work <= PreinspectionLimit + MaxRounds * MaxRefs
    BY <1>5 DEF PreinspectionEnds, WorkInv
  <2>2. work <= PreinspectionLimit + round * MaxRefs
    BY <1>0, <1>00, <2>1, Limits
  <2> QED
    BY <2>1, <2>2 DEF WorkInv
<1>6. CASE Ask \/ FinalAnswer
  <2>1. UNCHANGED <<work, inspected>> /\ (Ask => UNCHANGED round) /\ (FinalAnswer => pc' = "create")
    BY <1>6 DEF Ask, FinalAnswer
  <2> QED
    BY <1>6, <2>1 DEF Ask, FinalAnswer, WorkInv
<1>7. CASE \E refs \in Requests : RequestInspections(refs)
  <2>1. PICK refs \in Requests : RequestInspections(refs)
    BY <1>7
  <2>2. /\ pc = "answer" /\ pc' = "inspect" /\ UNCHANGED <<work, inspected>> /\ round' = round + 1
        /\ wanted' = refs /\ refs \cap DOMAIN inspected = {}
    BY <2>1 DEF RequestInspections, Acceptable
  <2>3. Cardinality(refs) \in Nat /\ Cardinality(refs) <= MaxRefs
    BY <1>0, WantedFinite
  <2>4. round' * MaxRefs = round * MaxRefs + MaxRefs
    BY <1>00, <2>2, Limits, Products
  <2>5. work <= PreinspectionLimit + round * MaxRefs
    BY <2>2 DEF WorkInv
  <2>6. work + Cardinality(refs) <= PreinspectionLimit + round' * MaxRefs
    BY <1>0, <1>00, <2>3, <2>4, <2>5, Limits
  <2> QED
    BY <2>2, <2>6 DEF WorkInv
<1>8. CASE \E c \in Cands : InspectWanted(c)
  <2>1. PICK c \in Cands : InspectWanted(c)
    BY <1>8
  <2>2. /\ pc = "inspect" /\ c \in wanted /\ Inspect(c) /\ wanted' = wanted \ {c}
        /\ pc' = (IF wanted' = {} THEN "ask" ELSE "inspect") /\ UNCHANGED round
    BY <2>1 DEF InspectWanted
  <2>3. /\ wanted \cap DOMAIN inspected = {} /\ work = Cardinality(DOMAIN inspected)
        /\ work + Cardinality(wanted) <= PreinspectionLimit + round * MaxRefs
    BY <2>2 DEF WorkInv
  <2>4. c \notin DOMAIN inspected
    BY <2>2, <2>3
  <2>5. /\ work' = Cardinality(DOMAIN inspected') /\ work' = work + 1
        /\ DOMAIN inspected' = DOMAIN inspected \cup {c}
    BY <1>0, <2>2, <2>3, <2>4, InspectCounts, InspectTyped
  <2>6. /\ Cardinality(wanted') = Cardinality(wanted) - 1 /\ Cardinality(wanted) \in Nat
        /\ Cardinality(wanted) > 0
    BY <1>0, <2>2, WantedCounts
  <2>7. wanted' \cap DOMAIN inspected' = {}
    BY <2>2, <2>3, <2>5
  <2>8. work' + Cardinality(wanted') <= PreinspectionLimit + round * MaxRefs
    BY <1>0, <1>00, <2>3, <2>5, <2>6, Limits
  <2>9. round <= MaxRounds
    BY <1>0, <2>2 DEF RoundsInv, Gathering
  <2>10. round * MaxRefs <= MaxRounds * MaxRefs
    BY <1>00, <2>9, Limits, Products
  <2>11. work' <= PreinspectionLimit + round * MaxRefs
    BY <1>0, <1>00, <2>5, <2>6, <2>8, Limits
  <2>12. work' <= PreinspectionLimit + MaxRounds * MaxRefs
    BY <1>0, <1>00, <2>5, <2>10, <2>11, Limits
  <2> QED
    BY <2>2, <2>5, <2>7, <2>8, <2>11, <2>12 DEF WorkInv
<1> QED
  BY <1>1, <1>2, <1>3, <1>4, <1>5, <1>6, <1>7, <1>8, PlanSteps

\* cli.py command_plan: a model that keeps asking is inspected for as often
\* as the rounds allow, and never twice for the same candidate.
THEOREM WorkHolds == Spec => []WorkInv
<1>1. Init => WorkInv
  <2> SUFFICES ASSUME Init PROVE WorkInv
    OBVIOUS
  <2>1. DOMAIN inspected = {} /\ work = 0 /\ round = 0 /\ pc = "start"
    BY DEF Init
  <2>2. Cardinality(DOMAIN inspected) = 0
    BY <2>1, FS_EmptySet
  <2>3. {Ranked[i] : i \in 1..work} = {}
    BY <2>1
  <2>4. MaxRounds * MaxRefs \in Nat
    BY Limits, Products
  <2>5. 0 <= PreinspectionLimit + MaxRounds * MaxRefs
    BY <2>4, Limits
  <2> QED
    BY <2>1, <2>2, <2>3, <2>5 DEF WorkInv
<1>2. Typed /\ Typed' /\ WorkInv /\ [Next]_vars => WorkInv'
  BY WorkStep
<1> QED
  BY <1>1, <1>2, TypesHold, PTL DEF Spec

\* Every inspection is of another candidate, and their number is bounded.
THEOREM InspectedOnceHolds == Spec => []InspectedOnce
<1>1. WorkInv => InspectedOnce
  BY DEF WorkInv, InspectedOnce
<1> QED
  BY <1>1, WorkHolds, PTL

\* cli.py command_plan: exit code 0 means that nothing was passed over.
THEOREM CompleteMeansAllHolds == Spec => []CompleteMeansAll
<1>1. Init => LimitedInv
  BY DEF Init, LimitedInv, NoPlan
<1>2. Typed /\ Typed' /\ WorkInv /\ LimitedInv /\ [Next]_vars => LimitedInv'
  BY LimitedStep
<1>3. LimitedInv => CompleteMeansAll
  BY DEF LimitedInv, CompleteMeansAll, Foremost
<1> QED
  BY <1>1, <1>2, <1>3, TypesHold, WorkHolds, PTL DEF Spec

-----------------------------------------------------------------------------
(* Time.                                                                   *)

\* A request that starts with more than the floor left takes no more than is
\* left.
LEMMA RequestFits ==
    ASSUME TypeOK, Left > Floor
    PROVE  RequestTime \in Int /\ RequestTime <= Left
<1>1. Left \in Int /\ Left >= 2 * MinTime
  BY Limits, JobParts DEF TypeOK, Left
<1> DEFINE third == Left \div 3
           startup == Least(MaxStartup, Most(MinTime, third))
<1>2. third \in Int /\ 3 * third <= Left
  BY <1>1
<1> HIDE DEF third
<1>3. startup \in Int /\ (startup <= MinTime \/ startup <= third)
  BY <1>2, Limits DEF Least, Most
<1>4. RequestTime = startup + Least(job.request, Most(MinTime, Left - startup))
  BY DEF RequestTime, third
<1> HIDE DEF startup
<1>5. Least(job.request, Most(MinTime, Left - startup)) <= Most(MinTime, Left - startup)
  BY <1>1, <1>3, JobParts, Limits DEF Least, Most, TypeOK
<1>6. startup + Most(MinTime, Left - startup) <= Left
  BY <1>1, <1>2, <1>3, Limits DEF Most
<1>7. Least(job.request, Most(MinTime, Left - startup)) \in Int /\ Most(MinTime, Left - startup) \in Int
  BY <1>1, <1>3, JobParts, Limits DEF Least, Most, TypeOK
<1> QED
  BY <1>1, <1>3, <1>4, <1>5, <1>6, <1>7

\* Every step keeps what is still to come within the budget.
LEMMA BudgetStep ==
    ASSUME Typed, Typed', BudgetInv, [Next]_vars
    PROVE  BudgetInv'
<1>0. TypeOK /\ TypeOK' /\ elapsed \in Nat /\ job.total \in Nat /\ RoundsInv
  BY JobParts DEF Typed, TypeOK
<1>00. MaxRefs * MaxInspection \in Nat /\ MaxRefs * MaxInspection >= MaxInspection
  BY Limits, Products
<1>000. elapsed <= job.total + StopTime + MaxRefs * MaxInspection
  BY DEF BudgetInv, OverrunBounded
<1> USE DEF timeVars, askVars, fileVars
<1>1. CASE (Failing /\ elapsed' = elapsed) \/ Writing
  <2>1. UNCHANGED <<job, elapsed>> /\ pc' \in {"create", "fill", "publish", "unlink", "tidy", "end"}
    BY <1>1 DEF Failing, Fail, Writing
  <2> QED
    BY <1>000, <2>1 DEF BudgetInv, OverrunBounded
<1>2. CASE InspectionRaises
  <2>1. UNCHANGED job /\ pc' = "end" /\ pc \in {"preinspect", "inspect"}
    BY <1>2 DEF InspectionRaises, Fail
  <2>2. elapsed' \in Nat /\ elapsed' <= elapsed + MaxInspection
    BY <1>0, <1>2, Limits DEF InspectionRaises
  <2>3. elapsed' <= job.total + StopTime + MaxRefs * MaxInspection
    <3>1. CASE pc = "preinspect"
      <4>1. Left >= Reserve
        BY <1>2, <3>1 DEF InspectionRaises
      <4> QED
        BY <1>0, <1>00, <2>2, <4>1, Limits DEF Left
    <3>2. CASE pc = "inspect"
      <4>1. wanted # {}
        BY <1>2, <3>2 DEF InspectionRaises
      <4>2. Cardinality(wanted) \in Nat /\ Cardinality(wanted) > 0
        BY <1>0, <4>1, WantedFinite, FS_EmptySet
      <4>3. Cardinality(wanted) * MaxInspection >= MaxInspection /\ Cardinality(wanted) * MaxInspection \in Nat
        BY <4>2, Limits, Products
      <4>4. elapsed + Cardinality(wanted) * MaxInspection <= job.total + StopTime + MaxRefs * MaxInspection
        BY <3>2 DEF BudgetInv
      <4> QED
        BY <1>0, <1>00, <2>2, <4>3, <4>4, Limits
    <3> QED
      BY <2>1, <3>1, <3>2
  <2> QED
    BY <2>1, <2>3 DEF BudgetInv, OverrunBounded
<1>3. CASE UNCHANGED vars
  BY <1>3 DEF vars, BudgetInv, OverrunBounded
<1>4. CASE Start
  <2>1. UNCHANGED <<job, elapsed>> /\ pc' = "preinspect" /\ elapsed = 0
    BY <1>4 DEF Start, BudgetInv
  <2>2. elapsed <= job.total + MaxInspection
    BY <1>0, <2>1, Limits
  <2> QED
    BY <1>000, <2>1, <2>2 DEF BudgetInv, OverrunBounded
<1>5. CASE Preinspect
  <2>1. Ranked[work + 1] \in Cands
    BY <1>0, <1>5, RankedParts DEF Preinspect, TypeOK, Least
  <2>2. Inspect(Ranked[work + 1]) /\ UNCHANGED <<job, pc>> /\ pc = "preinspect" /\ Left >= Reserve
    BY <1>5 DEF Preinspect
  <2>3. elapsed' \in Nat /\ elapsed' <= elapsed + MaxInspection
    BY <1>0, <2>1, <2>2, InspectTyped
  <2>4. elapsed' <= job.total + MaxInspection
    BY <1>0, <2>2, <2>3, Limits DEF Left
  <2>5. elapsed' <= job.total + StopTime + MaxRefs * MaxInspection
    BY <1>0, <1>00, <2>3, <2>4, Limits
  <2> QED
    BY <2>2, <2>4, <2>5 DEF BudgetInv, OverrunBounded
<1>6. CASE PreinspectionEnds
  BY <1>000, <1>6 DEF PreinspectionEnds, BudgetInv, OverrunBounded
<1>7. CASE Ask
  <2>1. /\ Left > Floor /\ pc' = "answer" /\ UNCHANGED job
        /\ \E d \in 0..RequestTime + StopTime : elapsed' = elapsed + d
    BY <1>7 DEF Ask
  <2>2. RequestTime <= Left /\ Left = job.total - elapsed
    BY <1>0, <2>1, RequestFits DEF Left
  <2>3. RequestTime \in Int
    BY <1>0, <2>1, RequestFits
  <2>4. elapsed' <= job.total + StopTime /\ elapsed' \in Nat
    <3>1. PICK d \in 0..RequestTime + StopTime : elapsed' = elapsed + d
      BY <2>1
    <3>2. d \in Nat /\ d <= RequestTime + StopTime
      BY <2>3, Limits
    <3> QED
      BY <1>0, <2>2, <2>3, <3>1, <3>2, Limits
  <2>5. elapsed' <= job.total + StopTime + MaxRefs * MaxInspection
    BY <1>0, <1>00, <2>4, Limits
  <2> QED
    BY <2>1, <2>4, <2>5 DEF BudgetInv, OverrunBounded
<1>8. CASE FinalAnswer
  BY <1>000, <1>8 DEF FinalAnswer, BudgetInv, OverrunBounded
<1>9. CASE \E refs \in Requests : RequestInspections(refs)
  <2>1. PICK refs \in Requests : RequestInspections(refs)
    BY <1>9
  <2>2. /\ pc = "answer" /\ pc' = "inspect" /\ UNCHANGED <<job, elapsed>> /\ wanted' = refs
    BY <2>1 DEF RequestInspections
  <2>3. Cardinality(refs) \in Nat /\ Cardinality(refs) <= MaxRefs
    BY <1>0, WantedFinite
  <2>4. elapsed <= job.total + StopTime
    BY <2>2 DEF BudgetInv
  <2>5. Cardinality(refs) * MaxInspection <= MaxRefs * MaxInspection /\ Cardinality(refs) * MaxInspection \in Nat
    BY <2>3, Limits, Products
  <2>6. elapsed + Cardinality(refs) * MaxInspection <= job.total + StopTime + MaxRefs * MaxInspection
    BY <1>0, <1>00, <2>4, <2>5, Limits
  <2> QED
    BY <1>000, <2>2, <2>6 DEF BudgetInv, OverrunBounded
<1>10. CASE \E c \in Cands : InspectWanted(c)
  <2>1. PICK c \in Cands : InspectWanted(c)
    BY <1>10
  <2>2. /\ pc = "inspect" /\ c \in wanted /\ Inspect(c) /\ wanted' = wanted \ {c}
        /\ pc' \in {"ask", "inspect"} /\ UNCHANGED job
    BY <2>1 DEF InspectWanted
  <2>3. elapsed + Cardinality(wanted) * MaxInspection <= job.total + StopTime + MaxRefs * MaxInspection
    BY <2>2 DEF BudgetInv
  <2>4. elapsed' \in Nat /\ elapsed' <= elapsed + MaxInspection
    BY <1>0, <2>2, InspectTyped
  <2>5. /\ Cardinality(wanted') = Cardinality(wanted) - 1 /\ Cardinality(wanted) \in Nat
        /\ Cardinality(wanted) > 0
    BY <1>0, <2>2, WantedCounts
  <2>6. Cardinality(wanted') * MaxInspection = Cardinality(wanted) * MaxInspection - MaxInspection
    BY <2>5, Limits, Products
  <2>7. Cardinality(wanted) * MaxInspection \in Nat /\ Cardinality(wanted') * MaxInspection \in Nat
    BY <2>5, Limits, Products
  <2>8. elapsed' + Cardinality(wanted') * MaxInspection <= job.total + StopTime + MaxRefs * MaxInspection
    BY <1>0, <1>00, <2>3, <2>4, <2>6, <2>7, Limits
  <2>9. elapsed' <= job.total + StopTime + MaxRefs * MaxInspection
    BY <1>0, <1>00, <2>4, <2>7, <2>8, Limits
  <2> QED
    BY <2>2, <2>8, <2>9 DEF BudgetInv, OverrunBounded
<1> QED
  BY <1>1, <1>2, <1>3, <1>4, <1>5, <1>6, <1>7, <1>8, <1>9, <1>10, PlanSteps DEF Failing

\* cli.py command_plan: the budget may be exceeded by one batch of inspections
\* and the stopping of the children, and by no more.
THEOREM OverrunHolds == Spec => []OverrunBounded
<1>1. Init => BudgetInv
  <2> SUFFICES ASSUME Init PROVE BudgetInv
    OBVIOUS
  <2>1. job.total \in Nat /\ elapsed = 0 /\ pc = "start"
    BY JobParts DEF Init
  <2>2. MaxRefs * MaxInspection \in Nat
    BY Limits, Products
  <2> QED
    BY <2>1, <2>2, Limits DEF BudgetInv, OverrunBounded
<1>2. Typed /\ Typed' /\ BudgetInv /\ [Next]_vars => BudgetInv'
  BY BudgetStep
<1>3. BudgetInv => OverrunBounded
  BY DEF BudgetInv
<1> QED
  BY <1>1, <1>2, <1>3, TypesHold, PTL DEF Spec

-----------------------------------------------------------------------------
(* The output file.                                                        *)

\* Every step keeps the output file whole.
LEMMA FileStep ==
    ASSUME Typed, FileInv, [Next]_vars
    PROVE  FileInv'
<1>0. TypeOK /\ RoundsInv
  BY DEF Typed
<1>1. /\ writes \in Nat /\ (pc # "end" => exit = 3) /\ target \in {"absent", "other", "part", "plan"}
      /\ trouble \in {"none", "raised", "stuck"}
  BY <1>0, Limits DEF FileInv, TypeOK
<1> USE DEF timeVars, askVars, fileVars
<1>2. CASE Failing
  BY <1>1, <1>2 DEF Failing, Fail, FileInv, OutputHonest, Gathering
<1>3. CASE Start \/ Preinspect \/ PreinspectionEnds \/ Ask \/ FinalAnswer
           \/ (\E refs \in Requests : RequestInspections(refs)) \/ (\E c \in Cands : InspectWanted(c))
  <2>1. UNCHANGED <<fileVars, exit>> /\ pc \in Gathering /\ pc' \in Gathering \cup {"create"}
    BY <1>3 DEF Start, Preinspect, PreinspectionEnds, Ask, FinalAnswer, RequestInspections, InspectWanted, Gathering
  <2> QED
    BY <1>1, <2>1 DEF FileInv, OutputHonest, Gathering
<1>4. CASE PrintPlan
  BY <1>1, <1>4 DEF PrintPlan, Done, FileInv, OutputHonest, Gathering
<1>5. CASE Create \/ Fill
  BY <1>1, <1>5 DEF Create, Fill, FileInv, OutputHonest, Gathering
<1>6. CASE Replace
  BY <1>1, <1>6 DEF Replace, FileInv, OutputHonest, Gathering
<1>7. CASE Link
  BY <1>1, <1>7 DEF Link, FileInv, OutputHonest, Gathering
<1>8. CASE Unlink \/ UnlinkFails
  BY <1>1, <1>8 DEF Unlink, UnlinkFails, FileInv, OutputHonest, Gathering
<1>9. CASE WriteFails
  BY <1>1, <1>9 DEF WriteFails, FileInv, OutputHonest, Gathering
<1>10. CASE Tidy
  <2>1. pc = "tidy" /\ pc' = "end" /\ temp' = "absent" /\ UNCHANGED <<target, writes, trouble>>
    BY <1>10 DEF Tidy, Done
  <2>2. \/ trouble = "none" /\ exit' \in {0, 2}
        \/ trouble # "none" /\ exit' = 1
    BY <1>10 DEF Tidy, Done
  <2> QED
    BY <1>1, <2>1, <2>2 DEF FileInv, OutputHonest, Gathering
<1>11. CASE TidyFails
  BY <1>1, <1>11 DEF TidyFails, FileInv, OutputHonest, Gathering
<1>12. CASE Crash
  BY <1>1, <1>12 DEF Crash, FileInv, OutputHonest, Gathering
<1>13. CASE OtherWriter
  BY <1>1, <1>13 DEF OtherWriter, FileInv, OutputHonest, Gathering
<1>14. CASE UNCHANGED vars
  BY <1>14 DEF vars, FileInv, OutputHonest
<1> QED
  BY <1>2, <1>3, <1>4, <1>5, <1>6, <1>7, <1>8, <1>9, <1>10, <1>11, <1>12, <1>13, <1>14, Fails
     DEF Next, Command

\* cli.py _write_json: the output file is never half a plan; it is there
\* after success, and a failure leaves neither it nor a temporary file, unless
\* an unlink of the temporary file is what failed.
THEOREM OutputHonestHolds == Spec => []OutputHonest
<1>1. Init => FileInv
  BY DEF Init, FileInv, OutputHonest, Gathering
<1>2. Typed /\ FileInv /\ [Next]_vars => FileInv'
  BY FileStep
<1>3. FileInv => OutputHonest
  BY DEF FileInv
<1> QED
  BY <1>1, <1>2, <1>3, TypesHold, PTL DEF Spec

\* cli.py _write_json: without --overwrite no file is replaced, whoever
\* created it and when.
THEOREM OutputKeptHolds == Spec => OutputKept
<1>1. ASSUME [Next]_vars, target # "plan", target' = "plan"
      PROVE  target = "absent" \/ job.output = "overwrite"
  <2>1. CASE Replace \/ Link
    BY <2>1 DEF Replace, Replaces, Link
  <2>2. CASE Failing
    BY <1>1, <2>2 DEF Failing, Fail, fileVars
  <2>3. CASE Start \/ Preinspect \/ PreinspectionEnds \/ Ask \/ FinalAnswer
             \/ (\E refs \in Requests : RequestInspections(refs)) \/ (\E c \in Cands : InspectWanted(c))
    BY <1>1, <2>3 DEF Start, Preinspect, PreinspectionEnds, Ask, FinalAnswer, RequestInspections, InspectWanted, fileVars
  <2>4. CASE PrintPlan \/ Create \/ Fill \/ Crash \/ OtherWriter
    BY <1>1, <2>4 DEF PrintPlan, Create, Fill, Crash, OtherWriter, fileVars
  <2>5. CASE WriteFails \/ Unlink \/ UnlinkFails \/ Tidy \/ TidyFails
    BY <1>1, <2>5 DEF WriteFails, Unlink, UnlinkFails, Tidy, TidyFails
  <2>6. CASE UNCHANGED vars
    BY <1>1, <2>6 DEF vars, fileVars
  <2> QED
    BY <1>1, <2>1, <2>2, <2>3, <2>4, <2>5, <2>6, Fails DEF Next, Command
<1>2. [Next]_vars => [target # "plan" /\ target' = "plan" => target = "absent" \/ job.output = "overwrite"]_vars
  BY <1>1
<1> QED
  BY <1>2, PTL DEF Spec, OutputKept
=============================================================================
