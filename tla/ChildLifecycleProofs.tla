------------------------ MODULE ChildLifecycleProofs ------------------------
(***************************************************************************)
(* Proofs about the children of a model request: that no recorded process  *)
(* group is forgotten while it may run, whoever has to stop it and wherever *)
(* generate is interrupted or killed, for groups of any size.              *)
(***************************************************************************)
EXTENDS ChildLifecycle, TLAPS

-----------------------------------------------------------------------------
(* Types.                                                                  *)

\* The control states of generate and of the launcher, and the stops.
Places == {"start", "registry", "spawn", "adopt", "register", "write", "tail", "wait", "poll",
           "check", "term", "list", "read", "output", "cleanup", "sweep", "done", "dead"}
Stops  == [forget : BOOLEAN, tries : 1..2, phase : {"grace", "killed", "last"}]
States == {"none", "live", "zombie", "reaped"}
Posts  == {"waiting", "grace", "open", "kill", "next", "list", "read", "remove", "killcli", "exited"}

\* The types of the processes, of generate with its registry, and of the
\* launcher with the history.
ProcTyped ==
    /\ leader \in [Child -> States] /\ kin \in [Child -> SUBSET Kin]
    /\ killed \subseteq Child /\ forks \in 0..MaxForks
AtTyped == pc \in Places /\ cur \in Child /\ job \in Stops
EndTyped == failed \in BOOLEAN /\ outcome \in {"none", "text", "error", "retained"}
KeptTyped == entries \subseteq Child /\ (file = Absent \/ file \subseteq Child)
RestTyped == listed \subseteq Kin /\ todo \subseteq Child /\ guard \in {"default", "armed", "ignored"}
PostTyped ==
    /\ lpc \in Posts /\ hard \in BOOLEAN /\ given \subseteq Child /\ ltodo \subseteq Child
    /\ lcur \in Child /\ llist \subseteq Kin /\ complained \in BOOLEAN
PastTyped == registered \subseteq Child /\ raced \subseteq Child

\* Together they are all the types.
LEMMA Typed ==
    /\ TypeOK <=> /\ ProcTyped /\ AtTyped /\ EndTyped /\ KeptTyped /\ RestTyped /\ PostTyped
                  /\ PastTyped
    /\ TypeOK' <=> /\ ProcTyped' /\ AtTyped' /\ EndTyped' /\ KeptTyped' /\ RestTyped' /\ PostTyped'
                   /\ PastTyped'
  BY DEF TypeOK, ProcTyped, AtTyped, EndTyped, KeptTyped, RestTyped, PostTyped, PastTyped, Places,
         Stops, States, Posts

\* The two children.
LEMMA Children ==
    /\ server \in Child /\ client \in Child /\ server # client /\ Child = {server, client}
    /\ Absent \notin SUBSET Child
  BY ChildAssumption DEF Child

\* A stop that begins is well typed.
LEMMA StopTyped ==
    ASSUME NEW c \in Child, NEW n \in 1..2, Stop(c, n)
    PROVE  AtTyped' /\ pc' = "check"
  BY DEF Stop, AtTyped, Places, Stops

\* Waiting for a leader changes no live one.
LEMMA ReapedTyped ==
    ASSUME ProcTyped, NEW c \in Child, leader' = Reaped(c)
    PROVE  /\ leader' \in [Child -> States]
           /\ \A d \in Child : leader'[d] = "live" <=> leader[d] = "live"
  BY DEF ProcTyped, Reaped, States

\* An exception leaves the part of generate that starts children.
LEMMA UnwindTyped ==
    ASSUME AtTyped, EndTyped, Unwind
    PROVE  AtTyped' /\ EndTyped' /\ pc' \notin Starting
<1>1. EndTyped'
  BY DEF Unwind, EndTyped
<1>2. CASE pc \in {"register", "write"}
  <2>1. /\ cur' = cur /\ pc' = "term"
        /\ job' = [forget |-> FALSE, tries |-> 1, phase |-> "grace"]
    BY <1>2 DEF Unwind, Abort
  <2>2. job' \in Stops
    BY <2>1 DEF Stops
  <2> QED
    BY <1>1, <2>1, <2>2 DEF AtTyped, Places, Starting
<1>3. CASE pc \notin {"register", "write"} /\ (pc \in {"wait", "poll"} \/ job.tries = 2)
  <2>1. Stop(cur, 1)
    BY <1>3 DEF Unwind
  <2> QED
    BY <1>1, <2>1, StopTyped DEF AtTyped, Starting
<1>4. CASE pc \notin {"register", "write", "wait", "poll"} /\ job.tries # 2 /\ cur = client
  <2>1. Stop(server, 1)
    BY <1>4 DEF Unwind
  <2> QED
    BY <1>1, <2>1, StopTyped, Children DEF Starting
<1>5. CASE pc \notin {"register", "write", "wait", "poll"} /\ job.tries # 2 /\ cur # client
  <2>1. cur' = cur /\ job' = job /\ pc' \in {"done", "cleanup"}
    BY <1>5 DEF Unwind
  <2> QED
    BY <1>1, <2>1 DEF AtTyped, Places, Starting
<1> QED
  BY <1>2, <1>3, <1>4, <1>5

\* So does the end of a block that stopped a child.
LEMMA LeaveTyped ==
    ASSUME AtTyped, Leave
    PROVE  AtTyped' /\ pc' \notin Starting
<1>1. CASE Stop(server, 1)
  BY <1>1, StopTyped, Children DEF Starting
<1>2. CASE cur' = cur /\ job' = job /\ pc' \in {"cleanup", "output"}
  BY <1>2 DEF AtTyped, Places, Starting
<1> QED
  BY <1>1, <1>2 DEF Leave

\* And the return of a stop, which may take the child off the registry.
LEMMA StoppedTyped ==
    ASSUME AtTyped, KeptTyped, NEW clean \in BOOLEAN, Stopped(clean)
    PROVE  /\ AtTyped' /\ pc' \notin Starting /\ KeptTyped'
           /\ \/ clean /\ entries' = entries \ {cur} /\ file' = entries'
              \/ entries' = entries /\ file' = file
<1>1. \/ clean /\ entries' = entries \ {cur} /\ file' = entries'
      \/ entries' = entries /\ file' = file
  BY DEF Stopped
<1>2. KeptTyped'
  BY <1>1 DEF KeptTyped
<1>3. CASE Stop(cur, 1)
  BY <1>1, <1>2, <1>3, StopTyped DEF AtTyped, Starting
<1>4. CASE Leave
  BY <1>1, <1>2, <1>4, LeaveTyped
<1> QED
  BY <1>3, <1>4 DEF Stopped

\* generate begins with neither child.
LEMMA InitTyped ==
    ASSUME Init
    PROVE  TypeOK
<1>1. /\ leader = [c \in Child |-> "none"] /\ kin = [c \in Child |-> {}] /\ killed = {} /\ forks = 0
      /\ job = [forget |-> FALSE, tries |-> 1, phase |-> "grace"]
  BY DEF Init
<1>2. ProcTyped
  BY <1>1, ChildAssumption DEF ProcTyped, States
<1>3. AtTyped
  BY <1>1, Children DEF Init, AtTyped, Places, Stops
<1>4. failed \in BOOLEAN /\ hard \in BOOLEAN /\ complained \in BOOLEAN
  BY Zenon DEF Init
<1>5. EndTyped /\ KeptTyped /\ RestTyped /\ PostTyped /\ PastTyped
  BY <1>4, Children DEF Init, EndTyped, KeptTyped, RestTyped, PostTyped, PastTyped, Posts
<1> QED
  BY <1>2, <1>3, <1>5, Typed

\* A process that forks, exits or is waited for keeps the types.
LEMMA ProcessesTyped ==
    ASSUME TypeOK, Processes
    PROVE  TypeOK'
<1> USE DEF procVars, cliVars, lVars, others
<1>1. PICK c \in Child : Fork(c) \/ LeaderExits(c) \/ KinExits(c)
  BY DEF Processes
<1>2. UNCHANGED <<cliVars, lVars, entries, file, registered>>
  BY <1>1 DEF Fork, LeaderExits, KinExits
<1>3. AtTyped' /\ EndTyped' /\ KeptTyped' /\ RestTyped' /\ PostTyped'
  BY <1>2, Typed DEF AtTyped, EndTyped, KeptTyped, RestTyped, PostTyped
<1>4. PastTyped'
  BY <1>1, <1>2, Typed DEF PastTyped, Fork, LeaderExits, KinExits
<1>5. ProcTyped'
  <2>1. CASE Fork(c)
    BY <2>1, Typed, ChildAssumption DEF ProcTyped, Fork
  <2>2. CASE LeaderExits(c)
    BY <2>2, Typed DEF ProcTyped, LeaderExits, States
  <2>3. CASE KinExits(c)
    BY <2>3, Typed DEF ProcTyped, KinExits
  <2> QED
    BY <1>1, <2>1, <2>2, <2>3
<1> QED
  BY <1>3, <1>4, <1>5, Typed

\* Steps of generate as it starts its children.
LEMMA StartingTyped ==
    ASSUME TypeOK,
           \/ Install \/ MakeRegistry \/ Spawn \/ Adopt \/ Record \/ WriteEntry \/ EnterBlock
           \/ Healthy \/ ChildExited \/ Overdue
    PROVE  TypeOK'
<1> USE DEF procVars, cliVars, lVars, others
<1>1. UNCHANGED <<lVars, raced, killed, kin, forks, listed, todo>>
  BY DEF Install, MakeRegistry, Spawn, Adopt, Record, WriteEntry, EnterBlock, Healthy, ChildExited, Overdue
<1>2. PostTyped' /\ RestTyped'
  BY <1>1, Typed DEF PostTyped, RestTyped, Install, MakeRegistry, Spawn, Adopt, Record, WriteEntry,
                     EnterBlock, Healthy, ChildExited, Overdue
<1>3. PastTyped' /\ KeptTyped'
  BY <1>1, Typed DEF PastTyped, KeptTyped, AtTyped, Install, MakeRegistry, Spawn, Adopt, Record,
                     WriteEntry, EnterBlock, Healthy, ChildExited, Overdue
<1>4. ProcTyped'
  <2>1. CASE Adopt \/ ChildExited
    BY <1>1, <2>1, Typed, ReapedTyped DEF ProcTyped, AtTyped, Adopt, ChildExited
  <2>2. CASE Spawn
    BY <1>1, <2>2, Typed DEF ProcTyped, Spawn, States
  <2>3. CASE leader' = leader
    BY <1>1, <2>3, Typed DEF ProcTyped
  <2> QED
    BY <2>1, <2>2, <2>3 DEF Install, MakeRegistry, Record, WriteEntry, EnterBlock, Healthy, Overdue
<1>5. AtTyped' /\ EndTyped'
  <2>1. CASE Unwind
    BY <2>1, Typed, UnwindTyped
  <2>2. CASE UNCHANGED <<job, failed, outcome>> /\ cur' \in Child /\ pc' \in Places
    BY <2>2, Typed DEF AtTyped, EndTyped
  <2>3. CASE ChildExited
    <3>1. Stop(cur, 1) /\ failed' = (cur = server) /\ outcome' = outcome
      BY <2>3 DEF ChildExited
    <3>2. failed' \in BOOLEAN
      BY <3>1, Zenon
    <3> QED
      BY <3>1, <3>2, StopTyped, Typed DEF AtTyped, EndTyped
  <2>4. CASE Overdue
    <3>1. \E n \in 1..2 : Stop(cur, n)
      BY <2>4 DEF Overdue
    <3>2. EndTyped'
      BY <2>4, Typed DEF EndTyped, Overdue
    <3> QED
      BY <3>1, <3>2, StopTyped, Typed DEF AtTyped
  <2> QED
    BY <2>1, <2>2, <2>3, <2>4, Typed, Children DEF AtTyped, Places, Install, MakeRegistry, Spawn, Adopt,
       Record, WriteEntry, EnterBlock, Healthy
<1> QED
  BY <1>2, <1>3, <1>4, <1>5, Typed

\* Steps of generate as it stops them.
LEMMA StoppingTyped ==
    ASSUME TypeOK,
           \/ Check \/ Terminate \/ ListProc \/ ReadProc \/ GraceOver \/ KillOver \/ Output
    PROVE  TypeOK'
<1> USE DEF procVars, cliVars, lVars, others
<1>1. UNCHANGED <<lVars, raced, registered, kin, forks, guard, todo, outcome>>
  BY DEF Check, Terminate, ListProc, ReadProc, GraceOver, KillOver, Output
<1>2. PostTyped' /\ PastTyped'
  BY <1>1, Typed DEF PostTyped, PastTyped
<1>3. RestTyped'
  BY <1>1, Typed DEF RestTyped, AtTyped, ProcTyped, Check, Terminate, ListProc, ReadProc, GraceOver,
                     KillOver, Output
<1>4. ProcTyped'
  <2>1. CASE leader' = Reaped(cur) /\ killed' = killed
    BY <1>1, <2>1, Typed, ReapedTyped DEF ProcTyped, AtTyped
  <2>2. CASE leader' = leader /\ killed' \subseteq killed \cup {cur}
    BY <1>1, <2>2, Typed DEF ProcTyped, AtTyped
  <2> QED
    BY <2>1, <2>2 DEF Check, Terminate, ListProc, ReadProc, GraceOver, KillOver, Output
<1>5. EndTyped'
  BY <1>1, Typed DEF EndTyped, Check, Terminate, ListProc, ReadProc, GraceOver, KillOver, Output
<1>6. AtTyped' /\ KeptTyped'
  <2>1. CASE \E clean \in BOOLEAN : Stopped(clean)
    BY <2>1, Typed, StoppedTyped
  <2>2. CASE Leave /\ UNCHANGED <<entries, file>>
    BY <2>2, Typed, LeaveTyped DEF KeptTyped
  <2>3. CASE Stop(server, 1) /\ UNCHANGED <<entries, file>>
    BY <2>3, Typed, StopTyped, Children DEF KeptTyped
  <2>4. CASE /\ pc' \in Places /\ cur' = cur /\ UNCHANGED <<entries, file>>
             /\ \E ph \in {"grace", "killed", "last"} : job' = [job EXCEPT !.phase = ph]
    BY <2>4, Typed DEF KeptTyped, AtTyped, Stops
  <2>5. CASE pc' \in Places /\ cur' = cur /\ job' = job /\ UNCHANGED <<entries, file>>
    BY <2>5, Typed DEF KeptTyped, AtTyped
  <2> QED
    BY <2>1, <2>2, <2>3, <2>4, <2>5 DEF Check, Terminate, ListProc, ReadProc, GraceOver, KillOver,
       Output, Places
<1> QED
  BY <1>2, <1>3, <1>4, <1>5, <1>6, Typed

\* Steps of generate as it ends, is interrupted or killed.
LEMMA EndingTyped ==
    ASSUME TypeOK, Protect \/ (\E c \in Child : Sweep(c)) \/ Finish \/ Interrupt \/ Crash
    PROVE  TypeOK'
<1> USE DEF procVars, cliVars, lVars, others
<1>1. UNCHANGED <<lVars, raced, registered, kin, forks, leader, listed>>
  BY DEF Protect, Sweep, Finish, Interrupt, Raised, Crash
<1>2. PostTyped' /\ PastTyped'
  BY <1>1, Typed DEF PostTyped, PastTyped
<1>3. RestTyped' /\ ProcTyped'
  BY <1>1, Typed DEF RestTyped, ProcTyped, KeptTyped, Protect, Sweep, Finish, Interrupt, Raised, Crash
<1>4. KeptTyped'
  BY Typed DEF KeptTyped, Protect, Sweep, Finish, Interrupt, Raised, Crash
<1>5. AtTyped' /\ EndTyped'
  <2>1. CASE Interrupt
    BY <2>1, Typed, UnwindTyped DEF Interrupt, Raised
  <2>2. CASE Protect \/ (\E c \in Child : Sweep(c)) \/ Finish \/ Crash
    BY <2>2, Typed DEF AtTyped, EndTyped, Places, Protect, Sweep, Finish, Crash
  <2> QED
    BY <2>1, <2>2
<1> QED
  BY <1>2, <1>3, <1>4, <1>5, Typed

\* Steps of the launcher.
LEMMA LauncherTyped ==
    ASSUME TypeOK, Launcher \/ Forward \/ HardTimeout \/ StillThere
    PROVE  TypeOK'
<1> USE DEF procVars, cliVars, lVars, others
<1> USE DEF Launcher, CliDone, Forward, HardTimeout, OpenRegistry, KillGroup, WaitGone, ListGroup,
        ReadGroup, StillThere, RemoveRegistry, KillCli
<1>1. PastTyped'
  BY Typed DEF PastTyped
<1>2. ProcTyped' /\ KeptTyped'
  BY Typed DEF ProcTyped, KeptTyped
<1>3. AtTyped' /\ EndTyped' /\ RestTyped'
  <2>1. CASE Raised
    BY <2>1, Typed, UnwindTyped DEF Raised, RestTyped
  <2>2. CASE UNCHANGED cliVars
    BY <2>2, Typed DEF AtTyped, EndTyped, RestTyped
  <2>3. CASE pc' \in {pc, "dead"} /\ UNCHANGED <<cur, job, listed, guard, failed, todo, outcome>>
    BY <2>3, Typed DEF AtTyped, EndTyped, RestTyped, Places
  <2> QED
    BY <2>1, <2>2, <2>3
<1>4. PostTyped'
  <2>1. complained' \in BOOLEAN /\ hard' \in BOOLEAN
    <3>1. complained' = complained \/ complained' \in BOOLEAN
      BY DEF Return
    <3>2. hard' = hard \/ hard' = TRUE
      OBVIOUS
    <3> QED
      BY <3>1, <3>2, Typed DEF PostTyped
  <2>2. lpc' \in Posts
    BY Typed DEF PostTyped, Posts, Return
  <2>3. given' \subseteq Child /\ ltodo' \subseteq Child /\ lcur' \in Child
    BY Typed DEF PostTyped, KeptTyped
  <2>4. llist' \subseteq Kin
    BY Typed DEF PostTyped, ProcTyped
  <2> QED
    BY <2>1, <2>2, <2>3, <2>4 DEF PostTyped
<1> QED
  BY <1>1, <1>2, <1>3, <1>4, Typed

\* Every step keeps the types.
LEMMA StepTyped ==
    ASSUME TypeOK, [Next]_vars
    PROVE  TypeOK'
<1>1. CASE UNCHANGED vars
  BY <1>1 DEF TypeOK, vars, procVars, cliVars, lVars, others
<1> QED
  BY <1>1, ProcessesTyped, StartingTyped, StoppingTyped, EndingTyped, LauncherTyped
     DEF Next, Generate, Deadline

\* Whatever the children, the signals and the clock do, the state is well
\* typed.
THEOREM TypeCorrect == Spec => []TypeOK
<1> QED
  BY InitTyped, StepTyped, PTL DEF Spec

-----------------------------------------------------------------------------
(* The order in which children are started.                                *)

\* Once no child is started any more, nothing is left to say about the order.
LEMMA StageOver ==
    ASSUME pc' \notin Starting
    PROVE  StageInv'
  BY DEF StageInv, Starting

\* The steps of generate that do not start a child end the starting.
LEMMA StartingEnds ==
    ASSUME TypeOK,
           \/ Check \/ Terminate \/ ListProc \/ ReadProc \/ GraceOver \/ KillOver \/ Output
           \/ ChildExited \/ Overdue \/ Protect \/ (\E c \in Child : Sweep(c)) \/ Finish
           \/ Interrupt \/ Crash
    PROVE  pc' \notin Starting
<1>1. CASE \E clean \in BOOLEAN : Stopped(clean)
  BY <1>1, Typed, StoppedTyped
<1>2. CASE Leave
  BY <1>2, Typed, LeaveTyped
<1>3. CASE Unwind
  BY <1>3, Typed, UnwindTyped
<1>4. CASE pc' \in {"term", "list", "read", "sweep", "done", "dead"} \/ (pc' = pc /\ pc = "sweep")
  BY <1>4 DEF Starting
<1>5. CASE pc' = "check"
  BY <1>5 DEF Starting
<1> QED
  BY <1>1, <1>2, <1>3, <1>4, <1>5 DEF Check, Terminate, ListProc, ReadProc, GraceOver, KillOver, Output,
     ChildExited, Overdue, Protect, Sweep, Finish, Interrupt, Raised, Crash, Stop

\* The launcher leaves the starting alone while it waits, and a signal it
\* forwards ends it.
LEMMA LauncherKeepsStage ==
    ASSUME TypeOK, StageInv, Launcher \/ Forward \/ HardTimeout \/ StillThere
    PROVE  StageInv'
<1> USE DEF Launcher, CliDone, Forward, HardTimeout, OpenRegistry, KillGroup, WaitGone, ListGroup,
        ReadGroup, StillThere, RemoveRegistry, KillCli, cliVars
<1>1. pc' \notin Starting
  <2>1. CASE Raised
    BY <2>1, Typed, UnwindTyped DEF Raised
  <2>2. CASE pc' = "dead"
    BY <2>2 DEF Starting
  <2>3. CASE pc' = pc /\ (lpc # "waiting" \/ guard = "ignored")
    BY <2>3 DEF StageInv
  <2>4. CASE pc' = pc /\ Ended
    BY <2>4 DEF Starting, Ended
  <2> QED
    BY <2>1, <2>2, <2>3, <2>4
<1> QED
  BY <1>1, StageOver

\* Each child is started once and recorded once, the server first.
LEMMA StepStage ==
    ASSUME TypeOK, StageInv, [Next]_vars
    PROVE  StageInv'
<1> USE DEF procVars, cliVars, lVars, others
<1>1. CASE UNCHANGED <<pc, cur, registered, entries, guard, lpc>>
  BY <1>1 DEF StageInv
<1>2. CASE Install \/ MakeRegistry
  <2>1. CASE pc' \notin Starting
    BY <2>1, StageOver
  <2>2. CASE Install
    BY <2>2, Children DEF StageInv, Install, Starting
  <2>3. CASE MakeRegistry /\ pc' = "spawn"
    <3>1. cur' = cur /\ UNCHANGED <<registered, entries, guard, lpc>>
      BY <2>3, Typed, UnwindTyped DEF MakeRegistry, Starting
    <3> QED
      BY <2>3, <3>1, Children DEF StageInv, MakeRegistry, Starting
  <2> QED
    BY <1>2, <2>1, <2>2, <2>3, Typed, UnwindTyped DEF MakeRegistry
<1>3. CASE Spawn \/ Adopt \/ Record \/ WriteEntry \/ EnterBlock
  <2>1. CASE Unwind
    BY <2>1, Typed, UnwindTyped, StageOver
  <2>2. CASE ~Unwind
    <3>0. pc \in Starting /\ guard # "ignored" /\ lpc = "waiting" /\ UNCHANGED <<guard, lpc, cur>>
      BY <1>3, <2>2 DEF StageInv, Starting, Spawn, Adopt, Record, WriteEntry, EnterBlock
    <3>1. CASE Spawn \/ Adopt
      BY <2>2, <3>0, <3>1 DEF StageInv, Starting, Spawn, Adopt
    <3>2. CASE Record
      BY <2>2, <3>0, <3>2 DEF StageInv, Starting, Record
    <3>3. CASE WriteEntry
      <4>1. pc' = "tail" /\ registered' = registered \cup {cur} /\ pc = "write"
        BY <2>2, <3>3 DEF WriteEntry
      <4> QED
        BY <3>0, <4>1, Children DEF StageInv, Starting
    <3>4. CASE EnterBlock
      BY <3>0, <3>4 DEF StageInv, Starting, EnterBlock
    <3> QED
      BY <1>3, <3>1, <3>2, <3>3, <3>4
  <2> QED
    BY <2>1, <2>2
<1>4. CASE Healthy
  <2>1. cur = server /\ client \notin registered /\ guard # "ignored" /\ lpc = "waiting"
    BY <1>4 DEF StageInv, Healthy, Starting
  <2>2. pc' = "spawn" /\ cur' = client /\ UNCHANGED <<registered, guard, lpc>>
    BY <1>4 DEF Healthy
  <2> QED
    BY <2>1, <2>2, Children DEF StageInv, Starting
<1>5. CASE \/ Check \/ Terminate \/ ListProc \/ ReadProc \/ GraceOver \/ KillOver \/ Output
           \/ ChildExited \/ Overdue \/ Protect \/ (\E c \in Child : Sweep(c)) \/ Finish
           \/ Interrupt \/ Crash
  BY <1>5, StartingEnds, StageOver
<1>6. CASE Processes
  <2>1. UNCHANGED <<pc, cur, registered, entries, guard, lpc>>
    BY <1>6 DEF Processes, Fork, LeaderExits, KinExits
  <2> QED
    BY <1>1, <2>1
<1>7. CASE UNCHANGED vars
  BY <1>1, <1>7 DEF vars
<1> QED
  BY <1>2, <1>3, <1>4, <1>5, <1>6, <1>7, LauncherKeepsStage DEF Next, Generate, Deadline

\* At first nothing is started.
LEMMA InitStage ==
    ASSUME Init
    PROVE  StageInv
  BY Children DEF Init, StageInv, Starting

-----------------------------------------------------------------------------
(* Groups that may still run.                                              *)

\* Under which steps the set of strays can grow: only when a child is written
\* to the registry file for the first time.
LEMMA StrayShrinks ==
    ASSUME TypeOK, StageInv, [Next]_vars
    PROVE  /\ registered' = registered => Stray' \subseteq Stray
           /\ Stray' \subseteq Stray \cup {cur}
<1> USE DEF procVars, cliVars, lVars, others
<1>1. raced \subseteq raced'
  BY DEF Next, vars, Processes, Fork, LeaderExits, KinExits, Generate, Install, MakeRegistry, Spawn, Adopt,
         Record, WriteEntry, EnterBlock, ChildExited, Output, Check, Terminate, ListProc, ReadProc, Protect,
         Sweep, Finish, Healthy, Deadline, Overdue, GraceOver, KillOver, Interrupt, Raised, Crash, Launcher,
         CliDone, OpenRegistry, KillGroup, WaitGone, ListGroup, ReadGroup, RemoveRegistry, KillCli, Forward,
         HardTimeout, StillThere
<1>2. registered' = registered \/ (registered' = registered \cup {cur} /\ WriteEntry)
  BY DEF Next, vars, Processes, Fork, LeaderExits, KinExits, Generate, Install, MakeRegistry, Spawn, Adopt,
         Record, WriteEntry, EnterBlock, ChildExited, Output, Check, Terminate, ListProc, ReadProc, Protect,
         Sweep, Finish, Healthy, Deadline, Overdue, GraceOver, KillOver, Interrupt, Raised, Crash, Launcher,
         CliDone, OpenRegistry, KillGroup, WaitGone, ListGroup, ReadGroup, RemoveRegistry, KillCli, Forward,
         HardTimeout, StillThere
<1>3. ASSUME NEW c \in registered, Alive(c)'
      PROVE  Alive(c)
  <2>0. c \in Child /\ ProcTyped /\ cur \in Child
    BY Typed DEF PastTyped, AtTyped
  <2>1. CASE leader' = leader /\ kin' = kin
    BY <1>3, <2>1 DEF Alive
  <2>2. CASE \E d \in Child : leader' = Reaped(d) /\ kin' = kin
    BY <1>3, <2>0, <2>2, ReapedTyped DEF Alive
  <2>3. ASSUME NEW d \in Child, Fork(d) \/ LeaderExits(d) \/ KinExits(d)
        PROVE  Alive(c)
    <3>1. CASE Fork(d)
      BY <1>3, <2>0, <3>1 DEF Alive, ProcTyped, Fork
    <3>2. CASE LeaderExits(d)
      BY <1>3, <2>0, <3>2 DEF Alive, ProcTyped, LeaderExits
    <3>3. CASE KinExits(d)
      BY <1>3, <2>0, <3>3 DEF Alive, ProcTyped, KinExits
    <3> QED
      BY <2>3, <3>1, <3>2, <3>3
  <2>4. CASE Spawn
    <3>1. c # cur
      BY <2>4 DEF StageInv, Spawn
    <3>2. leader'[c] = leader[c] /\ kin' = kin
      BY <2>0, <2>4, <3>1 DEF ProcTyped, Spawn
    <3> QED
      BY <1>3, <3>2 DEF Alive
  <2> QED
    BY <2>0, <2>1, <2>2, <2>3, <2>4
    DEF Next, vars, Processes, Generate, Install, MakeRegistry, Adopt,
         Record, WriteEntry, EnterBlock, ChildExited, Output, Check, Terminate, ListProc, ReadProc, Protect,
         Sweep, Finish, Healthy, Deadline, Overdue, GraceOver, KillOver, Interrupt, Raised, Crash, Launcher,
         CliDone, OpenRegistry, KillGroup, WaitGone, ListGroup, ReadGroup, RemoveRegistry, KillCli, Forward,
         HardTimeout, StillThere
<1>4. Stray' \subseteq Stray \cup (registered' \ registered)
  BY <1>1, <1>3 DEF Stray
<1> QED
  BY <1>2, <1>4

-----------------------------------------------------------------------------
(* What a reading of /proc tells.                                          *)

\* An exception does not go on with a reading.
LEMMA UnwindNoRead ==
    ASSUME Unwind
    PROVE  pc' # "read"
  BY DEF Unwind, Abort, Stop

\* Nor does the return of a stop.
LEMMA StoppedNoRead ==
    ASSUME NEW clean, Stopped(clean) \/ Leave
    PROVE  pc' # "read"
  BY DEF Stopped, Leave, Stop

\* A reading of generate follows a listing, with nothing between them but
\* steps of others.
LEMMA ReadAfterList ==
    ASSUME [Next]_vars, pc' = "read"
    PROVE  ListProc \/ UNCHANGED <<pc, cur, listed>>
<1> USE DEF procVars, cliVars, lVars, others
<1>1. CASE Generate
  BY <1>1, UnwindNoRead, StoppedNoRead
  DEF Generate, Install, MakeRegistry, Spawn, Adopt, Record, WriteEntry, EnterBlock, ChildExited, Output,
      Check, Terminate, ReadProc, Protect, Sweep, Finish, Stop
<1>2. CASE Healthy \/ Deadline \/ Interrupt \/ Crash
  BY <1>2, UnwindNoRead, StoppedNoRead
  DEF Healthy, Deadline, Overdue, GraceOver, KillOver, Interrupt, Raised, Crash, Stop
<1>3. CASE Launcher \/ Forward \/ HardTimeout \/ StillThere
  BY <1>3, UnwindNoRead DEF Launcher, CliDone, OpenRegistry, KillGroup, WaitGone, ListGroup, ReadGroup,
     RemoveRegistry, KillCli, Forward, Raised, HardTimeout, StillThere
<1>4. CASE Processes \/ UNCHANGED vars
  BY <1>4 DEF Processes, Fork, LeaderExits, KinExits, vars
<1> QED
  BY <1>1, <1>2, <1>3, <1>4 DEF Next

\* So does one of the launcher.
LEMMA LauncherReadAfterList ==
    ASSUME [Next]_vars, lpc' = "read"
    PROVE  ListGroup \/ UNCHANGED <<lpc, lcur, llist>>
<1> USE DEF procVars, cliVars, lVars, others
<1>1. CASE Generate \/ Healthy \/ Deadline \/ Interrupt \/ Crash
  BY <1>1
  DEF Generate, Install, MakeRegistry, Spawn, Adopt, Record, WriteEntry, EnterBlock, ChildExited, Output,
      Check, Terminate, ListProc, ReadProc, Protect, Sweep, Finish, Healthy, Deadline, Overdue, GraceOver,
      KillOver, Interrupt, Raised, Crash
<1>2. CASE Launcher \/ Forward \/ HardTimeout \/ StillThere
  BY <1>2 DEF Launcher, CliDone, OpenRegistry, KillGroup, WaitGone, ReadGroup,
     RemoveRegistry, KillCli, Forward, HardTimeout, StillThere, Return
<1>3. CASE Processes \/ UNCHANGED vars
  BY <1>3 DEF Processes, Fork, LeaderExits, KinExits, vars
<1> QED
  BY <1>1, <1>2, <1>3 DEF Next

\* A group grows only by a fork, which a reading of it under way misses.
LEMMA Growing ==
    ASSUME TypeOK, [Next]_vars
    PROVE  /\ raced \subseteq raced'
           /\ \A c \in Child : \/ kin'[c] \subseteq kin[c]
                               \/ Fork(c) /\ (pc = "read" /\ cur = c => c \in raced')
                                          /\ (lpc = "read" /\ lcur = c => c \in raced')
<1> USE DEF procVars, cliVars, lVars, others
<1>1. CASE kin' = kin /\ raced' = raced
  BY <1>1
<1>2. ASSUME NEW d \in Child, Fork(d) \/ LeaderExits(d) \/ KinExits(d)
      PROVE  /\ raced \subseteq raced'
             /\ \A c \in Child : \/ kin'[c] \subseteq kin[c]
                                 \/ Fork(c) /\ (pc = "read" /\ cur = c => c \in raced')
                                            /\ (lpc = "read" /\ lcur = c => c \in raced')
  <2>1. CASE Fork(d)
    <3>1. \A c \in Child \ {d} : kin'[c] = kin[c]
      BY <2>1, Typed DEF ProcTyped, Fork
    <3>2. raced \subseteq raced' /\ (pc = "read" /\ cur = d => d \in raced')
                                 /\ (lpc = "read" /\ lcur = d => d \in raced')
      BY <2>1 DEF Fork
    <3> QED
      BY <2>1, <3>1, <3>2
  <2>2. CASE LeaderExits(d) \/ KinExits(d)
    BY <2>2, Typed DEF ProcTyped, LeaderExits, KinExits
  <2> QED
    BY <1>2, <2>1, <2>2
<1> QED
  BY <1>1, <1>2
  DEF Next, vars, Processes, Generate, Install, MakeRegistry, Spawn, Adopt,
      Record, WriteEntry, EnterBlock, ChildExited, Output, Check, Terminate, ListProc, ReadProc, Protect,
      Sweep, Finish, Healthy, Deadline, Overdue, GraceOver, KillOver, Interrupt, Raised, Crash, Launcher,
      CliDone, OpenRegistry, KillGroup, WaitGone, ListGroup, ReadGroup, RemoveRegistry, KillCli, Forward,
      HardTimeout, StillThere

\* What was listed holds every process of the group, unless it forked since.
LEMMA StepReading ==
    ASSUME TypeOK, ReadingInv, [Next]_vars
    PROVE  ReadingInv'
<1>1. ASSUME pc' = "read"
      PROVE  (kin[cur] \subseteq listed \/ cur \in raced)'
  <2>1. CASE ListProc
    BY <2>1 DEF ListProc, procVars
  <2>2. CASE UNCHANGED <<pc, cur, listed>>
    <3>1. cur \in Child /\ (kin[cur] \subseteq listed \/ cur \in raced) /\ pc = "read"
      BY <1>1, <2>2, Typed DEF ReadingInv, AtTyped
    <3> QED
      BY <2>2, <3>1, Growing
  <2> QED
    BY <1>1, <2>1, <2>2, ReadAfterList
<1>2. ASSUME lpc' = "read"
      PROVE  (kin[lcur] \subseteq llist \/ lcur \in raced)'
  <2>1. CASE ListGroup
    BY <2>1 DEF ListGroup, procVars
  <2>2. CASE UNCHANGED <<lpc, lcur, llist>>
    <3>1. lcur \in Child /\ (kin[lcur] \subseteq llist \/ lcur \in raced) /\ lpc = "read"
      BY <1>2, <2>2, Typed DEF ReadingInv, PostTyped
    <3> QED
      BY <2>2, <3>1, Growing
  <2> QED
    BY <1>2, <2>1, <2>2, LauncherReadAfterList
<1> QED
  BY <1>1, <1>2 DEF ReadingInv

\* A group that was read and not seen is no stray.
LEMMA SeenIsGone ==
    ASSUME ReadingInv
    PROVE  /\ pc = "read" /\ SeenGone => cur \notin Stray
           /\ lpc = "read" /\ leader[lcur] # "live" /\ llist \cap kin[lcur] = {} => lcur \notin Stray
           /\ \A c \in Child : GroupGone(c) => c \notin Stray
<1>1. ASSUME pc = "read", SeenGone
      PROVE  cur \notin Stray
  <2>1. kin[cur] = {} \/ cur \in raced
    BY <1>1 DEF ReadingInv, SeenGone
  <2> QED
    BY <1>1, <2>1 DEF SeenGone, Stray, Alive
<1>2. ASSUME lpc = "read", leader[lcur] # "live", llist \cap kin[lcur] = {}
      PROVE  lcur \notin Stray
  <2>1. kin[lcur] = {} \/ lcur \in raced
    BY <1>2 DEF ReadingInv
  <2> QED
    BY <1>2, <2>1 DEF Stray, Alive
<1>3. \A c \in Child : GroupGone(c) => c \notin Stray
  BY DEF GroupGone, Stray, Alive
<1> QED
  BY <1>1, <1>2, <1>3

-----------------------------------------------------------------------------
(* Who knows of them.                                                      *)

\* Strays stay known when the launcher rests and the registry, in memory and
\* in the file, loses only a group that is gone.
LEMMA KnownToGenerate ==
    ASSUME TypeOK, StageInv, StrayInv, [Next]_vars, registered' = registered, UNCHANGED lVars,
           \/ entries \subseteq entries' /\ file' = file
           \/ \E c \in Child : c \notin Stray /\ entries' = entries \ {c} /\ file' = entries'
           \/ Stray = {} /\ entries' = entries
    PROVE  StrayInv'
<1>1. Stray' \subseteq Stray
  BY StrayShrinks
<1>2. UNCHANGED <<lpc, given, ltodo, complained>>
  BY DEF lVars
<1>3. Stray' \subseteq entries'
  BY <1>1 DEF StrayInv
<1>4. Stray' \subseteq IF file' = Absent THEN {} ELSE file'
  <2>1. CASE Stray = {} \/ file' = file
    BY <1>1, <2>1 DEF StrayInv
  <2>2. CASE file' = entries' /\ entries' \subseteq entries
    <3>1. entries' \in SUBSET Child
      BY <2>2, Typed DEF KeptTyped
    <3> QED
      BY <1>3, <2>2, <3>1, Children
  <2> QED
    BY <2>1, <2>2
<1>5. /\ lpc' \in {"kill", "next", "list", "read"} => Stray' \subseteq given'
      /\ lpc' \in {"next", "list", "read"} => Stray' \subseteq ltodo'
      /\ lpc' = "kill" /\ ltodo' = {} => given' = {}
      /\ lpc' \in {"killcli", "exited"} /\ ~complained' => Stray' = {}
  BY <1>1, <1>2 DEF StrayInv
<1> QED
  BY <1>3, <1>4, <1>5 DEF StrayInv

\* Steps of generate.
LEMMA GenerateKnows ==
    ASSUME TypeOK, StageInv, ReadingInv, StrayInv, [Next]_vars,
           Processes \/ Generate \/ Healthy \/ Deadline \/ Interrupt \/ Crash
    PROVE  StrayInv'
<1> USE DEF procVars, cliVars, lVars, others
<1>0. UNCHANGED lVars
  BY DEF Processes, Fork, LeaderExits, KinExits, Generate, Install, MakeRegistry, Spawn, Adopt,
         Record, WriteEntry, EnterBlock, ChildExited, Output, Check, Terminate, ListProc, ReadProc, Protect,
         Sweep, Finish, Healthy, Deadline, Overdue, GraceOver, KillOver, Interrupt, Raised, Crash
<1>1. CASE UNCHANGED <<entries, file, registered>>
  BY <1>0, <1>1, KnownToGenerate
<1>2. CASE MakeRegistry
  <2>1. Stray = {}
    BY <1>2 DEF StageInv, MakeRegistry, Stray
  <2>2. entries' = entries /\ registered' = registered
    BY <1>2 DEF MakeRegistry
  <2> QED
    BY <1>0, <2>1, <2>2, KnownToGenerate
<1>3. CASE Record
  <2>1. entries \subseteq entries' /\ file' = file /\ registered' = registered
    BY <1>3 DEF Record
  <2> QED
    BY <1>0, <2>1, KnownToGenerate
<1>4. CASE WriteEntry /\ ~UNCHANGED <<file, registered>>
  <2>1. /\ file' = entries /\ registered' = registered \cup {cur} /\ entries' = entries
        /\ pc = "write" /\ cur \in entries /\ lpc = "waiting"
    BY <1>4 DEF WriteEntry, StageInv, Starting
  <2>2. Stray' \subseteq entries'
    BY <2>1, StrayShrinks DEF StrayInv
  <2>3. Stray' \subseteq IF file' = Absent THEN {} ELSE file'
    BY <2>1, <2>2, Typed, Children DEF KeptTyped
  <2>4. lpc' = "waiting"
    BY <1>0, <2>1
  <2> QED
    BY <2>2, <2>3, <2>4 DEF StrayInv
<1>5. CASE ReadProc
  <2>1. CASE SeenGone /\ entries' = entries \ {cur} /\ file' = entries'
    <3>1. cur \in Child /\ cur \notin Stray /\ registered' = registered
      BY <1>5, <2>1, SeenIsGone, Typed DEF ReadProc, AtTyped
    <3> QED
      BY <1>0, <2>1, <3>1, KnownToGenerate
  <2> QED
    BY <1>1, <1>5, <2>1 DEF ReadProc, Stopped
<1>6. CASE \E c \in Child : Sweep(c)
  <2>1. PICK c \in Child : Sweep(c)
    BY <1>6
  <2>2. CASE GroupGone(c) /\ entries' = entries \ {c} /\ file' = entries'
    <3>1. c \notin Stray /\ registered' = registered
      BY <2>1, <2>2, SeenIsGone DEF Sweep
    <3> QED
      BY <1>0, <2>2, <3>1, KnownToGenerate
  <2> QED
    BY <1>1, <2>1, <2>2 DEF Sweep
<1>7. CASE Finish
  <2>1. CASE entries = {}
    <3>1. Stray = {} /\ entries' = entries /\ registered' = registered
      BY <1>7, <2>1 DEF StrayInv, Finish
    <3> QED
      BY <1>0, <3>1, KnownToGenerate
  <2> QED
    BY <1>1, <1>7, <2>1 DEF Finish
<1>8. CASE KillOver \/ Check
  BY <1>1, <1>8 DEF KillOver, Check, Stopped
<1> QED
  BY <1>1, <1>2, <1>3, <1>4, <1>5, <1>6, <1>7, <1>8
  DEF Processes, Fork, LeaderExits, KinExits, Generate, Install, Spawn, Adopt,
      WriteEntry, EnterBlock, ChildExited, Output, Terminate, ListProc, Protect,
      Healthy, Deadline, Overdue, GraceOver, Interrupt, Raised, Crash

\* Steps of the launcher: what it read from the file, it kills and looks for.
LEMMA LauncherKnows ==
    ASSUME TypeOK, StageInv, ReadingInv, StrayInv, [Next]_vars,
           Launcher \/ Forward \/ HardTimeout \/ StillThere
    PROVE  StrayInv'
<1> USE DEF procVars, cliVars, lVars, others
<1>1. entries' = entries /\ registered' = registered
  BY DEF Launcher, CliDone, Forward, HardTimeout, OpenRegistry, KillGroup, WaitGone, ListGroup, ReadGroup,
         StillThere, RemoveRegistry, KillCli
<1>2. Stray' \subseteq Stray
  BY <1>1, StrayShrinks
<1>3. Stray' \subseteq entries'
  BY <1>1, <1>2 DEF StrayInv
<1>4. CASE (CliDone \/ Forward \/ HardTimeout) /\ file' = file /\ lpc' \in {"open", "grace"}
  BY <1>2, <1>3, <1>4 DEF StrayInv
<1>5. CASE OpenRegistry
  <2>1. CASE file = Absent
    <3>1. Stray = {} /\ file' = file /\ lpc' \in {"killcli", "exited"}
      BY <1>5, <2>1 DEF StrayInv, OpenRegistry, Return
    <3>2. Stray' = {}
      BY <1>2, <3>1
    <3> QED
      BY <1>3, <3>1, <3>2 DEF StrayInv
  <2>2. CASE file # Absent
    <3>1. given' = file /\ ltodo' = file /\ lpc' = "kill" /\ file' = file /\ Stray \subseteq file
      BY <1>5, <2>2 DEF StrayInv, OpenRegistry
    <3> QED
      BY <1>2, <1>3, <2>2, <3>1 DEF StrayInv
  <2> QED
    BY <2>1, <2>2
<1>6. ASSUME NEW c \in Child, KillGroup(c)
      PROVE  StrayInv'
  <2>1. file' = file /\ given' = given /\ Stray \subseteq given
    BY <1>6 DEF StrayInv, KillGroup
  <2>2. CASE ltodo' = given /\ lpc' = "next"
    BY <1>2, <1>3, <2>1, <2>2 DEF StrayInv
  <2>3. CASE ltodo # {c} /\ ltodo' = ltodo \ {c} /\ lpc' = lpc
    <3>1. ltodo' # {} /\ lpc' = "kill"
      BY <1>6, <2>3 DEF KillGroup
    <3> QED
      BY <1>2, <1>3, <2>1, <3>1 DEF StrayInv
  <2> QED
    BY <1>6, <2>2, <2>3 DEF KillGroup
<1>7. CASE (\E c \in Child : WaitGone(c)) \/ ListGroup
  <2>1. UNCHANGED <<file, given, ltodo>> /\ lpc \in {"next", "list"} /\ lpc' \in {"list", "read"}
    BY <1>7 DEF WaitGone, ListGroup
  <2> QED
    BY <1>2, <1>3, <2>1 DEF StrayInv
<1>8. CASE ReadGroup
  <2>1. file' = file /\ given' = given /\ lpc = "read" /\ lpc' \in {"list", "next"}
    BY <1>8 DEF ReadGroup
  <2>2. Stray \subseteq ltodo'
    <3>1. CASE ltodo' = ltodo
      BY <2>1, <3>1 DEF StrayInv
    <3>2. CASE ltodo' # ltodo
      <4>1. ltodo' = ltodo \ {lcur} /\ lcur \notin Stray
        BY <1>8, <3>2, SeenIsGone DEF ReadGroup
      <4> QED
        BY <2>1, <4>1 DEF StrayInv
    <3> QED
      BY <3>1, <3>2
  <2> QED
    BY <1>2, <1>3, <2>1, <2>2 DEF StrayInv
<1>9. CASE StillThere
  <2>1. file' = file /\ complained' = TRUE /\ lpc' \in {"killcli", "exited"}
    BY <1>9 DEF StillThere, Return
  <2> QED
    BY <1>2, <1>3, <2>1 DEF StrayInv
<1>10. CASE RemoveRegistry
  <2>1. Stray = {}
    BY <1>10 DEF StrayInv, RemoveRegistry
  <2>2. Stray' = {} /\ lpc' \in {"killcli", "exited"}
    BY <1>2, <1>10, <2>1 DEF RemoveRegistry, Return
  <2> QED
    BY <2>2 DEF StrayInv
<1>11. CASE KillCli
  <2>1. file' = file /\ complained' = complained /\ lpc = "killcli" /\ lpc' = "exited"
    BY <1>11 DEF KillCli
  <2> QED
    BY <1>2, <1>3, <2>1 DEF StrayInv
<1> QED
  BY <1>4, <1>5, <1>6, <1>7, <1>8, <1>9, <1>10, <1>11 DEF Launcher, CliDone, Forward, HardTimeout

\* Every step leaves the strays known.
LEMMA StepKnown ==
    ASSUME TypeOK, StageInv, ReadingInv, StrayInv, [Next]_vars
    PROVE  StrayInv'
<1>1. CASE UNCHANGED vars
  <2>1. registered' = registered /\ entries' = entries /\ file' = file /\ UNCHANGED lVars
    BY <1>1 DEF vars, others
  <2> QED
    BY <2>1, KnownToGenerate
<1> QED
  BY <1>1, GenerateKnows, LauncherKnows DEF Next

\* At first there are none.
LEMMA InitKnown ==
    ASSUME Init
    PROVE  ReadingInv /\ StrayInv
  BY DEF Init, ReadingInv, StrayInv, Stray

\* Groups that may run stay known to whoever has to stop them.
LEMMA StrayKnown == Spec => [](StageInv /\ ReadingInv /\ StrayInv)
  BY TypeCorrect, InitStage, StepStage, InitKnown, StepReading, StepKnown, PTL DEF Spec

\* A child comes off the registry only when its whole group is gone, unless it
\* forked while it was being read for, however the stop of it was interrupted.
THEOREM ForgottenIsGoneHolds == Spec => []ForgottenIsGone
<1>1. StrayInv => ForgottenIsGone
  BY DEF StrayInv, Stray, ForgottenIsGone
<1> QED
  BY <1>1, StrayKnown, PTL

\* When generate ends, however it ends, the registry file names every recorded
\* child that may still run.
THEOREM HandoffHolds == Spec => []Handoff
<1>1. StrayInv => Handoff
  BY DEF StrayInv, Stray, Handoff
<1> QED
  BY <1>1, StrayKnown, PTL

\* A launcher that exits without a complaint leaves no recorded group running,
\* at whatever step generate was killed or its grace period ran out.
THEOREM LauncherHonestHolds == Spec => []LauncherHonest
<1>1. StrayInv => LauncherHonest
  BY DEF StrayInv, Stray, LauncherHonest
<1> QED
  BY <1>1, StrayKnown, PTL
=============================================================================
