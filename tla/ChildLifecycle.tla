--------------------------- MODULE ChildLifecycle ---------------------------
(***************************************************************************)
(* The two programs a model request starts, llama-server and OpenCode, and *)
(* everyone who must stop them: OpenCodeRuntime.generate with its child    *)
(* registry and signal guard in cleanup_agent/runtime.py, and the launcher *)
(* of packaging/launcher/main.go, which waits for the command line program *)
(* and cleans up after it from the registry file.                          *)
(*                                                                         *)
(* Each child leads a process group of its own.  A group is its leader and *)
(* the processes (kin) the leader and its descendants fork.  A group is    *)
(* looked for in /proc in two steps, a listing and the reading of what was *)
(* listed, so that a process forked in between is not seen.  Deadlines are *)
(* actions of their own: they compete with the answer that is waited for.  *)
(*                                                                         *)
(* Process ids are not used again, and a reader of /proc that learns       *)
(* nothing of a process counts it as running.                              *)
(***************************************************************************)
EXTENDS Integers, FiniteSets

CONSTANTS
    server, client,  \* llama-server and OpenCode
    Kin,             \* names of the processes a group may fork
    MaxForks,        \* bound: forks of both groups together
    Absent           \* there is no registry file

Child == {server, client}

ASSUME ChildAssumption == server # client /\ MaxForks \in Nat /\ \A C \in SUBSET Child : Absent # C

VARIABLES
    leader,      \* state of the leader: none, live, zombie (not waited for) or reaped
    kin,         \* other live processes of the group
    killed,      \* groups that were sent SIGKILL
    forks,
    pc, cur,     \* generate: control state, and the child it deals with
    job,         \* the stop in progress: does it forget the child, attempts, phase
    listed,      \* kin named by the last listing of /proc
    guard,       \* _SignalGuard: default, armed or ignored
    failed,      \* an exception is on its way
    todo,        \* entries cleanup_remaining has still to look at
    outcome,     \* of generate: none, text, error or retained
    entries,     \* _ChildRegistry.entries
    file,        \* children named by the registry file
    lpc,         \* launcher: control state
    hard,        \* its grace period has passed
    given,       \* children it read from the registry file
    ltodo,       \* children it has still to kill, then to wait for
    lcur, llist, \* child it waits for, kin named by its last listing
    complained,  \* cleanupRegistry returned an error
    registered,  \* history: children a registry file was written for
    raced        \* history: groups that forked while /proc was being read for them

procVars == <<leader, kin, killed, forks>>
cliVars  == <<pc, cur, job, listed, guard, failed, todo, outcome>>
lVars    == <<lpc, hard, given, ltodo, lcur, llist, complained>>
others   == <<lVars, registered, raced>>
vars     == <<procVars, cliVars, entries, file, others>>

Alive(c)     == leader[c] = "live" \/ kin[c] # {}
GroupGone(c) == leader[c] \in {"none", "reaped"} /\ kin[c] = {}
Ended        == pc \in {"done", "dead"}
Reaped(c)    == [leader EXCEPT ![c] = IF @ = "zombie" THEN "reaped" ELSE @]

TypeOK ==
    /\ leader \in [Child -> {"none", "live", "zombie", "reaped"}] /\ kin \in [Child -> SUBSET Kin]
    /\ killed \subseteq Child /\ forks \in 0..MaxForks
    /\ pc \in {"start", "registry", "spawn", "adopt", "register", "write", "tail", "wait", "poll",
               "check", "term", "list", "read", "output", "cleanup", "sweep", "done", "dead"}
    /\ cur \in Child /\ listed \subseteq Kin /\ todo \subseteq Child
    /\ job \in [forget : BOOLEAN, tries : 1..2, phase : {"grace", "killed", "last"}]
    /\ guard \in {"default", "armed", "ignored"} /\ failed \in BOOLEAN
    /\ outcome \in {"none", "text", "error", "retained"}
    /\ entries \subseteq Child /\ (file = Absent \/ file \subseteq Child)
    /\ lpc \in {"waiting", "grace", "open", "kill", "next", "list", "read", "remove", "killcli", "exited"}
    /\ hard \in BOOLEAN /\ given \subseteq Child /\ ltodo \subseteq Child
    /\ lcur \in Child /\ llist \subseteq Kin /\ complained \in BOOLEAN
    /\ registered \subseteq Child /\ raced \subseteq Child

Init ==
    /\ leader = [c \in Child |-> "none"] /\ kin = [c \in Child |-> {}] /\ killed = {} /\ forks = 0
    /\ pc = "start" /\ cur = server /\ job = [forget |-> FALSE, tries |-> 1, phase |-> "grace"]
    /\ listed = {} /\ guard = "default" /\ failed = FALSE /\ todo = {} /\ outcome = "none"
    /\ entries = {} /\ file = Absent
    /\ lpc = "waiting" /\ hard = FALSE /\ given = {} /\ ltodo = {} /\ lcur = server /\ llist = {}
    /\ complained = FALSE /\ registered = {} /\ raced = {}

-----------------------------------------------------------------------------
(* The children.  A group that was sent SIGKILL no longer forks; its       *)
(* processes may still take their time to go.                              *)

Fork(c) ==
    /\ Alive(c) /\ c \notin killed /\ forks < MaxForks
    /\ \E k \in Kin \ kin[c] : kin' = [kin EXCEPT ![c] = @ \cup {k}]
    /\ forks' = forks + 1
    /\ raced' = IF (pc = "read" /\ cur = c) \/ (lpc = "read" /\ lcur = c)
                THEN raced \cup {c} ELSE raced
    /\ UNCHANGED <<leader, killed, cliVars, entries, file, lVars, registered>>

LeaderExits(c) ==
    /\ leader[c] = "live" /\ leader' = [leader EXCEPT ![c] = "zombie"]
    /\ UNCHANGED <<kin, killed, forks, cliVars, entries, file, others>>

KinExits(c) ==
    /\ \E k \in kin[c] : kin' = [kin EXCEPT ![c] = @ \ {k}]
    /\ UNCHANGED <<leader, killed, forks, cliVars, entries, file, others>>

-----------------------------------------------------------------------------
(* _stop_process_group and _stop_and_forget, and the way an exception      *)
(* takes through the finally blocks of generate.                           *)

StopOnceMore(c, tries) ==  \* mutated form: one attempt too many
    cur' = c /\ pc' = "check" /\ job' = [forget |-> TRUE, tries |-> tries + 1, phase |-> "grace"]

Stop(c, tries) ==
    cur' = c /\ pc' = "check" /\ job' = [forget |-> TRUE, tries |-> tries, phase |-> "grace"]

\* _stop_process_group without the registry: the except clauses of register.
Abort == cur' = cur /\ pc' = "term" /\ job' = [forget |-> FALSE, tries |-> 1, phase |-> "grace"]

\* Where an exception raised at pc continues.  A second attempt to stop the
\* client waits in its finally block even when the first is interrupted.
Unwind ==
    /\ failed' = TRUE
    /\ IF pc \in {"register", "write"} THEN Abort
       ELSE IF pc \in {"wait", "poll"} \/ job.tries = 2 THEN Stop(cur, 1)
       ELSE IF cur = client THEN Stop(server, 1)
       ELSE cur' = cur /\ job' = job /\ pc' = IF pc = "cleanup" THEN "done" ELSE "cleanup"
    /\ outcome' = IF pc = "cleanup" THEN "error" ELSE outcome

\* The block that stopped cur ends.
Leave == IF cur = server THEN cur' = cur /\ job' = job /\ pc' = "cleanup"
         ELSE IF failed THEN Stop(server, 1) ELSE cur' = cur /\ job' = job /\ pc' = "output"

\* A stop returns.  Only a verified one takes the child off the registry.
Stopped(clean) ==
    /\ IF clean /\ job.forget
       THEN entries' = entries \ {cur} /\ file' = entries'
       ELSE UNCHANGED <<entries, file>>
    /\ IF ~clean /\ job.tries = 2 THEN Stop(cur, 1) ELSE Leave

Check ==
    /\ pc = "check" /\ leader' = Reaped(cur)
    /\ IF cur \in entries THEN pc' = "term" /\ UNCHANGED <<cur, job>> ELSE Leave
    /\ UNCHANGED <<kin, killed, forks, listed, guard, failed, todo, outcome, entries, file, others>>

\* SIGTERM.  A group that is gone already gets one last look.
Terminate ==
    /\ pc = "term" /\ pc' = "list"
    /\ job' = [job EXCEPT !.phase = IF GroupGone(cur) THEN "last" ELSE "grace"]
    /\ UNCHANGED <<procVars, cur, listed, guard, failed, todo, outcome, entries, file, others>>

ListProc ==
    /\ pc = "list" /\ pc' = "read" /\ listed' = kin[cur]
    /\ UNCHANGED <<procVars, cur, job, guard, failed, todo, outcome, entries, file, others>>

SeenLeaderGone == leader[cur] # "live"  \* mutated form: descendants are not looked for

SeenGone == leader[cur] # "live" /\ listed \cap kin[cur] = {}

ReadProc ==
    /\ pc = "read" /\ leader' = Reaped(cur) /\ listed' = {}
    /\ \/ SeenGone /\ Stopped(TRUE)
       \/ /\ job.phase # "last" /\ pc' = "list" /\ UNCHANGED <<cur, job, entries, file>>
       \/ job.phase = "last" /\ Stopped(FALSE)
    /\ UNCHANGED <<kin, killed, forks, guard, failed, todo, outcome, others>>

\* The grace period ends in SIGKILL, the second after it in a last look.
GraceOver ==
    /\ pc \in {"list", "read"} /\ job.phase = "grace"
    /\ killed' = IF GroupGone(cur) THEN killed ELSE killed \cup {cur}
    /\ pc' = "list" /\ job' = [job EXCEPT !.phase = "killed"] /\ listed' = {}
    /\ UNCHANGED <<leader, kin, forks, cur, guard, failed, todo, outcome, entries, file, others>>

KillOver ==
    /\ pc \in {"list", "read"} /\ job.phase = "killed" /\ leader' = Reaped(cur) /\ listed' = {}
    /\ IF leader[cur] = "live" THEN Stopped(FALSE)
       ELSE /\ pc' = "list" /\ job' = [job EXCEPT !.phase = "last"]
            /\ UNCHANGED <<cur, entries, file>>
    /\ UNCHANGED <<kin, killed, forks, guard, failed, todo, outcome, others>>

-----------------------------------------------------------------------------
(* generate.                                                               *)

Install ==
    /\ pc = "start" /\ guard' = "armed" /\ pc' = "registry"
    /\ UNCHANGED <<procVars, cur, job, listed, failed, todo, outcome, entries, file, others>>

MakeRegistry ==
    /\ pc = "registry"
    /\ \/ file' = {} /\ pc' = "spawn" /\ UNCHANGED <<cur, job, failed, outcome>>
       \/ Unwind /\ UNCHANGED file
    /\ UNCHANGED <<procVars, listed, guard, todo, entries, others>>

Spawn ==
    /\ pc = "spawn"
    /\ \/ /\ leader' = [leader EXCEPT ![cur] = "live"] /\ pc' = "adopt"
          /\ UNCHANGED <<cur, job, failed, outcome>>
       \/ Unwind /\ UNCHANGED leader
    /\ UNCHANGED <<kin, killed, forks, listed, guard, todo, entries, file, others>>

\* register: a child that has exited already is not recorded.
Adopt ==
    /\ pc = "adopt" /\ leader' = Reaped(cur)
    /\ pc' = IF leader[cur] = "live" THEN "register" ELSE "tail"
    /\ UNCHANGED <<kin, killed, forks, cur, job, listed, guard, failed, todo, outcome, entries, file,
                   others>>

\* Its identity is read from /proc, or cannot be verified.
Record ==
    /\ pc = "register"
    /\ \/ /\ entries' = entries \cup {cur} /\ pc' = "write"
          /\ UNCHANGED <<cur, job, failed, outcome>>
       \/ Unwind /\ UNCHANGED entries
    /\ UNCHANGED <<procVars, listed, guard, todo, file, others>>

WriteEntry ==
    /\ pc = "write"
    /\ \/ /\ file' = entries /\ registered' = registered \cup {cur} /\ pc' = "tail"
          /\ UNCHANGED <<cur, job, failed, outcome>>
       \/ Unwind /\ UNCHANGED <<file, registered>>
    /\ UNCHANGED <<procVars, listed, guard, todo, entries, lVars, raced>>

\* The lines between register and the block that stops the child.
EnterBlock ==
    /\ pc = "tail" /\ pc' = IF cur = server THEN "wait" ELSE "poll"
    /\ UNCHANGED <<procVars, cur, job, listed, guard, failed, todo, outcome, entries, file, others>>

Healthy ==
    /\ pc = "wait" /\ leader[server] = "live" /\ cur' = client /\ pc' = "spawn"
    /\ UNCHANGED <<procVars, job, listed, guard, failed, todo, outcome, entries, file, others>>

\* The child that is waited for has exited: an error for the server.
ChildExited ==
    /\ pc \in {"wait", "poll"} /\ leader[cur] # "live" /\ leader' = Reaped(cur)
    /\ failed' = (cur = server) /\ Stop(cur, 1)
    /\ UNCHANGED <<kin, killed, forks, listed, guard, todo, outcome, entries, file, others>>

OverdueServerOnly ==  \* mutated form: no deadline for the client
    /\ pc = "wait" /\ failed' = TRUE /\ Stop(cur, 1)
    /\ UNCHANGED <<procVars, listed, guard, todo, outcome, entries, file, others>>

\* The server is not healthy in time; the client is not done in time or
\* writes too much.  The client is then stopped before and after the raise.
Overdue ==
    /\ pc \in {"wait", "poll"} /\ failed' = TRUE /\ Stop(cur, IF cur = client THEN 2 ELSE 1)
    /\ UNCHANGED <<procVars, listed, guard, todo, outcome, entries, file, others>>

\* Status, error events and text of the client are accepted or not.
Output ==
    /\ pc = "output" /\ failed' \in BOOLEAN /\ Stop(server, 1)
    /\ UNCHANGED <<procVars, listed, guard, todo, outcome, entries, file, others>>

Protect ==
    /\ pc = "cleanup" /\ guard' = "ignored" /\ todo' = entries /\ pc' = "sweep"
    /\ UNCHANGED <<procVars, cur, job, listed, failed, outcome, entries, file, others>>

\* cleanup_remaining.  Nothing waits for a leader it kills, so that leader
\* stays a zombie and its group exists until the second is over.
Sweep(c) ==
    /\ pc = "sweep" /\ c \in todo /\ todo' = todo \ {c}
    /\ IF leader[c] = "live" THEN killed' = killed \cup {c} ELSE UNCHANGED killed
    /\ IF GroupGone(c) THEN entries' = entries \ {c} /\ file' = entries' ELSE UNCHANGED <<entries, file>>
    /\ UNCHANGED <<leader, kin, forks, pc, cur, job, listed, guard, failed, outcome, others>>

FinishAlways ==  \* mutated form: the registry file goes whatever is left in it
    /\ pc = "sweep" /\ todo = {} /\ pc' = "done" /\ guard' = "default" /\ file' = Absent
    /\ outcome' = IF failed THEN "error" ELSE "text"
    /\ UNCHANGED <<procVars, cur, job, listed, failed, todo, entries, others>>

Finish ==
    /\ pc = "sweep" /\ todo = {} /\ pc' = "done" /\ guard' = "default"
    /\ IF entries = {} THEN file' = Absent /\ outcome' = IF failed THEN "error" ELSE "text"
       ELSE outcome' = "retained" /\ UNCHANGED file
    /\ UNCHANGED <<procVars, cur, job, listed, failed, todo, entries, others>>

\* SIGINT or SIGTERM reaches the program inside generate: the first is raised
\* where it arrives, all later ones are ignored.
Raised == guard = "armed" /\ ~Ended /\ guard' = "ignored" /\ Unwind /\ UNCHANGED <<listed, todo>>

Interrupt == Raised /\ UNCHANGED <<procVars, entries, file, others>>

\* The program is killed, for example when memory runs out.
Crash ==
    /\ ~Ended /\ pc' = "dead"
    /\ UNCHANGED <<procVars, cur, job, listed, guard, failed, todo, outcome, entries, file, others>>

-----------------------------------------------------------------------------
(* The launcher.                                                           *)

CliDone ==
    /\ lpc \in {"waiting", "grace"} /\ Ended /\ lpc' = "open"
    /\ UNCHANGED <<procVars, cliVars, entries, file, hard, given, ltodo, lcur, llist, complained,
                   registered, raced>>

Forward ==
    /\ lpc = "waiting" /\ lpc' = "grace"
    /\ \/ Raised
       \/ guard = "default" /\ ~Ended /\ pc' = "dead"
          /\ UNCHANGED <<cur, job, listed, guard, failed, todo, outcome>>
       \/ (guard = "ignored" \/ Ended) /\ UNCHANGED cliVars
    /\ UNCHANGED <<procVars, entries, file, hard, given, ltodo, lcur, llist, complained, registered,
                   raced>>

HardTimeout ==
    /\ lpc = "grace" /\ lpc' = "open" /\ hard' = TRUE
    /\ UNCHANGED <<procVars, cliVars, entries, file, given, ltodo, lcur, llist, complained, registered,
                   raced>>

\* cleanupRegistry returns.
Return(error) == complained' = error /\ lpc' = IF hard THEN "killcli" ELSE "exited"

OpenRegistry ==
    /\ lpc = "open"
    /\ IF file = Absent THEN Return(FALSE) /\ UNCHANGED <<given, ltodo>>
       ELSE given' = file /\ ltodo' = file /\ lpc' = "kill" /\ UNCHANGED complained
    /\ UNCHANGED <<procVars, cliVars, entries, file, hard, lcur, llist, registered, raced>>

\* procIdentity of a leader that is gone, or a zombie without exe, does not
\* exist: the entry is passed over.
KillGroup(c) ==
    /\ lpc = "kill" /\ c \in ltodo
    /\ killed' = IF leader[c] = "live" THEN killed \cup {c} ELSE killed
    /\ IF ltodo = {c} THEN ltodo' = given /\ lpc' = "next" ELSE ltodo' = ltodo \ {c} /\ lpc' = lpc
    /\ UNCHANGED <<leader, kin, forks, cliVars, entries, file, hard, given, lcur, llist, complained,
                   registered, raced>>

WaitGone(c) ==
    /\ lpc = "next" /\ c \in ltodo /\ lcur' = c /\ lpc' = "list"
    /\ UNCHANGED <<procVars, cliVars, entries, file, hard, given, ltodo, llist, complained, registered,
                   raced>>

ListGroup ==
    /\ lpc = "list" /\ llist' = kin[lcur] /\ lpc' = "read"
    /\ UNCHANGED <<procVars, cliVars, entries, file, hard, given, ltodo, lcur, complained, registered,
                   raced>>

ReadGroup ==
    /\ lpc = "read"
    /\ IF leader[lcur] = "live" \/ llist \cap kin[lcur] # {}
       THEN lpc' = "list" /\ UNCHANGED ltodo
       ELSE ltodo' = ltodo \ {lcur} /\ lpc' = "next"
    /\ UNCHANGED <<procVars, cliVars, entries, file, hard, given, lcur, llist, complained, registered,
                   raced>>

StillThereIgnored ==  \* mutated form: the end of the wait counts as success
    /\ lpc \in {"list", "read"} /\ Return(FALSE)
    /\ UNCHANGED <<procVars, cliVars, entries, file, hard, given, ltodo, lcur, llist, registered, raced>>

\* Three seconds pass, or /proc cannot be read.
StillThere ==
    /\ lpc \in {"list", "read"} /\ Return(TRUE)
    /\ UNCHANGED <<procVars, cliVars, entries, file, hard, given, ltodo, lcur, llist, registered, raced>>

RemoveRegistry ==
    /\ \/ lpc = "next" /\ ltodo = {}
       \/ lpc = "kill" /\ ltodo = {}
    /\ file' = Absent /\ Return(FALSE)
    /\ UNCHANGED <<procVars, cliVars, entries, hard, given, ltodo, lcur, llist, registered, raced>>

KillCli ==
    /\ lpc = "killcli" /\ lpc' = "exited" /\ pc' = IF Ended THEN pc ELSE "dead"
    /\ UNCHANGED <<procVars, cur, job, listed, guard, failed, todo, outcome, entries, file, hard,
                   given, ltodo, lcur, llist, complained, registered, raced>>

-----------------------------------------------------------------------------

Processes == \E c \in Child : Fork(c) \/ LeaderExits(c) \/ KinExits(c)
Generate == \/ Install \/ MakeRegistry \/ Spawn \/ Adopt \/ Record \/ WriteEntry \/ EnterBlock
            \/ ChildExited \/ Output \/ Check \/ Terminate \/ ListProc \/ ReadProc
            \/ Protect \/ (\E c \in Child : Sweep(c)) \/ Finish
Deadline == Overdue \/ GraceOver \/ KillOver
Launcher == \/ CliDone \/ OpenRegistry \/ (\E c \in Child : KillGroup(c) \/ WaitGone(c))
            \/ ListGroup \/ ReadGroup \/ RemoveRegistry \/ KillCli

Next == \/ Processes \/ Generate \/ Healthy \/ Deadline \/ Interrupt \/ Crash
        \/ Launcher \/ Forward \/ HardTimeout \/ StillThere

\* Both programs are scheduled and clocks run.  A child need never answer,
\* exit or die.
Spec == Init /\ [][Next]_vars
        /\ WF_vars(Generate) /\ WF_vars(Deadline)
        /\ WF_vars(Launcher) /\ WF_vars(HardTimeout) /\ WF_vars(StillThere)

-----------------------------------------------------------------------------

\* A child comes off the registry (remove, after _stop_process_group or in
\* cleanup_remaining) only when its whole group is gone, descendants of a
\* leader that exited long ago included.  The exception is a group that
\* forked while /proc was being read for it: the reading may have missed
\* the new process.
ForgottenIsGone == \A c \in registered \ entries : Alive(c) => c \in raced

\* When generate ends, by a text, an error or an interrupt at any line, every
\* child register recorded that may still run is named by the registry file,
\* which is all the launcher has to find it.
Handoff == pc = "done" => \A c \in registered : Alive(c) => c \in raced \/ (file # Absent /\ c \in file)

\* When the launcher exits without reporting an incomplete cleanup, no
\* recorded group runs: whether generate ended, was killed at any step, or is
\* still unwinding and rewriting the registry when the grace period passes.
LauncherHonest == lpc = "exited" /\ ~complained => \A c \in registered : Alive(c) => c \in raced

\* The launcher ends, even if no child ever answers, exits or dies.
Ends == <>(lpc = "exited")

\* "every child is stopped as a process group on success, error, timeout, or
\* interruption" (the docstring of OpenCodeRuntime), unless generate says
\* that it could not verify that.
EveryChildStopped == pc = "done" /\ outcome # "retained" => \A c \in Child : ~Alive(c)

-----------------------------------------------------------------------------
(* What the properties rest on.                                            *)

\* Where generate still starts its children.
Starting == {"start", "registry", "spawn", "adopt", "register", "write", "tail", "wait", "poll"}

\* A child is started once and recorded once, the server before the client,
\* and neither after the program or the launcher began to end.
StageInv ==
    /\ pc \in {"start", "registry"} => cur = server /\ registered = {}
    /\ pc \in {"spawn", "adopt", "register", "write"} => cur \notin registered
    /\ pc \in Starting /\ cur = server => client \notin registered
    /\ pc = "wait" => cur = server
    /\ pc = "write" => cur \in entries
    /\ guard = "ignored" \/ lpc # "waiting" => pc \notin Starting

\* Recorded groups that may run and that no reading of /proc has missed.
Stray == {c \in registered : Alive(c)} \ raced

\* They are known at every moment to whoever has still to stop them: generate,
\* the registry file, and the launcher once it has read that file.
StrayInv ==
    /\ Stray \subseteq entries
    /\ Stray \subseteq IF file = Absent THEN {} ELSE file
    /\ lpc \in {"kill", "next", "list", "read"} => Stray \subseteq given
    /\ lpc \in {"next", "list", "read"} => Stray \subseteq ltodo
    /\ lpc = "kill" /\ ltodo = {} => given = {}
    /\ lpc \in {"killcli", "exited"} /\ ~complained => Stray = {}

\* What was listed holds every process of the group, unless it forked since.
ReadingInv ==
    /\ pc = "read" => kin[cur] \subseteq listed \/ cur \in raced
    /\ lpc = "read" => kin[lcur] \subseteq llist \/ lcur \in raced
=============================================================================
