# disk-cleanup-agent: specification

TLA+ modules for disk-cleanup-agent, the tool that inventories a disk, lets a
local model or a config point at candidates, and deletes what a user's consent
config and command line both approve. Source paths are relative to the
repository; line numbers are those of the commit the modules were written from.

## The system

| part | code | state it keeps | operations |
|---|---|---|---|
| deletion of one candidate | `cleanup_agent/safety.py` | the evidence of a recheck, the stack and descriptors of a walk | `inspect`, `_recheck`, `_unlink_tree`, `execute_delete` |
| consent and limits | `cleanup_agent/safety.py`, `cleanup_agent/cli.py` | consent config (read only), counters of a run (`run_state`) | `_approved`, `_required_checks`, the gates and accounting of `execute_delete` |
| apply command | `cleanup_agent/cli.py` | selected candidates, second scan, results | `command_apply` |
| planning | `cleanup_agent/cli.py` | inspections, rounds, time budget | `command_plan`, `command_manual_plan`, `_parse_model_round` |
| inventory | `cleanup_agent/inventory.py` | stack, totals, records, budgets | `scan` |
| consumer checks | `cleanup_agent/consumers.py` | none | `collect` and one function per consumer |
| model runtime | `cleanup_agent/runtime.py` | child registry (a file), two process groups, signal handlers, pipes | `OpenCodeRuntime.generate`, `_stop_process_group`, `_ChildRegistry` |
| output files | `cleanup_agent/cli.py` | temporary file, target | `_write_json` |
| launcher | `packaging/launcher/main.go` | extracted bundle, registry of children | `ensureBundle`, `run`, `cleanupRegistry` |
| scripts, CI, docs | `scripts/`, `.github/`, `docs/` | none | build and installation |

The parts interact by files and calls. `scan` writes a snapshot; `plan` and
`manual-plan` read it and write a plan with a checksum over the scan; `apply`
reads plan and consent config, scans again, and calls `execute_delete` for one
candidate after the other, passing the same `run_state` to every call.
`execute_delete` reads the whole tree (`inspect`), asks `/proc` who uses it, and
removes it with `_unlink_tree`, asking `/proc` again before every entry. The
runtime starts two child process groups and records them in a registry that the
launcher reads when the Python process is gone.

There are no threads in the core. What is hard is everything *around* it: other
programs act between any two system calls (files appear, change, are renamed,
linked or mounted over; processes open, inherit, close, hide and exit), the
deadline passes at any moment, a step fails half way, and several functions
read the same consent config with different rules.

What makes the parts correct:

* **deletion**: only what the recheck listed is removed, and only while it is what was
  recorded; nobody's open file disappears from under them more than once while they keep it
  where it is; the deadline holds; a success is whole, a rejection changed nothing; the walk
  ends.
* **consent and limits**: nothing without an approval of both config and
  command line; the required checks were run and clear; the limits of a
  category hold over a whole run, partly deleted candidates included.
* **apply**: exit code 0 means everything selected is gone; bytes are counted
  once even when candidates lie inside one another.
* **planning**: no candidate with unknown evidence is promoted; rounds and time
  are bounded; every candidate of the scan is an item of the plan.
* **inventory**: totals count each physical allocation once; everything that
  was not visited is marked; the budgets bound the work.
* **runtime and launcher**: no child survives unrecorded; no process group is
  signalled that is not the recorded child's; concurrent launchers never run an
  unverified bundle.
* **output files**: a reader sees the old content or the new, never a part.

## Modules

| module | models |
|---|---|
| `Host` | the machine: directories, nodes, processes and their references; the steps of other programs. External to the repository, as the code uses it |
| `DeleteTree` | the part of `execute_delete` that touches the machine; extends `Host` |
| `Clearance` | what a deletion promises, without saying how |
| `MCDeleteTree` | four small trees for `DeleteTree` |
| `DeleteTreeProofs`, `DeleteTreeSafety` | theorems about `DeleteTree`: types, deadline and references; what is removed, the verdict, the refinement |
| `ApplyRun` | one run of `apply`: consent, selection, gates, accounting, report |
| `MCApplyRun` | small plans and configs for `ApplyRun` |
| `ApplyRunProofs` | theorems about `ApplyRun` |
| `ConsumerChecks` | what each optional check makes of the answers it gets, and the status `inspect` derives from them |
| `PlanRounds` | the command `plan`: inspections, time budget, rounds with the model, the plan, the writing of the output file; extends `ConsumerChecks` |
| `MCPlanRounds` | small snapshots, budgets and machines for `PlanRounds` |
| `PlanRoundsProofs` | theorems about `PlanRounds` |
| `InventoryScan` | `scan` over a tree that other programs change |
| `MCInventoryScan` | small trees and caps for `InventoryScan` |
| `InventoryScanProofs` | theorems about `InventoryScan` |
| `ChildLifecycle` | the two children of a model request, `generate` and its registry, and the launcher that cleans up after it |
| `MCChildLifecycle` | its instance |
| `ChildLifecycleProofs` | theorems about `ChildLifecycle` |
| `LauncherBundle` | concurrent launchers and the bundle they share |
| `MCLauncherBundle` | what may lie at the path of the bundle before them |
| `LauncherBundleProofs` | theorems about `LauncherBundle` |
| `FiniteFacts` | lemmas about finite sets and sums the proofs share |

### Host and DeleteTree

An entry is an inode reached by a name in a directory (`tree`); a node has a kind, an owner
(standing for uid, gid and mode; `Uid` is the part `_tree_evidence` compares), a version
(standing for size, mtime and ctime) and blocks; the link count is computed. `StatOf` is what
`stat` returns. A node kind of its own, `mount`, stands for everything on another device.
`refs` are triples of a process, the way it holds something and what it holds: its command
line and working directory lead to the path, its mappings and each of its descriptors to an
inode. A process may acquire, move, duplicate, inherit and close references one at a time.

`DeleteTree` has one action per system call or group of calls with nothing in
between, named after its place in the code:

| action | code |
|---|---|
| `Inspect`, `TreeEntry`, `TreeList`, `TreeDone` | `inspect`, `_tree_evidence` (safety.py:376, 317) |
| `CheckBegin`, `ScanSelf`, `CheckEnd` | `check_live_references` (611) and the loop over the processes of `_proc_evidence` (203) |
| `ReadCmdline`, `ReadCwd`, `ReadMaps`, `ListFds`, `StatFd` | the reads of one process, in their order (224-292); every descriptor is followed by itself |
| `OpenParent` | the parent is opened component by component (582-609) |
| `StatRoot`, `Pop`, `StatDir`, `OpenDir` | the walk down (623-675) |
| `ListDir`, `StatChild`, `ScanDir` | a directory is listed, its entries are looked at one by one, then sorted into files and directories (676-702) |
| `StatFile`, `RestatFile`, `UnlinkFile`, `FilesDone` | the files of a directory (703-737) |
| `StatPost`, `RestatPost`, `RemoveDir` | a directory after its contents (652-664) |
| `DeadlinePasses` | `max_delete_milliseconds` |

Abstractions. Gathering evidence has no effects, so the model stops at the first fact that
rejects the candidate where the code collects all. The order in which `_tree_evidence` takes
paths is left open (`pending` is a set). Lookups by path go through `Resolve` and `Follow`, so
a component replaced by a link leads elsewhere; lookups by descriptor do not. `OpenParent` may
fail at any time, which covers `parent_unavailable` and `parent_path_changed`. The mount
table, read once, is subsumed by the device comparison: a mount point is never the same
object. Whatever cannot be read of a process, and exceeding one of the budgets of
`_proc_evidence`, is `Hidden`, which `MayHide` permits at each read. Errors of `stat` on a
descriptor other than a missing or a forbidden one, which the code passes over
(safety.py:287), do not occur for the inodes of a local file system and are left out.
`SelfVisible` says whether `PROC_ROOT` lists the agent itself: TRUE is the real `/proc`, FALSE
is the empty table the tests put in its place. `SelfNamed` says whether the agent's command
line contains the candidate's path.

The history variables `removed`, `overtime` and `late` record what properties
speak of and guard nothing. The last two are capped at 2, enough to tell "at most
one" from "more".

README.md:60 of the repository leaves one window open, between the last `stat`
and the call that removes. Properties of what is removed except exactly that
window (`Raced`).

### ApplyRun

A candidate is a name with the identity the plan recorded; candidates may lie
inside one another (`Inside`). `own` is what is allocated for each without those
inside it. A scenario is a plan with its config and command line; it is chosen
initially and never changes. Rules are `[id, covers, valid, maxCount, maxBytes,
checks]`: `covers` stands for parent, basename and prefix, `valid` for the list of
checks at the end of `_approved`. An approval of a path says how its identity compares
with the candidate's (`match`): as a whole, in the nine fields of `_same_identity` only
(it has a key besides), or not at all. `_approved` asks for the nine fields, the command
line for the whole object, so that the two can disagree.

`RuleForCandidate`, `Approved`, `RuleOf`, `Required`, `Collected` and `Planned` are
the functions of the code over the config, kept apart as the code keeps them.
`Recheck` is the gate of `execute_delete` seen from outside: it may always reject
(evidence, age, owner), and passes only with an approval, the demanded checks
clear, and room in the limits. `UnlinkAll` and `UnlinkSome` are `DeleteTree` seen
from outside: everything, or any part. A replaced candidate is one that a check
rejects, so no action replaces it. `Raise` is an exception that `main` turns into
exit code 1, or one that escapes it; either ends the program without a report.
Writing the report to standard output and to a file are one action that may fail.

### ConsumerChecks and PlanRounds

`Machine` says what the sources of the checks hold (`refs`, `mentioned`, `tracked`)
and, separately, how they answer: a command ends in output or in one of the reasons
`_run` distinguishes. Each check of `consumers.py` is an operator from such a machine
to clear, in_use or unknown; `Status` is how `inspect` combines them with its own
evidence. References of docker and pm2 are named by where they lie seen from the path,
which is all `_matches_path` looks at, and by how they are given: one whose resolution
fails overlaps nothing, a relative one is not taken for a path, and mounts or an
environment of another form are passed over. A mention is in a file `rg` reads or in one
it does not (above one megabyte, in `.git`, ignored, binary).

`Used` is the reference, what is really there *as far as the sources reach*: a path in the
mounts and processes the checks look at, a mention in a file `rg` reads, a tracked file.
`Truthful` is what is assumed of the sources: a command that succeeds prints what it
covers. Beyond their reach a path can be in use with every check clear, which
consumers.py:3 says itself; TLC runs machines of that kind too, and no property claims
anything for them.

| action of `PlanRounds` | code (cli.py) |
|---|---|
| `RefuseScan`, `Start` | the checks of the snapshot and the quota of inspections in advance |
| `Preinspect`, `PreinspectionEnds` | the loop over the largest candidates, while the reserve fits |
| `TooLate`, `Ask` | the time left, split into the server's start and the answer |
| `Rejected`, `FinalAnswer`, `AskedTooMuch`, `RequestInspections` | `_parse_model_round` and what `command_plan` does with its result |
| `InspectWanted` | one inspection the model asked for |
| `InspectionRaises` | an inspection ends the command with an error (364-373) |
| `PrintPlan`, `Create`, `CreateFails`, `Fill`, `Replace`, `Link`, `WriteFails`, `Unlink`, `UnlinkFails` | `_write_json` (53-73) and the exit code |
| `Tidy`, `TidyFails` | its `finally` (74-77) |
| `Crash`, `OtherWriter` | the command is killed; others write or remove the output file, or remove the temporary one |

The model's answer is any answer: `FinalAnswer` takes any assessment the parser lets pass,
`Rejected` stands for every reason it has to refuse, citations of evidence included. Time is
counted in coarse units; an inspection takes anything up to the sum of its timeouts, a request
anything up to what it is given plus what stopping the children takes. That sum
(`MaxInspection`) is an idealisation: the commands and the scan of `/proc` have timeouts, the
walk over the candidate's tree in `inspect` is bounded by the number of its entries only.
`trouble` remembers whether a call of `_write_json` raised and whether it was an unlink.
`missed` and `judged`, `work` are history.

### InventoryScan

A tree binds fixed paths to inodes or to nothing. One action per `lstat` (`StatFails`,
`StatDirectory`, `StatFile`, `StatLink`), per listing (`Enumerate`, any order, cut where
the budget of entries cuts it), and per second visit of a directory (`Post`); `Rank` is
everything after the loop. `Barrier` lists the reasons not to go down, in the order of
the code. Between two of them other programs move a subtree away, create a file, an
empty directory or a further name, or let a file grow (`MoveAway`, `Appear`, `Grow`).
`touched` remembers what they changed, so that properties can speak of the rest of the
tree while it happens. The reference values (`Blocks`, `Subtree`) are computed from the
tree, not from the walk. What `inspect` finds of a candidate is left to `DeleteTree`.

### ChildLifecycle

A group is a leader, in one of four states, and the live processes it forked (`kin`).
Reading `/proc` for a group is two steps, a listing (`ListProc`, `ListGroup`) and the
reading of what was listed; a group that forks in between is remembered in `raced`.

| action | code |
|---|---|
| `Install`, `MakeRegistry`, `Spawn`, `Adopt`, `Record`, `WriteEntry`, `EnterBlock` | the way into `generate` and `_ChildRegistry.register` (runtime.py) |
| `Healthy`, `ChildExited`, `Overdue`, `Output` | waiting for the server, waiting for the client, accepting its output |
| `Check`, `Terminate`, `ListProc`, `ReadProc`, `GraceOver`, `KillOver` | `_stop_and_forget` and `_stop_process_group` |
| `Protect`, `Sweep`, `Finish` | the last `finally`: signals are ignored, `cleanup_remaining`, the registry file goes or is retained |
| `Interrupt`, `Crash` | a signal where it arrives; the program is killed |
| `Forward`, `HardTimeout`, `CliDone`, `KillCli` | `run` of the launcher (main.go) |
| `OpenRegistry`, `KillGroup`, `WaitGone`, `ListGroup`, `ReadGroup`, `StillThere`, `RemoveRegistry` | `cleanupRegistry` |

`Unwind` is the way of an exception through the nested `finally` blocks: which child is
stopped next depends on where it was raised, and a second attempt at the client waits
even when the first is interrupted. Deadlines are actions that compete with the answer
waited for. An HTTP answer of the server, a line of output and the size of the output
are not data: the waits end well, badly or by their deadline.

### LauncherBundle

The directory at the path (`bundle`) and the contents of every directory (`holds`) are apart,
so that a launcher that opened a directory goes on removing that one while another lies at the
path. Reading the marker, hashing each part, `Lstat`, opening, removing part by part,
extracting part by part, the marker and the two halves of the rename are steps of their own
(Go's `os.Rename` first refuses any directory at its target, then calls `rename`, which
replaces an empty one); `Kill` may follow any of them. `raced` marks the one step in which a
launcher opens for removal another directory than the one it had looked at.

## Runs

| run | question | instance |
|---|---|---|
| `walk_fs` | what is removed while other programs change the tree | 4 trees of up to 2 directories and 2 files, 1 outside file, 2 changes between any two system calls |
| `walk_proc` | who loses an open file, does the deadline hold, does the walk end, does it keep `Clearance` | a file and a directory with two files, 2 processes with 2 descriptor numbers, a mapping, a command line and a working directory, 2 acquisitions of a reference, processes may hide, the deadline may pass |
| `walk_table` | what the walk can remove when the agent is in the process table it reads | the trees of `walk_fs`, 1 change, the deadline may pass |
| `apply_run` | consent, limits, checks, accounting and exit code of whole runs | 3 candidates, one inside another, 7 rule lists, 4 approval lists, 3 item lists, 7 command lines, both kinds of plan, 2 units of growth |
| `plan_rounds` | what a plan may say, how long planning may take, what becomes of the output file | 3 candidates, 6 jobs (budgets too small, just enough, ample; partial and failed scans; both ways to write), machines on which one source at a time deviates, any answers, 1 step of others on the output file or the temporary one |
| `inventory` | totals, sizes, omissions and budgets of a scan | a root with 2 directories and 3 entries, every kind of entry, a shared file, mounts, another device, no mount table, 5 settings of the caps, 2 changes |
| `children` | who is left running, and who knows of it, when a request ends, is interrupted or is killed | both children, 1 fork, a signal or kill at any line, the launcher |
| `bundle` | what launchers run that start together | 3 launchers, 3 parts, 6 contents of the path before them, any of them killed or out of space |
| `self_reference` | expected violation, below | |
| `changed_since_recheck` | expected violation, below | |
| `duplicate_rule_ids` | expected violation, below | |
| `unrecorded_child` | expected violation, below | |

Properties of `walk_fs`: `TypeOK`; `RemovalsVerified` (removed inodes are of the
inventory and as recorded); `NothingShared` (no hard link is unlinked);
`CompleteWhenUndisturbed` (an undisturbed success removed the whole inventory and
reports its bytes); `VerdictHonest` (a rejection removed nothing that occupied
blocks, a success removed the candidate).

Properties of `walk_proc`: `HolderStops` (who acquires a reference and keeps it where it
is sees at most one more entry disappear); `OvertimeBounded` (at most one removal after
the deadline); `KeepsContract` (every behaviour is one of `Clearance`); `Terminates`.

`HolderStops` counts from the moment a process holds an inode *by one way*, a mapping or a
descriptor number. The code reads mappings before descriptors and follows those one by
one, so a process that moves what it holds from one way to another between two of these
reads, or hands it to a process already read, is missed by that check, and may be by
the next. The model has those behaviours; nothing is promised for them, and no document
of the repository does.

Properties of `walk_table`: `OnlyTheCandidate` (with the real process table nothing below
the candidate is ever removed); `UndisturbedOutcome` (if nothing interferes, a file or an
empty directory is deleted and every other candidate is refused whole, because the check
meets the agent's own descriptors).

Properties of `apply_run`: `TypeOK`; `LimitsKept`; `Authorised` (nothing under a
category that was not named, a rule that does not cover it, or a path nobody
approved); `ChecksHonoured`; `ExitHonest`; `FreedOnce`; `ChargedOnce`
(no candidate is charged to a category twice, nor after it went with a candidate around
it, however often a plan names it).

Properties of `plan_rounds`: `TypeOK`; `ReviewInspected` (what a plan calls fit for review was
inspected, every source could be asked, and nobody uses it as far as the sources reach,
whatever the model says); `CompleteMeansAll` (exit code 0 means that nothing was skipped on
the way); `OverrunBounded` (the budget is exceeded by one batch of inspections and the
stopping of the children at most); `InspectedOnce`; `OutputHonest` (never half a plan, not
even after a kill; a failure leaves neither a new plan nor a temporary file, unless an unlink
of the temporary file is what failed: after the link, at cli.py:72, the plan is in place by
then and the exit code is 1 all the same); `OutputKept` (without `--overwrite` no file is
replaced, also not one that appears meanwhile); `Ends`.

Properties of `inventory`: `TypeOK`; `WithinBudget` (counted and queued entries stay
within the budget, so that the check at inventory.py:181 is never met); `TotalsExact`
(an undisturbed complete scan counts every entry once and every block once);
`SizesExact` (in a complete scan a directory nobody touched is reported exactly when it
is large, with its true size, whatever happens elsewhere); `NothingMissed` (a scan that
calls itself complete met everything nobody touched).

Properties of `children`: `TypeOK`; `ForgottenIsGone` (a child comes off the registry only
when its whole group is gone); `Handoff` (when `generate` ends, every recorded child that
may still run is named by the registry file); `LauncherHonest` (a launcher that reports
no incomplete cleanup leaves no recorded group running, also when it killed a program
that was still unwinding); `Ends`.

Properties of `bundle`: `TypeOK`; `RunsWhole` (whoever starts the program has a whole
bundle, and keeps it, with two exceptions the property names); `Tidy`; `SomeoneStarts`
(launchers that get in one another's way do not all fail).

Definitions commented "mutated form" are unused by the specifications. Each is a
plausible bug in the definition after it; put in its place, the property it is meant
for fails, which `PROJECT.json` records for every property.

### Bounds

`walk_fs` and `walk_proc` run with `SelfVisible` = FALSE, in which a walk gets furthest: the
agent's own entry only makes checks refuse more. `walk_table` has it TRUE.

Two changes are enough for the pairs that matter: remove an entry and put another
in its place, rename and rename back, write twice. A tree with one subdirectory
and a file on each level has every kind of frame on the stack: pre and post visits,
files before and after subdirectories. `FdLimit` is small enough in `walk_fs` for
the walk to run out of descriptors. `walk_proc` changes no files (`MaxChanges` = 0),
so the changes of both runs are not combined; the theorems are for any combination.
In `apply_run`, three candidates and limits of one to three reach every gate
below, at and above its limit.

`plan_rounds` has the rounds, inspections per answer and inspections in advance of the code
(`MAX_INSPECT_ROUNDS`, `MAX_INSPECT_REFS_PER_ROUND` and `PREINSPECTION_CANDIDATE_LIMIT`, 2 each),
and answers of up to three items, which is all candidates there are; the code allows five.
Its times are small numbers in the order of the real ones, with the timeouts of an
inspection (`MaxInspection` = 4) above the reserve for one (`Reserve` = 2); in the code it is
50 seconds to 45. The difference is exaggerated so that an inspection that outlasts its
reserve leaves no room for the next within the small budgets. Machines deviate from a
silent one in a single source, in every way that source can: `collect` treats the six
answers alike, so that pairs add no case. `MCJobs` holds budgets below one request, for
one request and for several.

In `inventory` the caps are what the largest tree needs, and each cap just below.
Two changes move an entry from one directory to another in front of or behind the walk.
`children` has one process that either child may fork; with two of them and two forks
the same properties hold in 6.4 million states, too many for a regular run. `bundle` has
three launchers because a launcher whose rename fails looks for the bundle of a second,
which a third may be removing.

### Fairness

`FairSpec` of `DeleteTree` is weak fairness of `Agent`: the deletion is one thread and
the kernel schedules it. Nothing is assumed of other programs or the clock. The
safety properties need no fairness; `ApplyRun` and `InventoryScan` state none. The walk ends
because other programs can make it stop but not do more: the model bounds their
changes, and each directory is scanned once. `CHECK_DEADLOCK FALSE` is set where a
program ends.

`ChildLifecycle` assumes that both programs are scheduled (`Generate`, `Launcher`) and
that their clocks run (`Deadline`, `HardTimeout`, `StillThere`). Children owe nothing: they
need never answer, exit or die after SIGKILL, and no signal need come. `PlanRounds`
assumes weak fairness of `Command`, one thread whose inspections and requests all have
timeouts. `LauncherBundle` assumes it of every launcher for itself and not of `Kill`.

### What the violations show

* `self_reference` (`RefusalHasHolder`). The walker reads the process table it is
  itself in, and its own descriptor of the candidate directory is an inode of the
  inventory. The check before the first file, or before the first subdirectory is
  removed, therefore reports `active_process_reference_before_unlink`. Tests do not
  see it because they replace `PROC_ROOT`. `OnlyTheCandidate` shows the extent: with
  the real table only a file candidate or an empty directory is ever deleted. `UndisturbedOutcome`
  shows that nobody else need be there for it. When the path is on the agent's command
  line (`--approve-path`), even the recheck meets it.
* `changed_since_recheck` (`ChangedFilesSurvive`). Membership in the inventory is by
  device and inode number. A file written after the recheck recorded it and before its
  directory is scanned is deleted with its new content, though README.md:58 says that
  a change of a file stops the deletion.
* `duplicate_rule_ids` (`OwnLimits`). Nothing forbids two rules with one id.
  `_approved` validates the rule that matches, limits and checks come from the first
  rule with that id. `LimitsKept` and `ChecksHonoured` are stated for distinct ids.
* `unrecorded_child` (`EveryChildStopped`). Between `Popen` and the `try` around the child
  lies the call of `register`. A signal in between ends `generate` with the child
  running, unrecorded, and the registry file removed, so the launcher does not find it
  either. The other way to lose one is a child that exits before `register` looks: what
  it has started by then is in no registry. `Handoff` and `LauncherHonest` are therefore
  stated for children that were registered.

### What the models show besides

* `LauncherBundle`: a launcher that found no valid bundle removes whatever lies at the
  path when it gets there (main.go:271-278), also the bundle another has renamed into place
  and runs from. `RunsWhole` is false without `~raced`, which is TRUE in exactly
  those behaviours. Parts that `verifyBundle` does not hash (libraries, Python modules)
  may be missing from a bundle that is accepted: `silent`.
* `OverrunBounded`: the reserve of 45 seconds (cli.py:28-32) is smaller than the timeouts of
  one inspection with code roots added up (9 + 5 + 10 + 10 + 6 + 10 seconds), and inspections
  a model asks for are not measured against the budget at all. The bound is the overrun that
  is left.
* `PlanAssumption`: evidence in a snapshot has no answers of the optional checks, so that
  it has unknown marks or is unsafe. A model can therefore promote inspected candidates only.
* `Disagrees`: `_approved` compares nine fields of an identity (safety.py:472),
  `_configured_exact_approval` the whole object (cli.py:589). An approval with a key more
  than the nine makes a manual plan list its candidate as exactly approved, and every
  `apply` of that plan that selects it end in the error that the config no longer matches (cli.py:778),
  though it does. Nothing is deleted.
* `UnlinkFails`: exit code 1 of `plan` with the output file written (cli.py:72), above.
* The parser does not look at `identity_matches_scan` (cli.py:416): a clear inspection may be
  of another object than the scan's. A plan authorises nothing; `apply` compares identities.
* `WithinBudget`: the check at inventory.py:181 is dead code.

## Proofs

| theorem | statement |
|---|---|
| `DeleteTreeProofs!TypeCorrect` | `Spec => []TypeOK` |
| `DeleteTreeProofs!DeadlineHolds` | `Spec => []OvertimeBounded` |
| `DeleteTreeProofs!HoldersAreMet` | `Spec => []HolderStops` |
| `DeleteTreeSafety!RemovesWhatItRecorded` | `Spec => []RemovalsVerified` |
| `DeleteTreeSafety!SharedFilesStay` | `Spec => []NothingShared` |
| `DeleteTreeSafety!VerdictHolds` | `Spec => []VerdictHonest` |
| `DeleteTreeSafety!OnlyTheCandidateHolds` | `Spec => []OnlyTheCandidate` |
| `DeleteTreeSafety!CompleteHolds` | `Spec => []CompleteWhenUndisturbed` |
| `DeleteTreeSafety!ImplementsClearance` | `Spec => KeepsContract` |
| `ApplyRunProofs!TypeCorrect` | `Spec => []TypeOK` |
| `ApplyRunProofs!AuthorisedHolds` | `Spec => []Authorised` |
| `ApplyRunProofs!ChecksHonouredHolds` | `Spec => []ChecksHonoured` |
| `ApplyRunProofs!ChargedOnceHolds` | `Spec => []ChargedOnce` |
| `ApplyRunProofs!LimitsHold` | `Spec => []LimitsKept` |
| `ApplyRunProofs!FreedOnceHolds` | `Spec => []FreedOnce` |
| `ApplyRunProofs!ExitHonestHolds` | `Spec => []ExitHonest` |
| `PlanRoundsProofs!TypeCorrect` | `Spec => []TypeOK` |
| `PlanRoundsProofs!ReviewInspectedHolds` | `Spec => []ReviewInspected` |
| `PlanRoundsProofs!InspectedOnceHolds` | `Spec => []InspectedOnce` |
| `PlanRoundsProofs!CompleteMeansAllHolds` | `Spec => []CompleteMeansAll` |
| `PlanRoundsProofs!OverrunHolds` | `Spec => []OverrunBounded` |
| `PlanRoundsProofs!OutputHonestHolds` | `Spec => []OutputHonest` |
| `PlanRoundsProofs!OutputKeptHolds` | `Spec => OutputKept` |
| `InventoryScanProofs!TypeCorrect` | `Spec => []TypeOK` |
| `InventoryScanProofs!WithinBudgetHolds` | `Spec => []WithinBudget` |
| `InventoryScanProofs!NothingMissedHolds` | `Spec => []NothingMissed` |
| `InventoryScanProofs!TotalsExactHolds` | `Spec => []TotalsExact` |
| `InventoryScanProofs!SizesExactHolds` | `Spec => []SizesExact` |
| `LauncherBundleProofs!TypeCorrect` | `Spec => []TypeOK` |
| `LauncherBundleProofs!TidyHolds` | `Spec => []Tidy` |
| `LauncherBundleProofs!RunsWholeHolds` | `Spec => []RunsWhole` |
| `ChildLifecycleProofs!TypeCorrect` | `Spec => []TypeOK` |
| `ChildLifecycleProofs!ForgottenIsGoneHolds` | `Spec => []ForgottenIsGone` |
| `ChildLifecycleProofs!HandoffHolds` | `Spec => []Handoff` |
| `ChildLifecycleProofs!LauncherHonestHolds` | `Spec => []LauncherHonest` |

They hold for every value of the constants that meets the named assumptions: any tree,
any number of processes, candidates, rules, launchers, changes and references, any
limits and budgets. Type correctness is inductive together with a few facts about the
stack; the others need more than they say. Each invariant stands at the end of the module
it is about, and TLC checked it on the module's instances before it was proved.

### Assumptions

They are the `ASSUME`s of the modules, evaluated by TLC in every run.

* `Host`, `DeleteTree`: sizes are naturals, inodes are finitely many, the agent is not one of
  the other processes, every initial tree is well formed, in it no directory lies below itself
  and a directory has one name (`Hierarchy`), and the candidate's parent is a directory.
* `ApplyRun`: finitely many candidates, what is allocated for each is a natural number.
  `LimitsKept` and `ChecksHonoured` carry their own hypothesis, distinct ids of rules.
* `PlanRounds`: the ranking of candidates names each once (`IsInjective`, as the sorted list
  of the code does), an answer may ask for at least one inspection, evidence in a snapshot
  cannot be promoted unless inspected, and the sources of a machine are `Truthful`: what a
  command covers it prints, when it succeeds. What it does not cover is not assumed away.
* `InventoryScan`: the paths are finitely many, a directory precedes what lies in it in the
  lexical order of paths (a prefix does), and initially what exists lies in a directory and
  no directory has a second name.
* `LauncherBundle`, `ChildLifecycle`: names of launchers, parts and children are distinct.

### DeleteTree

* `OvertimeInv`: after a check that ended in time (`AfterCheck`), nothing was removed
  since the deadline. A removal leaves that phase, and the next check sees the clock.
* `HolderInv`: while a check runs, a reference that it has not met yet was there for no
  removal, or the read that meets it is still to come: its process, or of the process being
  read its way, or its descriptor in the list being followed (`Unmet`). When the check ends
  without a finding no tracked reference is older than the last removal. It needs that the
  check looks for the whole inventory.
* `ProvenanceInv`: everything the walker holds (stack, batch, current frame, target,
  last `stat`) is of the inventory, and between the last `stat` and the removal it agrees
  with what was recorded. `RemovalsVerified`, `NothingShared` and the refinement follow
  from it.
* `VerdictInv`: what the recheck recorded of the candidate is at the bottom of the stack,
  is the directory or file at hand, or is removed. The walk can therefore end with `ok`
  only after the candidate itself went.
* `RootInv` and `SelfInv`, for `OnlyTheCandidate`: every directory the walker holds open,
  but the candidate's parent, is of the inventory. The inventory has the candidate unless
  its path led elsewhere meanwhile, and then its version has grown or a mount lies over it
  (lemma `EntryFate`: versions only grow, mounts stay). So a check that reads the agent meets it.
* `UndisturbedInv`, for `CompleteWhenUndisturbed`, says nothing once the file system was
  changed by others. Until then `SurveyInv` says that what the survey records is what is
  there, and that every path it has still to visit leads to the candidate or to an entry of
  a directory it has recorded; the step from a path to a longer one is the lemma
  `ResolveAppend`, which proves that the fold behind `Resolve` has one solution. `RemainsInv`
  says that everything recorded and not removed lies in a directory recorded and not
  removed, up to the candidate: a directory goes only when it is empty. `TakenInv` says
  that what was removed has no name left (a file that may be unlinked had one link, a
  directory has one name), so it is counted once. When the candidate is gone, an entry that
  remained would have a way upwards among those that remain without end, which `Hierarchy`
  excludes. The order of the walk plays no part in the argument.

The refinement maps the walk to `Clearance`: `Phase` is deciding until the recheck has
ended, `approved` is the inventory, `cleared` holds between a check and the removal it
permits, `gone` is what the last `stat` saw of every removal. A removal is the step
Remove; most others stutter.

### ApplyRun

`InHand` ties the candidate at hand to its item, its identity and its place in the selection
(`SelectionInv`). `ConsentInv` says that its rule and approval were found by the functions of
the code, so that the gates of `execute_delete` and the selection agree. `CountersInv` relates
the counters of a rule to the candidates that were touched under it, `BytesInv` what the
entries report to what was allocated and is gone, `ReportInv` the exit code to the results.
`ChargeInv` says that selected candidates differ, that what was charged was dealt with before,
and that nothing of what went whole is there any more. Sums over candidates are
`SumFunctionOnSet` of the community modules. `FiniteFacts` proves what they need (a sum is
split, grows with its terms, is the sum of two sums): the recursion behind it has one
solution, by descent along subsets, so that neither an operator as parameter nor induction
over an operator is needed.

### PlanRounds

`RoundsInv` and `LimitedInv` say what a round has asked for and what has been inspected,
`EvidenceInv` that evidence with every source answering on a truthful machine means that
nobody uses the candidate within their reach (one lemma per check, `ClearUnused` for all of
them). `BudgetInv` bounds the time by what was spent plus the timeouts of the inspections
still wanted, and `WorkInv` their number. `FileInv` follows the output file and its temporary
file through `_write_json`, with what others and failed calls make of it.

### InventoryScan

`WithinBudget` is inductive with the types: a look at an entry takes one from the stack and
counts it, and a listing queues no more than `Room`. `CoverInv` says that while nothing was
skipped every present entry nobody touched was met, lies below a path that is queued, or
below the directory about to be listed. It rests on facts about `Above` that are proved
from the order of paths: it is defined for every path, is transitive, and on the way from a
directory down to anything below it lies an entry of that directory (`WayDown`).
`RecordInv` adds that a large file that was met has a record, and that a complete scan cuts
no record off.

The totals and the sizes need the order of the walk (`OnceInv`): a path is queued once and met
once, after the directory it lies in; what lies in an open directory (one that is to be visited
again) is above it on the stack. So a directory is closed when everything in it was met and
closed, and at any moment what has reached its sum is what was met below it with no open
directory in between (`Landed`). `SumsInv` says what the sums are while nothing was skipped:
there is a set `C` of paths that were credited, every directory and the first name of every
file, with one path for each inode nobody touched (`Credit`); the sum of a directory is the
weight of what has landed and was credited (`Sums`), and one that was closed has that sum in its
record (`Listed`). `C` is a witness, chosen anew at each step; the model need not
remember which name came first. At the end the sum over `C` is the sum over the inodes of what
is present, because `C` has each of them once (`FiniteFacts!SumImage`). `SizesExact` speaks of a
directory nobody touched (`Alone`) while others change the rest; a step of theirs keeps what
lies in it, its inodes and their sizes.

### LauncherBundle and ChildLifecycle

`TidyInv` says which launcher owns which extraction directory; `PathInv`, `SeenInv` and
`WholeInv` what a launcher may conclude from what it saw at the path: whoever runs from
there has a whole bundle until a launcher that looked at another one opens it for removal
(`raced`).

`StageInv` says which child is recorded at which line of `generate`; `Stray` is a group that
may live and is not recorded, which `StrayInv` allows only where the properties say so;
`ReadingInv` says what a reading of `/proc` in progress has established.

### Only model-checked

Liveness (`Terminates`, `UndisturbedOutcome`, `Ends` of both modules,
`SomeoneStarts`), which under fairness is out of the prover's reach. Every invariant and
every action property a passing run checks is a theorem. The four expected violations are
runs of TLC by nature.

## Not modelled

* `doctor` and `report`: they format what others recorded. Scripts and CI: sequential,
  stateless.
* Contents of files, names, JSON, checksums of plans. A checksum that does not match
  ends `apply` before it does anything.
* The age of a candidate and its owner in `ApplyRun`: reasons to reject.
* Planning: the prompt, the response schema and the wording of limitations; the model may answer
  anything. Reading the snapshot and the display of evidence of `manual-plan`.
* Inventory: regular files that are mount points, the sizes kept in sparse facts and the
  exit code `command_scan` adds.
* Runtime: reuse of process numbers (only the sweep and the launcher compare the identity of
  a leader before they signal its group), the contents of the pipes and the join of the
  threads that read them (runtime.py:839), the private directory. A model reply has no content.
* Output files: loss of power. The file is synchronised and its directory is not.
* Checks: pm2's daemon may end between the look at its socket and the question, which then
  starts a new one.
* Launcher: the choice of a runtime directory, the footer of the payload, the paths in the
  archive.

## Plan

Nothing of the safety properties is left to prove. What could follow: the parts of
`inspect` that promote a candidate without comparing its identity, and the reuse of process
numbers, each of which is listed above as not modelled or as a difference the models show.
