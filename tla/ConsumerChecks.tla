--------------------------- MODULE ConsumerChecks ---------------------------
(***************************************************************************)
(* The optional checks of cleanup_agent/consumers.py and how inspect of    *)
(* safety.py takes them up.  Every check asks one source, through external *)
(* commands or files, who refers to a path, and answers clear, in_use or   *)
(* unknown.                                                                *)
(*                                                                         *)
(* A machine is what the sources really hold (refs, mentioned, tracked)    *)
(* together with how they answer when asked.                               *)
(***************************************************************************)
EXTENDS FiniteSets

\* What _run makes of a command: output, or the reason why there is none.
Commands == {"ok", "missing", "timeout", "os_error", "too_long", "exit_1", "exit_n"}
Ran(command) == command = "ok"

\* Where a reference of a consumer lies, seen from the path, and how it is
\* given: as a path, as a relative one, as a path whose resolution fails, or
\* where the check looks for no path (mounts or an environment of another
\* form are passed over).
References == [place : {"itself", "inside", "above", "elsewhere"},
               given : {"path", "relative", "unresolvable", "other"}]
Overlaps(ref) == ref.given = "path" /\ ref.place \in {"itself", "inside", "above"}
Matches(refs) == \E ref \in refs : Overlaps(ref)

\* rg -F -l for one literal: names of files, none, or no answer.
Searches == {"found", "none", "timeout", "os_error", "too_long", "exit_n"}

Docker  == [list : Commands, count : {"none", "few", "many"}, inspect : Commands,
            form : {"containers", "other"}, refs : SUBSET References]
Pm2     == [socket : BOOLEAN, daemon : BOOLEAN, list : Commands,
            form : {"processes", "other"}, refs : SUBSET References]
\* Files searched for the path, and for its name if that is long enough.
\* mentioned: not at all, in a file that rg reads, or only where it does not
\* look (above one megabyte, in .git, ignored, binary, or by a short name).
Literal == [roots : BOOLEAN, rg : BOOLEAN, mentioned : {"no", "searched", "elsewhere"},
            first : Searches, second : Searches \cup {"short"}]
Git     == [marker : BOOLEAN, inside : BOOLEAN, toplevel : Commands, consistent : BOOLEAN,
            tracked : BOOLEAN, files : Commands]

\* core: what inspect finds itself, without the optional checks (DeleteTree).
Machine == [core : {"clear", "unsafe", "unknown"}, docker : Docker, pm2 : Pm2,
            systemd : Literal, cron : Literal, code : Literal, git : Git]

Verdict(read, found) == IF ~read THEN "unknown" ELSE IF found THEN "in_use" ELSE "clear"

docker_mounts(d) ==
    LET listed == Ran(d.list) /\ d.count # "many"
    IN  Verdict(listed /\ (d.count # "none" => Ran(d.inspect) /\ d.form = "containers"), Matches(d.refs))

\* Without a daemon pm2 is not asked: the command would start one.
pm2_processes(p) ==
    Verdict(p.socket /\ p.daemon /\ Ran(p.list) /\ p.form = "processes", Matches(p.refs))

LiteralExitIgnored(f) ==   \* mutated form: a failed search found nothing
    Verdict(f.roots /\ f.rg, "found" \in {f.first, f.second})
literal_files(f) ==
    Verdict(f.roots /\ f.rg /\ f.first \in {"found", "none"} /\ f.second \in {"found", "none", "short"},
            "found" \in {f.first, f.second})

\* A path in a repository that does not track it stays unknown.
git_state(g) ==
    IF g.marker THEN "in_use"
    ELSE IF g.inside THEN IF Ran(g.toplevel) /\ g.consistent /\ Ran(g.files) THEN "in_use" ELSE "unknown"
    ELSE "clear"

collect(m) == {docker_mounts(m.docker), pm2_processes(m.pm2), literal_files(m.systemd),
               literal_files(m.cron), literal_files(m.code), git_state(m.git)}

\* The status inspect gives a path; checks is what it was handed.
Status(core, checks) ==
    IF core = "unsafe" \/ "in_use" \in checks THEN "unsafe"
    ELSE IF core = "unknown" \/ checks # {"clear"} THEN "unknown" ELSE "clear"

\* What is really there, as far as the sources reach.  Beyond that a path may
\* be used and every check clear: consumers.py:3 says so.
Used(m) ==
    \/ m.core = "unsafe" \/ m.git.marker \/ m.git.tracked
    \/ \E ref \in m.docker.refs \cup m.pm2.refs : ref.given = "path" /\ ref.place # "elsewhere"
    \/ \E f \in {m.systemd, m.cron, m.code} : f.mentioned = "searched"

\* A command that succeeds tells what it covers: docker and pm2 all containers
\* and processes, rg the files it reads, git the tracked files.
Truthful(m) ==
    /\ m.docker.count = "none" => m.docker.refs = {}
    /\ \A f \in {m.systemd, m.cron, m.code} :
         f.mentioned = "searched" => f.first # "none" \/ f.second \notin {"none", "short"}
    /\ m.git.tracked => m.git.inside
    /\ Ran(m.git.toplevel) => m.git.inside
    /\ Ran(m.git.files) => m.git.tracked /\ Ran(m.git.toplevel) /\ m.git.consistent
=============================================================================
