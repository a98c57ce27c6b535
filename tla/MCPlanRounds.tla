---------------------------- MODULE MCPlanRounds ----------------------------
(***************************************************************************)
(* Small snapshots, budgets and machines for PlanRounds: three candidates, *)
(* and machines on which at most one source answers or holds other than    *)
(* nothing.                                                                *)
(***************************************************************************)
EXTENDS PlanRounds, TLC

CONSTANTS c1, c2, c3

Silent == [roots |-> TRUE, rg |-> TRUE, mentioned |-> "no", first |-> "none", second |-> "none"]
Calm == [core |-> "clear",
         docker |-> [list |-> "ok", count |-> "none", inspect |-> "ok", form |-> "containers", refs |-> {}],
         pm2 |-> [socket |-> TRUE, daemon |-> TRUE, list |-> "ok", form |-> "processes", refs |-> {}],
         systemd |-> Silent, cron |-> Silent, code |-> Silent,
         git |-> [marker |-> FALSE, inside |-> FALSE, toplevel |-> "exit_n", consistent |-> TRUE,
                  tracked |-> FALSE, files |-> "exit_1"]]

Ref(place, given) == [place |-> place, given |-> given]
MCRefs == {{}, {Ref("itself", "path")}, {Ref("inside", "path")}, {Ref("above", "path")},
           {Ref("elsewhere", "path"), Ref("above", "relative")},
           {Ref("itself", "unresolvable"), Ref("inside", "other")}}
Dockers == [list : Commands, count : {"none", "few", "many"}, inspect : Commands,
            form : {"containers", "other"}, refs : MCRefs]
Pm2s    == [socket : BOOLEAN, daemon : BOOLEAN, list : Commands, form : {"processes", "other"}, refs : MCRefs]

MCMachines == {m \in {[Calm EXCEPT !.core = x] : x \in {"clear", "unsafe", "unknown"}}
                \cup {[Calm EXCEPT !.docker = x] : x \in Dockers} \cup {[Calm EXCEPT !.pm2 = x] : x \in Pm2s}
                \cup {[Calm EXCEPT !.systemd = x] : x \in Literal} \cup {[Calm EXCEPT !.cron = x] : x \in Literal}
                \cup {[Calm EXCEPT !.code = x] : x \in Literal} \cup {[Calm EXCEPT !.git = x] : x \in Git} : Truthful(m)}

MCRanked == <<c1, c2, c3>>
NotChecked == [status |-> "not_checked", unknown |-> TRUE]
Known == c1 :> [status |-> "unsafe", unknown |-> TRUE] @@ c2 :> [status |-> "unsafe", unknown |-> FALSE] @@ c3 :> NotChecked
MCJob(scan, total, request, preinspect, output) ==
    [scan |-> scan, known |-> Known, total |-> total, request |-> request, preinspect |-> preinspect, output |-> output]
MCJobs == {MCJob("complete", 1, 10, 0, "new"), MCJob("complete", 3, 10, 0, "new"), MCJob("complete", 5, 10, 2, "new"),
           MCJob("complete", 3, 1, 2, "overwrite"), MCJob("partial", 3, 10, 1, "stdout"), MCJob("error", 3, 10, 1, "stdout")}
=============================================================================
