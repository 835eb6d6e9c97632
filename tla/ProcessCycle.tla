------------------------------ MODULE ProcessCycle ------------------------------
(***************************************************************************)
(* The master process and its workers as processes of the operating        *)
(* system: fork, SIGINT and SIGCHLD, blocked everywhere but in sigsuspend,  *)
(* waitpid in the SIGCHLD handler, and the kill loop that ends the crawler *)
(* (process_cycle.c).                                                      *)
(*                                                                         *)
(* Undefined behaviour is a choice: sa.sa_flags of the worker is not       *)
(* initialised and may hold SA_RESETHAND; the handler logs, and localtime  *)
(* in a handler that interrupted localtime may never return.               *)
(***************************************************************************)
EXTENDS Integers, FiniteSets

CONSTANTS
    work_processes,
    Pid,            \* the pids the kernel hands out; they are used again
    MaxSigint       \* bound: SIGINTs sent from outside

ASSUME ProcessAssumption ==
    work_processes \in Nat \ {0} /\ MaxSigint \in Nat /\ -1 \notin Pid

Index == 1..work_processes

VARIABLES
    master,             \* "main", "forking", "suspended", "killing" or "gone"
    i,                  \* the loop variable of start_work_processes
    crawler_quit,       \* of the master
    pending,            \* the master's pending signals; a signal is pending once at most
    work_processes_pid, \* [Index -> Pid \cup {-1}]
    proc,               \* [Pid -> Process]
    sigints,            \* SIGINTs sent so far
    reaped,             \* history: the indexes reaped before the kill loop
    stray,              \* history: the indexes whose SIGINT went to an unrelated process
    forkFailed          \* history: fork() failed

vars == <<master, i, crawler_quit, pending, work_processes_pid, proc, sigints, reaped, stray,
          forkFailed>>
history == <<reaped, stray, forkFailed>>

\* at: nothing, an unrelated process, or where the worker is: with the master's mask, before its
\* sigaction(), in its loop, in localtime() of a log line, for ever in the handler, ended.
\* pend: a SIGINT waits for the mask; disp: SIGINT's disposition; killed: SIGINT's default action
Process == [at: {"free", "other", "masked", "setup", "run", "log", "stuck", "zombie"},
            quit: BOOLEAN, pend: BOOLEAN, disp: {"handler", "once", "default"},
            flags: {"none", "reset"}, killed: BOOLEAN]

NoProcess == [at |-> "free", quit |-> FALSE, pend |-> FALSE, disp |-> "default",
              flags |-> "none", killed |-> FALSE]

Worker(x) == x.at \in {"masked", "setup", "run", "log", "stuck"}

Init ==
    /\ master = "main" /\ i = 1 /\ crawler_quit = FALSE /\ pending = {}
    /\ work_processes_pid = [k \in Index |-> -1]
    /\ proc = [p \in Pid |-> NoProcess]
    /\ sigints = 0 /\ reaped = {} /\ stray = {} /\ forkFailed = FALSE

-----------------------------------------------------------------------------
\* A process that ended is a zombie until the master waits for it, or init when it is gone
Ended(x) == [x EXCEPT !.at = IF master = "gone" THEN "free" ELSE "zombie",
                      !.pend = FALSE, !.quit = FALSE]

\* SIGINT for a worker: crawler_signal_handler logs, and then sets the worker's own crawler_quit
AfterSigint(x, blocks) ==
    LET hangs == x.at = "log" /\ blocks IN
    CASE x.at = "masked" -> [x EXCEPT !.pend = TRUE]
      [] x.at \in {"setup", "run", "log"} /\ x.disp = "default" -> [Ended(x) EXCEPT !.killed = TRUE]
      [] x.at \in {"setup", "run", "log"} /\ x.disp # "default" ->
           [x EXCEPT !.quit = @ \/ ~hangs, !.disp = IF @ = "once" THEN "default" ELSE @,
                     !.at = IF hangs THEN "stuck" ELSE @]
      [] OTHER -> x

\* SIGINT for the processes of T; SIGCHLD tells a living master of those it ended
Sigint(T) ==
    \E blocked \in SUBSET {p \in T : proc[p].at = "log"} :
        proc' = [p \in Pid |-> IF p \in T THEN AfterSigint(proc[p], p \in blocked) ELSE proc[p]]

Died == {p \in Pid : Worker(proc[p]) /\ ~Worker(proc'[p])}
Sigchld == IF Died # {} /\ master # "gone" THEN {"SIGCHLD"} ELSE {}

\* Mutant of Forked: a child does not inherit the handlers
ForkedDefault == [NoProcess EXCEPT !.at = "masked"]

\* A new worker: the master's mask and handlers, none of its pending signals
Forked == [NoProcess EXCEPT !.at = "masked", !.disp = "handler"]

\* start_work_processes blocks SIGCHLD and SIGINT and installs the handlers before the first fork
Start ==
    /\ master = "main" /\ master' = "forking"
    /\ UNCHANGED <<i, crawler_quit, pending, work_processes_pid, proc, sigints, history>>

Fork(p) ==
    /\ master = "forking" /\ i <= work_processes /\ proc[p].at = "free"
    /\ proc' = [proc EXCEPT ![p] = Forked]
    /\ work_processes_pid' = [work_processes_pid EXCEPT ![i] = p]
    /\ i' = i + 1
    /\ UNCHANGED <<master, crawler_quit, pending, sigints, history>>

\* The zombies of a master that is gone are waited for by init
Orphaned == [p \in Pid |-> IF proc[p].at = "zombie" THEN NoProcess ELSE proc[p]]

\* fork() fails: start_work_processes and main return, and the workers that run go on alone
ForkFails ==
    /\ master = "forking" /\ i <= work_processes
    /\ master' = "gone" /\ proc' = Orphaned /\ forkFailed' = TRUE
    /\ UNCHANGED <<i, crawler_quit, pending, work_processes_pid, sigints, reaped, stray>>

\* sigsuspend for the first time
Suspend ==
    /\ master = "forking" /\ i > work_processes
    /\ master' = "suspended"
    /\ UNCHANGED <<i, crawler_quit, pending, work_processes_pid, proc, sigints, history>>

Zombies == {p \in Pid : proc[p].at = "zombie"}

\* Mutant of Waited: one child per SIGCHLD
WaitedOnce == IF Zombies = {} THEN {} ELSE {CHOOSE p \in Zombies : TRUE}

\* crawler_process_get_status: waitpid() until there is no more
Waited == Zombies

\* Mutant of Unblocked: signals are let in during the kill loop too
UnblockedAlways == master \in {"suspended", "killing"}

\* Signals reach the master only in sigsuspend
Unblocked == master = "suspended"

\* Handlers run, and sigsuspend returns: to the kill loop once crawler_quit is set
Deliver(S) ==
    LET done == IF "SIGCHLD" \in S THEN Waited ELSE {}
        quit == crawler_quit \/ "SIGINT" \in S
    IN  /\ Unblocked /\ S # {} /\ S \subseteq pending
        /\ pending' = pending \ S
        /\ crawler_quit' = quit
        /\ proc' = [p \in Pid |-> IF p \in done THEN NoProcess ELSE proc[p]]
        /\ reaped' = IF master = "suspended"
                       THEN reaped \cup {k \in Index : work_processes_pid[k] \in done} ELSE reaped
        /\ IF quit /\ master = "suspended" THEN master' = "killing" /\ i' = 1 ELSE UNCHANGED <<master, i>>
        /\ UNCHANGED <<work_processes_pid, sigints, stray, forkFailed>>


LastKill == i > work_processes

\* kill(work_processes_pid[i], SIGINT), whoever has that pid now
KillNext ==
    /\ master = "killing" /\ ~LastKill
    /\ Sigint({work_processes_pid[i]} \cap Pid)
    /\ stray' = IF work_processes_pid[i] \in Pid /\ proc[work_processes_pid[i]].at = "other"
                  THEN stray \cup {i} ELSE stray
    /\ pending' = pending \cup Sigchld
    /\ i' = i + 1
    /\ UNCHANGED <<master, crawler_quit, work_processes_pid, sigints, reaped, forkFailed>>

MasterExits ==
    /\ master = "killing" /\ LastKill
    /\ master' = "gone" /\ proc' = Orphaned
    /\ UNCHANGED <<i, crawler_quit, pending, work_processes_pid, sigints, history>>

-----------------------------------------------------------------------------
Change(p, x) ==
    /\ proc' = [proc EXCEPT ![p] = x]
    /\ pending' = pending \cup Sigchld
    /\ UNCHANGED <<master, i, crawler_quit, work_processes_pid, sigints, history>>

\* work_process_cycle: the empty mask lets a pending SIGINT in, for the inherited handler
Unmask(p) ==
    /\ proc[p].at = "masked"
    /\ LET x == [proc[p] EXCEPT !.at = "setup", !.pend = FALSE]
       IN  Change(p, IF proc[p].pend THEN AfterSigint(x, FALSE) ELSE x)

\* sigaction(SIGINT) with whatever sa_flags holds, then the set-up
Sigaction(p) ==
    /\ proc[p].at = "setup"
    /\ \E flags \in {"none", "reset"} :
          Change(p, [proc[p] EXCEPT !.at = "run", !.flags = flags,
                                    !.disp = IF flags = "reset" THEN "once" ELSE "handler"])

\* A round of the loop logs in many places
LogBegins(p) == proc[p].at = "run" /\ Change(p, [proc[p] EXCEPT !.at = "log"])
LogEnds(p) == proc[p].at = "log" /\ Change(p, [proc[p] EXCEPT !.at = "run"])

\* The top of the loop sees crawler_quit: redis_free and exit(0)
WorkerQuits(p) == proc[p].at = "run" /\ proc[p].quit /\ Change(p, Ended(proc[p]))

\* The initialisation fails, or the worker crashes
WorkerDies(p) == proc[p].at \in {"setup", "run", "log"} /\ Change(p, Ended(proc[p]))

\* SIGINT from outside: for the master alone, or from the terminal for all of them
FromOutside(T) ==
    /\ sigints < MaxSigint /\ sigints' = sigints + 1
    /\ master # "gone" \/ T # {}
    /\ Sigint(T)
    /\ master' = IF master = "main" THEN "gone" ELSE master
    /\ pending' = IF master \in {"main", "gone"} THEN pending ELSE pending \cup {"SIGINT"} \cup Sigchld
    /\ UNCHANGED <<i, crawler_quit, work_processes_pid, history>>

\* Unrelated processes come and go, with any pid that is free
OtherStarts(p) == proc[p].at = "free" /\ Change(p, [NoProcess EXCEPT !.at = "other"])
OtherEnds(p) == proc[p].at = "other" /\ Change(p, NoProcess)

MasterStep ==
    \/ Start \/ (\E p \in Pid : Fork(p)) \/ ForkFails \/ Suspend
    \/ (\E S \in SUBSET {"SIGINT", "SIGCHLD"} : Deliver(S))
    \/ KillNext \/ MasterExits

Next ==
    \/ MasterStep
    \/ \E p \in Pid : \/ Unmask(p) \/ Sigaction(p) \/ LogBegins(p) \/ LogEnds(p)
                      \/ WorkerQuits(p) \/ WorkerDies(p)
                      \/ OtherStarts(p) \/ OtherEnds(p)
    \/ FromOutside({})
    \/ FromOutside({p \in Pid : Worker(proc[p])})

\* The kernel runs every process that can run.  A worker passes the top of its loop between any
\* two log lines, so it is there infinitely often while it runs.
Fairness ==
    /\ WF_vars(MasterStep)
    /\ \A p \in Pid : WF_vars(Unmask(p)) /\ WF_vars(Sigaction(p)) /\ WF_vars(LogEnds(p))
                      /\ SF_vars(WorkerQuits(p))

Spec == Init /\ [][Next]_vars /\ Fairness

-----------------------------------------------------------------------------
\* The variables have their types, and only workers wait for a signal
TypeOK ==
    /\ master \in {"main", "forking", "suspended", "killing", "gone"}
    /\ i \in 1..(work_processes + 1) /\ crawler_quit \in BOOLEAN
    /\ pending \subseteq {"SIGINT", "SIGCHLD"}
    /\ work_processes_pid \in [Index -> Pid \cup {-1}]
    /\ proc \in [Pid -> Process] /\ sigints \in 0..MaxSigint
    /\ reaped \subseteq Index /\ stray \subseteq Index /\ forkFailed \in BOOLEAN

\* Signals are not queued, so one SIGCHLD may stand for several exits: when none is pending the
\* suspended master has no zombies.
NoZombieForgotten == master \in {"forking", "suspended"} /\ Zombies # {} => "SIGCHLD" \in pending

\* Whom the kill loop signals.  It never passes -1 to kill(), which would signal every process of the
\* user: an entry is -1 only until its fork, and a fork that fails ends the master before the loop.
\* And a pid may be in other hands only if its worker was reaped before the loop: SIGCHLD is blocked
\* in it, so a worker that ends there stays a zombie and keeps its pid.
SignalsOnlyWorkers ==
    /\ TypeOK
    /\ master = "killing" => \A k \in Index : work_processes_pid[k] # -1
    /\ stray \subseteq reaped

\* A worker is killed by SIGINT's default action, without redis_free, only if the uninitialised
\* sa_flags held SA_RESETHAND: there is no window in which a worker has no handler.
KilledOnlyByFlags == \A p \in Pid : proc[p].killed => proc[p].flags = "reset"

NoWorkerRuns == \A p \in Pid : Worker(proc[p]) => proc[p].at = "stuck"

===============================================================================
