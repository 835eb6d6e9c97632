-------------------------- MODULE ProcessCycleProofs --------------------------
(* Proofs about ProcessCycle, for any number of workers, pids and SIGINTs. *)
EXTENDS ProcessCycle, TLAPS

-----------------------------------------------------------------------------
(* The inductive invariant *)

\* What start_work_processes has recorded: nothing before it runs, then the pid of every fork; all of
\* them once sigsuspend has been called.
Recorded ==
    /\ master = "main" => i = 1 /\ \A k \in Index : work_processes_pid[k] = -1
    /\ master = "forking" => \A k \in Index : k < i => work_processes_pid[k] # -1
    /\ master \in {"suspended", "killing"} => \A k \in Index : work_processes_pid[k] # -1

\* A recorded pid is still the worker's, alive or a zombie, until it is reaped.
Owned ==
    master \in {"forking", "suspended", "killing"} =>
       \A k \in Index \ reaped : work_processes_pid[k] # -1 =>
          Worker(proc[work_processes_pid[k]]) \/ proc[work_processes_pid[k]].at = "zombie"

\* Before the first fork there is nothing to wait for.
NoneYet == master = "main" => \A p \in Pid : ~Worker(proc[p]) /\ proc[p].at # "zombie"

\* A worker has the inherited handler until its sigaction(), and is without one only when the flags
\* took it away.
HandlerKept(x) ==
    /\ Worker(x) => ~x.killed
    /\ x.at \in {"masked", "setup"} => x.disp = "handler"
    /\ Worker(x) /\ x.disp # "handler" => x.flags = "reset"
    /\ x.killed => x.flags = "reset"

Handled == \A p \in Pid : HandlerKept(proc[p])

Inv == TypeOK /\ NoZombieForgotten /\ stray \subseteq reaped /\ Recorded /\ Owned /\ NoneYet /\ Handled
-----------------------------------------------------------------------------
(* The life of one process *)

\* Where a worker goes that ends
EndedAt == IF master = "gone" THEN "free" ELSE "zombie"

\* What any step but a fork and waitpid() does to a process x: a worker goes on or ends, and nothing else
\* becomes a worker or a zombie, or stops being one.
Lives(x, y) ==
    /\ y \in Process /\ HandlerKept(y)
    /\ Worker(x) => Worker(y) \/ y.at = EndedAt
    /\ ~Worker(x) => ~Worker(y) /\ (y.at = "zombie" <=> x.at = "zombie")

\* exit() and a crash are such a step.
LEMMA EndedLives ==
    ASSUME NEW x \in Process, HandlerKept(x), Worker(x)
    PROVE  Lives(x, Ended(x))
BY DEF Lives, Ended, EndedAt, Process, HandlerKept, Worker

\* So is SIGINT, in whatever state it finds the process: the default action kills only a worker whose
\* flags had taken the handler away.
LEMMA SigintLives ==
    ASSUME NEW x \in Process, HandlerKept(x), NEW blocks \in BOOLEAN
    PROVE  Lives(x, AfterSigint(x, blocks))
<1>1. CASE x.at = "masked"
  BY <1>1 DEF Lives, AfterSigint, Process, HandlerKept, Worker
<1>2. CASE x.at \in {"setup", "run", "log"} /\ x.disp = "default"
  BY <1>2 DEF Lives, AfterSigint, Ended, EndedAt, Process, HandlerKept, Worker
<1>3. CASE x.at \in {"setup", "run", "log"} /\ x.disp # "default"
  BY <1>3 DEF Lives, AfterSigint, Process, HandlerKept, Worker
<1>4. CASE x.at \notin {"masked", "setup", "run", "log"}
  BY <1>4 DEF Lives, AfterSigint, Process, HandlerKept, Worker
<1> QED BY <1>1, <1>2, <1>3, <1>4

\* A process that is left alone lives.
LEMMA SameLives ==
    ASSUME NEW x \in Process, HandlerKept(x)
    PROVE  Lives(x, x)
BY DEF Lives
-----------------------------------------------------------------------------
(* One step of all the processes *)

\* When every process lives, and the master is told of those that end, what waitpid() has still to find
\* and whose pids are recorded stays as it must be.
LEMMA AllLive ==
    ASSUME Inv, master' \in {master, "gone"},
           proc' \in [Pid -> Process], \A p \in Pid : Lives(proc[p], proc'[p]),
           master' # "gone" => pending \cup Sigchld \subseteq pending',
           UNCHANGED <<work_processes_pid, reaped>>
    PROVE  NoZombieForgotten' /\ Owned' /\ NoneYet' /\ Handled'
<1>1. Handled'
  BY DEF Handled, Lives, HandlerKept, Worker
<1>2. NoneYet'
  BY DEF Inv, NoneYet, Lives, Worker
<1>3. Owned'
  <2> SUFFICES ASSUME master' \in {"forking", "suspended", "killing"},
                      NEW k \in Index \ reaped, work_processes_pid[k] # -1
               PROVE  Worker(proc'[work_processes_pid[k]]) \/ proc'[work_processes_pid[k]].at = "zombie"
    BY DEF Owned, Worker
  <2>1. master' = master /\ master # "gone"
    OBVIOUS
  <2>2. work_processes_pid[k] \in Pid
    BY DEF Inv, TypeOK
  <2>3. Worker(proc[work_processes_pid[k]]) \/ proc[work_processes_pid[k]].at = "zombie"
    BY <2>1 DEF Inv, Owned
  <2> QED BY <2>1, <2>2, <2>3 DEF Lives, EndedAt
<1>4. NoZombieForgotten'
  <2> SUFFICES ASSUME master' \in {"forking", "suspended"}, NEW p \in Pid, proc'[p].at = "zombie"
               PROVE  "SIGCHLD" \in pending'
    BY DEF NoZombieForgotten, Zombies
  <2>1. master' = master /\ master # "gone"
    OBVIOUS
  <2>2. CASE Worker(proc[p])
    <3>1. p \in Died
      BY <2>2 DEF Died, Worker
    <3> QED BY <2>1, <3>1 DEF Sigchld
  <2>3. CASE ~Worker(proc[p])
    <3>1. p \in Zombies
      BY <2>3 DEF Lives, Zombies
    <3> QED BY <2>1, <3>1 DEF Inv, NoZombieForgotten
  <2> QED BY <2>2, <2>3
<1> QED BY <1>1, <1>2, <1>3, <1>4

\* One process that lives alone in its step keeps the invariant.
LEMMA ChangeInv ==
    ASSUME Inv, NEW p \in Pid, NEW y, Lives(proc[p], y), Change(p, y)
    PROVE  Inv'
<1>1. proc' \in [Pid -> Process] /\ \A q \in Pid : Lives(proc[q], proc'[q])
  <2>1. y \in Process
    BY DEF Lives
  <2>2. \A q \in Pid : Lives(proc[q], proc[q])
    BY SameLives DEF Inv, TypeOK, Handled
  <2> QED BY <2>1, <2>2 DEF Inv, TypeOK, Change
<1>2. TypeOK'
  BY <1>1 DEF Inv, TypeOK, Change, Sigchld, history
<1>3. NoZombieForgotten' /\ Owned' /\ NoneYet' /\ Handled'
  BY <1>1, AllLive DEF Change, history
<1>4. Recorded' /\ (stray \subseteq reaped)'
  BY DEF Inv, Recorded, Change, history
<1> QED BY <1>2, <1>3, <1>4 DEF Inv

\* Every step of a worker, and of the unrelated processes, does.
LEMMA WorkerInv ==
    ASSUME Inv, NEW p \in Pid,
           \/ Unmask(p) \/ Sigaction(p) \/ LogBegins(p) \/ LogEnds(p)
           \/ WorkerQuits(p) \/ WorkerDies(p) \/ OtherStarts(p) \/ OtherEnds(p)
    PROVE  Inv'
<1> DEFINE x == proc[p]
<1>0. x \in Process /\ HandlerKept(x)
  BY DEF Inv, TypeOK, Handled
<1>1. CASE Unmask(p)
  <2> DEFINE u == [x EXCEPT !.at = "setup", !.pend = FALSE]
  <2>1. u \in Process /\ HandlerKept(u) /\ u.at = "setup" /\ u.disp = "handler"
    BY <1>0, <1>1 DEF Unmask, Process, HandlerKept, Worker
  <2>2. Lives(u, u) /\ Lives(u, AfterSigint(u, FALSE)) /\ Worker(u) /\ Worker(x)
    BY <2>1, <1>1, SameLives, SigintLives DEF Worker, Unmask
  <2>3. Lives(x, u) /\ Lives(x, AfterSigint(u, FALSE))
    BY <2>2 DEF Lives
  <2> QED BY <1>1, <2>3, ChangeInv DEF Unmask
<1>2. CASE Sigaction(p)
  <2>1. PICK flags \in {"none", "reset"} :
           Change(p, [x EXCEPT !.at = "run", !.flags = flags,
                               !.disp = IF flags = "reset" THEN "once" ELSE "handler"])
    BY <1>2 DEF Sigaction
  <2>2. Lives(x, [x EXCEPT !.at = "run", !.flags = flags,
                           !.disp = IF flags = "reset" THEN "once" ELSE "handler"])
    BY <1>0, <1>2 DEF Sigaction, Lives, Process, HandlerKept, Worker
  <2> QED BY <2>1, <2>2, ChangeInv
<1>3. CASE LogBegins(p) \/ LogEnds(p)
  <2>1. Worker(x) /\ Lives(x, [x EXCEPT !.at = "log"]) /\ Lives(x, [x EXCEPT !.at = "run"])
    BY <1>0, <1>3 DEF LogBegins, LogEnds, Lives, Process, HandlerKept, Worker
  <2> QED BY <2>1, <1>3, ChangeInv DEF LogBegins, LogEnds
<1>4. CASE WorkerQuits(p) \/ WorkerDies(p)
  <2>1. Worker(x)
    BY <1>4 DEF WorkerQuits, WorkerDies, Worker
  <2> QED BY <1>0, <1>4, <2>1, EndedLives, ChangeInv DEF WorkerQuits, WorkerDies
<1>5. CASE OtherStarts(p) \/ OtherEnds(p)
  <2>1. Lives(x, [NoProcess EXCEPT !.at = "other"]) /\ Lives(x, NoProcess)
    BY <1>5 DEF OtherStarts, OtherEnds, NoProcess, Lives, Process, HandlerKept, Worker
  <2> QED BY <2>1, <1>5, ChangeInv DEF OtherStarts, OtherEnds
<1> QED BY <1>1, <1>2, <1>3, <1>4, <1>5

\* A SIGINT for any set of processes is a step in which every process lives.
LEMMA SigintAll ==
    ASSUME Inv, NEW T, Sigint(T)
    PROVE  proc' \in [Pid -> Process] /\ \A p \in Pid : Lives(proc[p], proc'[p])
<1>1. PICK blocked :
         proc' = [p \in Pid |-> IF p \in T THEN AfterSigint(proc[p], p \in blocked) ELSE proc[p]]
  BY DEF Sigint
<1>2. \A p \in Pid : Lives(proc[p], IF p \in T THEN AfterSigint(proc[p], p \in blocked) ELSE proc[p])
  <2> TAKE p \in Pid
  <2>1. proc[p] \in Process /\ HandlerKept(proc[p]) /\ (p \in blocked) \in BOOLEAN
    BY DEF Inv, TypeOK, Handled
  <2> QED BY <2>1, SigintLives, SameLives
<1>3. \A p \in Pid : Lives(proc[p], proc'[p])
  BY <1>1, <1>2
<1>4. proc' \in [Pid -> Process]
  BY <1>1, <1>3 DEF Lives
<1> QED BY <1>3, <1>4
-----------------------------------------------------------------------------
(* The master *)

\* start_work_processes: the loop is about to begin.
LEMMA StartInv ==
    ASSUME Inv, Start
    PROVE  Inv'
<1> USE DEF Start, history
<1>1. TypeOK' /\ (stray \subseteq reaped)' /\ NoneYet' /\ Handled'
  BY DEF Inv, TypeOK, NoneYet, Handled, HandlerKept, Worker
<1>2. NoZombieForgotten'
  BY DEF Inv, NoneYet, NoZombieForgotten, Zombies
<1>3. Recorded' /\ Owned'
  BY ProcessAssumption DEF Inv, Recorded, Owned, Index
<1> QED BY <1>1, <1>2, <1>3 DEF Inv

\* A fork takes a free pid, and no entry that has not been reaped holds a free pid.
LEMMA ForkInv ==
    ASSUME Inv, NEW p \in Pid, Fork(p)
    PROVE  Inv'
<1> USE DEF history
<1>1. Forked \in Process /\ HandlerKept(Forked) /\ Worker(Forked)
  BY DEF Forked, NoProcess, Process, HandlerKept, Worker
<1>2. i \in Index /\ i + 1 \in 1..(work_processes + 1) /\ work_processes \in Nat
  BY ProcessAssumption DEF Inv, TypeOK, Fork, Index
<1>3. proc' \in [Pid -> Process] /\ proc'[p] = Forked /\ \A q \in Pid \ {p} : proc'[q] = proc[q]
  BY <1>1 DEF Inv, TypeOK, Fork
<1>4. /\ work_processes_pid' \in [Index -> Pid \cup {-1}] /\ work_processes_pid'[i] = p
      /\ \A k \in Index \ {i} : work_processes_pid'[k] = work_processes_pid[k]
  BY <1>2 DEF Inv, TypeOK, Fork
<1>5. TypeOK' /\ (stray \subseteq reaped)' /\ NoneYet'
  BY <1>2, <1>3, <1>4 DEF Inv, TypeOK, NoneYet, Fork
<1>6. Handled'
  BY <1>1, <1>3 DEF Inv, Handled
<1>7. NoZombieForgotten'
  BY <1>1, <1>3 DEF Inv, NoZombieForgotten, Zombies, Fork, Worker
<1>8. Recorded'
  BY <1>2, <1>4, ProcessAssumption DEF Inv, Recorded, Fork, Index
<1>9. Owned'
  <2> SUFFICES ASSUME NEW k \in Index \ reaped, work_processes_pid'[k] # -1
               PROVE  Worker(proc'[work_processes_pid'[k]]) \/ proc'[work_processes_pid'[k]].at = "zombie"
    BY DEF Owned, Worker, Fork
  <2>1. CASE k = i
    BY <2>1, <1>1, <1>3, <1>4
  <2>2. CASE k # i
    <3>1. work_processes_pid'[k] = work_processes_pid[k] /\ work_processes_pid[k] \in Pid
      BY <2>2, <1>4 DEF Inv, TypeOK
    <3>2. Worker(proc[work_processes_pid[k]]) \/ proc[work_processes_pid[k]].at = "zombie"
      BY <3>1 DEF Inv, Owned, Fork
    <3>3. work_processes_pid[k] # p
      BY <3>2 DEF Fork, Worker
    <3> QED BY <1>3, <3>1, <3>2, <3>3
  <2> QED BY <2>1, <2>2
<1> QED BY <1>5, <1>6, <1>7, <1>8, <1>9 DEF Inv

\* The master ends, after a fork that failed or after the kill loop, and init reaps its zombies.
LEMMA GoneInv ==
    ASSUME Inv, ForkFails \/ MasterExits
    PROVE  Inv'
<1>1. master' = "gone" /\ proc' = Orphaned /\ forkFailed' \in BOOLEAN
      /\ UNCHANGED <<i, crawler_quit, pending, work_processes_pid, sigints, reaped, stray>>
  BY DEF ForkFails, MasterExits, history, Inv, TypeOK
<1>2. proc' \in [Pid -> Process] /\ Handled'
  BY <1>1 DEF Inv, TypeOK, Orphaned, NoProcess, Process, Handled, HandlerKept, Worker
<1> QED BY <1>1, <1>2 DEF Inv, TypeOK, NoZombieForgotten, Recorded, Owned, NoneYet

\* The loop ends only when every entry is recorded.
LEMMA SuspendInv ==
    ASSUME Inv, Suspend
    PROVE  Inv'
<1>1. \A k \in Index : work_processes_pid[k] # -1
  <2> TAKE k \in Index
  <2>1. k < i
    BY ProcessAssumption DEF Inv, TypeOK, Suspend, Index
  <2> QED BY <2>1 DEF Inv, Recorded, Suspend
<1> QED BY <1>1 DEF Inv, TypeOK, NoZombieForgotten, Zombies, Recorded, Owned, NoneYet, Handled,
                    HandlerKept, Worker, Suspend, history

\* The SIGCHLD handler reaps every zombie there is, and the entries it reaps are the only ones whose
\* pids become free.
LEMMA DeliverInv ==
    ASSUME Inv, NEW S \in SUBSET {"SIGINT", "SIGCHLD"}, Deliver(S)
    PROVE  Inv'
<1> DEFINE done == IF "SIGCHLD" \in S THEN Waited ELSE {}
<1>1. /\ master = "suspended" /\ S \subseteq pending /\ pending' = pending \ S
      /\ proc' = [p \in Pid |-> IF p \in done THEN NoProcess ELSE proc[p]]
      /\ reaped' = reaped \cup {k \in Index : work_processes_pid[k] \in done}
      /\ UNCHANGED <<work_processes_pid, sigints, stray, forkFailed>>
  BY DEF Deliver, Unblocked
<1>2. crawler_quit' \in BOOLEAN /\ i' \in 1..(work_processes + 1) /\ master' \in {"suspended", "killing"}
  BY <1>1, ProcessAssumption DEF Deliver, Inv, TypeOK
<1>3. NoProcess \in Process /\ HandlerKept(NoProcess) /\ NoProcess.at = "free"
  BY DEF NoProcess, Process, HandlerKept, Worker
<1>4. done = IF "SIGCHLD" \in S THEN {p \in Pid : proc[p].at = "zombie"} ELSE {}
  BY DEF Waited, Zombies
<1> HIDE DEF done
<1>5. TypeOK'
  BY <1>1, <1>2, <1>3 DEF Inv, TypeOK
<1>6. Handled' /\ NoneYet' /\ Recorded' /\ (stray \subseteq reaped)'
  <2>1. Handled'
    BY <1>1, <1>3 DEF Inv, Handled
  <2> QED BY <1>1, <1>2, <2>1 DEF Inv, NoneYet, Recorded
<1>7. NoZombieForgotten'
  <2> SUFFICES ASSUME NEW p \in Pid, proc'[p].at = "zombie"
               PROVE  "SIGCHLD" \in pending'
    BY DEF NoZombieForgotten, Zombies
  <2>1. p \notin done /\ proc[p].at = "zombie"
    BY <1>1, <1>3
  <2> QED BY <1>1, <1>4, <2>1 DEF Inv, NoZombieForgotten, Zombies
<1>8. Owned'
  <2> SUFFICES ASSUME NEW k \in Index \ reaped', work_processes_pid[k] # -1
               PROVE  Worker(proc'[work_processes_pid[k]]) \/ proc'[work_processes_pid[k]].at = "zombie"
    BY <1>1 DEF Owned, Worker
  <2>1. k \notin reaped /\ work_processes_pid[k] \notin done /\ work_processes_pid[k] \in Pid
    BY <1>1 DEF Inv, TypeOK
  <2>2. proc'[work_processes_pid[k]] = proc[work_processes_pid[k]]
    BY <1>1, <2>1
  <2> QED BY <1>1, <2>1, <2>2 DEF Inv, Owned
<1> QED BY <1>5, <1>6, <1>7, <1>8 DEF Inv

\* kill() for the next entry: its pid is an unrelated process's only if the entry was reaped.
LEMMA KillNextInv ==
    ASSUME Inv, KillNext
    PROVE  Inv'
<1> DEFINE pid == work_processes_pid[i]
<1>1. i \in Index /\ i + 1 \in 1..(work_processes + 1) /\ pid \in Pid /\ master = "killing"
  BY ProcessAssumption DEF Inv, TypeOK, Recorded, KillNext, LastKill, Index
<1>2. proc' \in [Pid -> Process] /\ \A p \in Pid : Lives(proc[p], proc'[p])
  BY SigintAll DEF KillNext
<1>3. NoZombieForgotten' /\ Owned' /\ NoneYet' /\ Handled'
  BY <1>2, AllLive DEF KillNext
<1>4. (stray \subseteq reaped)'
  <2>1. CASE proc[pid].at = "other"
    <3>1. i \in reaped
      BY <1>1, <2>1, ProcessAssumption DEF Inv, Owned, Worker
    <3> QED BY <3>1 DEF Inv, KillNext
  <2>2. CASE proc[pid].at # "other"
    BY <2>2 DEF Inv, KillNext
  <2> QED BY <2>1, <2>2
<1>5. TypeOK'
  BY <1>1, <1>2 DEF Inv, TypeOK, KillNext, Sigchld
<1>6. Recorded'
  BY <1>1 DEF Inv, Recorded, KillNext
<1> QED BY <1>3, <1>4, <1>5, <1>6 DEF Inv

\* A SIGINT from outside, for the master alone or for everybody.
LEMMA FromOutsideInv ==
    ASSUME Inv, NEW T, FromOutside(T)
    PROVE  Inv'
<1>1. proc' \in [Pid -> Process] /\ \A p \in Pid : Lives(proc[p], proc'[p])
  BY SigintAll DEF FromOutside
<1>2. NoZombieForgotten' /\ Owned' /\ NoneYet' /\ Handled'
  BY <1>1, AllLive DEF FromOutside, history
<1>3. TypeOK'
  BY <1>1, ProcessAssumption DEF Inv, TypeOK, FromOutside, Sigchld, history
<1>4. Recorded' /\ (stray \subseteq reaped)'
  BY DEF Inv, Recorded, FromOutside, history
<1> QED BY <1>2, <1>3, <1>4 DEF Inv

-----------------------------------------------------------------------------
(* The theorems *)

\* The initial state satisfies the invariant.
LEMMA InitInv == Init => Inv
<1> SUFFICES ASSUME Init PROVE Inv
  OBVIOUS
<1>1. NoProcess \in Process /\ HandlerKept(NoProcess) /\ ~Worker(NoProcess) /\ NoProcess.at # "zombie"
  BY DEF NoProcess, Process, HandlerKept, Worker
<1>2. TypeOK
  <2>1. proc \in [Pid -> Process] /\ work_processes_pid \in [Index -> Pid \cup {-1}]
    BY <1>1 DEF Init
  <2>2. i \in 1..(work_processes + 1) /\ sigints \in 0..MaxSigint
    BY ProcessAssumption DEF Init
  <2> QED BY <2>1, <2>2 DEF Init, TypeOK
<1>3. Handled /\ NoneYet
  BY <1>1 DEF Init, Handled, NoneYet
<1>4. NoZombieForgotten /\ stray \subseteq reaped /\ Recorded /\ Owned
  BY DEF Init, NoZombieForgotten, Recorded, Owned
<1> QED BY <1>2, <1>3, <1>4 DEF Inv

\* Every step keeps it.
LEMMA NextInv == Inv /\ [Next]_vars => Inv'
<1> SUFFICES ASSUME Inv, [Next]_vars PROVE Inv'
  OBVIOUS
<1>1. CASE MasterStep
  BY <1>1, StartInv, ForkInv, GoneInv, SuspendInv, DeliverInv, KillNextInv DEF MasterStep
<1>2. CASE \E p \in Pid : \/ Unmask(p) \/ Sigaction(p) \/ LogBegins(p) \/ LogEnds(p)
                          \/ WorkerQuits(p) \/ WorkerDies(p) \/ OtherStarts(p) \/ OtherEnds(p)
  BY <1>2, WorkerInv
<1>3. CASE \E T : FromOutside(T)
  BY <1>3, FromOutsideInv
<1>4. CASE UNCHANGED vars
  BY <1>4 DEF vars, history, Inv, TypeOK, NoZombieForgotten, Zombies, Recorded, Owned, NoneYet, Handled,
              HandlerKept, Worker
<1> QED BY <1>1, <1>2, <1>3, <1>4 DEF Next

\* The inductive invariant holds.
LEMMA InvHolds == Spec => []Inv
BY InitInv, NextInv, PTL DEF Spec

\* kill() is never called with -1, and reaches an unrelated process only through the pid of a worker
\* that was reaped before the kill loop, however the pids are used again.
THEOREM KillsOnlyWorkers == Spec => []SignalsOnlyWorkers
<1>1. Inv => SignalsOnlyWorkers
  BY DEF Inv, SignalsOnlyWorkers, Recorded
<1> QED BY <1>1, InvHolds, PTL

\* A zombie of a living master that waits for signals has a SIGCHLD pending, however many workers that
\* one signal stands for.
THEOREM ZombiesAnnounced == Spec => []NoZombieForgotten
<1>1. Inv => NoZombieForgotten
  BY DEF Inv
<1> QED BY <1>1, InvHolds, PTL

\* From the fork to its exit a worker has a SIGINT handler, unless the uninitialised sa_flags took it.
THEOREM HandlerUntilFlags == Spec => []KilledOnlyByFlags
<1>1. Inv => KilledOnlyByFlags
  BY DEF Inv, Handled, HandlerKept, KilledOnlyByFlags
<1> QED BY <1>1, InvHolds, PTL
===============================================================================
