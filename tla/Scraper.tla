------------------------------- MODULE Scraper -------------------------------
(* A scraper job on its node (worker.cpp: fetch_proc_stats,                   *)
(* walk_scraped_proc_tree, scraper) beside the kernel, which forks, ends and  *)
(* reaps processes while /proc is read one file at a time.  A reading of      *)
(* several rounds is staged at the end: results in one queue, the GPU         *)
(* measurements they count in another.                                        *)
EXTENDS Naturals, Sequences, SequencesExt, Functions, FiniteSetsExt

CONSTANTS
  MaxPid,           \* bound
  AnyJob,           \* job_id is 0: all jobs are watched
  Settings,         \* see Instances
  None

InitPid == 0        \* init, or a process outside of all steps
Pids == 1 .. MaxPid

Times == [utime : Nat, cutime : Nat]

(* An instance of the program and the bounds it is looked at with.  job: the   *)
(* job of each step, steps being named by the pid of their slurmstepd;         *)
(* watching: jobstep_info.job_id; scrape_cnt: rounds; ticks: bound on the CPU  *)
(* time of a process; readings: bound on those of a job.                       *)
IsInstance(i) ==
  /\ DOMAIN i.job \subseteq Pids
  /\ i.watching \in Range(i.job) \union {AnyJob}
  /\ i.gpu_provider_job_mapped \in BOOLEAN
  /\ {i.scrape_cnt, i.ticks, i.readings} \subseteq Nat

ASSUME ScraperAssumption ==
  /\ MaxPid \in Nat
  /\ None \notin Pids \union Times
  /\ \A i \in Settings : IsInstance(i)

VARIABLES
  proc,             \* what the kernel knows of each process: see Processes
  quiet,            \* it has done nothing since the round began
  setting,
  pc,               \* where the scraper is
  round,
  todo,             \* the pids readdir will return
  cur_result, unchecked,
  child, result, stepd_pids,
  jobstep_cpu_available,
  app_map, stats,
  gpu_results,      \* the queue of GPU measurements: whose result counts each
  usages            \* the queue of application usages

kernel == <<proc, quiet>>
scan == <<todo, cur_result, unchecked, child, result, stepd_pids>>
staged == <<app_map, stats, gpu_results, usages>>
vars == <<kernel, setting, pc, round, scan, jobstep_cpu_available, staged>>

Processes ==
  [state : {"unborn", "running", "zombie", "gone"}, ppid : 0 .. MaxPid,
   step : Pids \union {None}, utime : Nat, cutime : Nat]

NoScan ==
  /\ todo' = {}
  /\ cur_result' = None
  /\ unchecked' = <<>>
  /\ child' = [p \in 0 .. MaxPid |-> <<>>]
  /\ result' = [p \in Pids |-> None]
  /\ stepd_pids' = {}

Init ==
  /\ proc = [p \in Pids |-> [state |-> "unborn", ppid |-> InitPid, step |-> None,
                             utime |-> 0, cutime |-> 0]]
  /\ quiet = FALSE
  /\ setting \in Settings
  /\ pc = "wait"
  /\ round = 0
  /\ todo = {}
  /\ cur_result = None
  /\ unchecked = <<>>
  /\ child = [p \in 0 .. MaxPid |-> <<>>]
  /\ result = [p \in Pids |-> None]
  /\ stepd_pids = {}
  /\ jobstep_cpu_available = {}
  /\ app_map = [s \in DOMAIN setting.job |-> {}]
  /\ stats = <<>>
  /\ gpu_results = <<>>
  /\ usages = <<>>

Stepds == DOMAIN setting.job

-----------------------------------------------------------------------------
(* The kernel.  A pid is not used again (the source, worker.cpp:834-838, bets *)
(* on that too), and an orphan goes to init.                                  *)

Listed == {p \in Pids : proc[p].state \in {"running", "zombie"}}

(* What happens after the last round is of no interest.                       *)
Kernel ==
  /\ pc \notin {"stage", "sent"}
  /\ quiet' = FALSE
  /\ UNCHANGED <<setting, pc, round, cur_result, unchecked, child, result, stepd_pids,
                 jobstep_cpu_available, staged>>

(* A new entry of /proc is listed when readdir has not come that far.          *)
Created(p) == \E entries \in {{}, {p}} :
                todo' = IF pc = "wait" THEN todo ELSE todo \union entries

StepStarts(s) ==
  /\ proc[s].state = "unborn"
  /\ proc' = [proc EXCEPT ![s].state = "running", ![s].step = s]
  /\ Created(s)
  /\ Kernel

Fork(p, c) ==
  /\ proc[p].state = "running"
  /\ c \notin Stepds
  /\ proc[c].state = "unborn"
  /\ proc' = [proc EXCEPT ![c].state = "running", ![c].ppid = p, ![c].step = proc[p].step]
  /\ Created(c)
  /\ Kernel

Spend(p) ==
  /\ proc[p].state = "running"
  /\ proc[p].utime < setting.ticks
  /\ proc' = [proc EXCEPT ![p].utime = @ + 1]
  /\ UNCHANGED todo
  /\ Kernel

Exit(p) ==
  /\ proc[p].state = "running"
  /\ proc' = [q \in Pids |->
                CASE q = p -> [proc[p] EXCEPT !.state = "zombie"]
                  [] q # p /\ proc[q].ppid = p -> [proc[q] EXCEPT !.ppid = InitPid]
                  [] OTHER -> proc[q]]
  /\ UNCHANGED todo
  /\ Kernel

(* wait(): the times of the child become those of waited-for children.        *)
Reap(c) ==
  /\ proc[c].state = "zombie"
  /\ LET p == proc[c].ppid
         gone == [proc EXCEPT ![c].state = "gone", ![c].ppid = InitPid]
     IN proc' = IF p = InitPid THEN gone
                ELSE [gone EXCEPT ![p].cutime = @ + proc[c].utime + proc[c].cutime]
  /\ UNCHANGED todo
  /\ Kernel

-----------------------------------------------------------------------------
(* fetch_proc_stats.                                                          *)

StartRound ==
  /\ pc = "wait"
  /\ round < setting.scrape_cnt
  /\ round' = round + 1
  /\ pc' = "readdir"
  /\ todo' = Listed
  /\ quiet' = TRUE
  /\ UNCHANGED <<proc, setting, cur_result, unchecked, child, result, stepd_pids,
                 jobstep_cpu_available, staged>>

(* readdir goes by pid; the process may be gone when its file is opened.       *)
ReadStat ==
  /\ pc = "readdir"
  /\ todo # {}
  /\ LET p == Min(todo) IN
       /\ todo' = todo \ {p}
       /\ IF p \in Listed
            THEN /\ cur_result' = [pid |-> p, ppid |-> proc[p].ppid,
                                   utime |-> proc[p].utime, cutime |-> proc[p].cutime]
                 /\ pc' = "cmdline"
            ELSE UNCHANGED <<cur_result, pc>>
  /\ UNCHANGED <<kernel, setting, round, unchecked, child, result, stepd_pids,
                 jobstep_cpu_available, staged>>

(* A slurmstepd is known by its command line, which a zombie has none of.  Its *)
(* cgroup can be read or not.  Then the process is put into the tree.          *)
ReadCmdline ==
  /\ pc = "cmdline"
  /\ LET p == cur_result.pid
         found == p \in Stepds /\ proc[p].state = "running"
     IN /\ stepd_pids' = IF found THEN stepd_pids \union {p} ELSE stepd_pids
        /\ \E cpus \in {{}, {p}} :
             jobstep_cpu_available' =
               IF found THEN jobstep_cpu_available \union cpus ELSE jobstep_cpu_available
        /\ child' = [child EXCEPT ![cur_result.ppid] = Append(@, p)]
        /\ result' = [result EXCEPT ![p] = [utime |-> cur_result.utime,
                                            cutime |-> cur_result.cutime]]
        /\ unchecked' = [i \in DOMAIN child[p] |-> i]
        /\ pc' = IF child[p] = <<>> THEN "readdir" ELSE "check"
  /\ UNCHANGED <<kernel, setting, round, todo, cur_result, staged>>

(* What ENOENT says of a child is not acted on. *)
KeepChild(p, i) == UNCHANGED <<child, result>>

(* The child is forgotten but stays in the list of its parent. *)
KeepInList(p, i) == result' = [result EXCEPT ![child[p][i]] = None] /\ UNCHANGED child

(* Reaped before the scan came to its parent: its times are in those of the    *)
(* parent, and adding them would count them twice.                             *)
DropChild(p, i) ==
  /\ result' = [result EXCEPT ![child[p][i]] = None]
  /\ child' = [child EXCEPT ![p][i] = 0]

(* The children that were read before their parent, one opendir each.          *)
CheckChild ==
  /\ pc = "check"
  /\ LET p == cur_result.pid
         i == Head(unchecked)
     IN IF child[p][i] \in Listed THEN UNCHANGED <<child, result>> ELSE DropChild(p, i)
  /\ unchecked' = Tail(unchecked)
  /\ pc' = IF Len(unchecked) = 1 THEN "readdir" ELSE "check"
  /\ UNCHANGED <<kernel, setting, round, todo, cur_result, stepd_pids,
                 jobstep_cpu_available, staged>>

-----------------------------------------------------------------------------
(* walk_scraped_proc_tree and the rest of a round.                            *)

Recorded == {p \in Pids : result[p] # None}

(* The places in the list of p that hold a child. *)
Children(p) == {i \in DOMAIN child[p] : child[p][i] # 0}

Own(p) == result[p].utime + result[p].cutime

(* Children are added to their parent without their own children. *)
WalkOneLevel(p, readings) ==
  LET visited == {p} \union {child[p][i] : i \in Children(p)}
  IN [time |-> Own(p) + SumFunction([i \in Children(p) |-> Own(child[p][i])]),
      gpu  |-> Cardinality(visited \intersect readings),
      apps |-> visited]

(* What the record of p has in the end, how many GPU measurements are staged   *)
(* meanwhile and the applications that are met, from those of its children.    *)
Visit(p, below, readings) ==
  [time |-> Own(p) + SumFunction([i \in DOMAIN below |-> below[i].time]),
   gpu  |-> (IF p \in readings THEN 1 ELSE 0)
            + SumFunction([i \in DOMAIN below |-> below[i].gpu]),
   apps |-> {p} \union UNION {below[i].apps : i \in DOMAIN below}]

(* n: how far down the walk goes.  There are no more than MaxPid processes.    *)
Walk(p, readings) ==
  LET walk[n \in 0 .. MaxPid] ==
        [q \in Recorded |->
           Visit(q, [i \in {j \in Children(q) : n > 0} |-> walk[n - 1][child[q][i]]],
                 readings)]
  IN walk[MaxPid][p]

Watched(s) == setting.watching \in {AnyJob, setting.job[s]}

(* Readings that are mapped to a job are given to its first step.              *)
OfFirstStep(s, walked) == \A t \in walked : setting.job[t] # setting.job[s]

(* A std::map, whose keys are gone through in order. *)
Ordered(S) ==
  LET places == 1 .. Cardinality(S)
  IN CHOOSE seq \in [places -> S] : \A i, j \in places : i < j => seq[i] < seq[j]

Steps == Ordered({s \in stepd_pids : Watched(s)})

Before(i) == {Steps[j] : j \in 1 .. i - 1}

(* Those of children are not added up. *)
GpusOfSelf(i, of_pid, of_job) ==
  (IF Steps[i] \in of_pid THEN 1 ELSE 0)
    + IF OfFirstStep(Steps[i], Before(i)) THEN of_job ELSE 0

(* of_pid: the processes a provider has a reading of; of_job: how many it has  *)
(* for each job.                                                               *)
Gpus(i, of_pid, of_job) ==
  Walk(Steps[i], of_pid).gpu
    + IF OfFirstStep(Steps[i], Before(i)) THEN of_job ELSE 0

Entry(i, of_pid, of_job) ==
  [pid |-> Steps[i], round |-> round, time |-> Walk(Steps[i], of_pid).time,
   gpu_measurement_cnt |-> Gpus(i, of_pid, of_job)]

Reading(s) == [pid |-> s, round |-> round]

(* Those found in the walk are staged at once, those of jobs after it.         *)
Measurements(of_pid, of_job) ==
  FlattenSeq([i \in DOMAIN Steps |->
    [n \in 1 .. Walk(Steps[i], of_pid).gpu |-> Reading(Steps[i])]])
  \o FlattenSeq([i \in DOMAIN Steps |->
    IF OfFirstStep(Steps[i], Before(i))
      THEN [n \in 1 .. of_job |-> Reading(Steps[i])]
      ELSE <<>>])

(* What measure_gpu may return.  nvml.cpp:22 leaves the job of its readings    *)
(* uninitialised: when it is not 0 they are taken for those of a job, and      *)
(* nobody asks for them.                                                       *)
Measured ==
  IF setting.gpu_provider_job_mapped
    THEN {<<{}, n>> : n \in 0 .. setting.readings}
    ELSE {<<pids, 0>> : pids \in SUBSET Listed}

ignored_apps == Stepds

EndRound ==
  /\ pc = "readdir"
  /\ todo = {}
  /\ \E measured \in Measured :
       /\ stats' = stats \o [i \in DOMAIN Steps |-> Entry(i, measured[1], measured[2])]
       /\ gpu_results' = gpu_results \o Measurements(measured[1], measured[2])
  /\ app_map' = [s \in Stepds |->
       IF s \in Range(Steps) THEN app_map[s] \union (Walk(s, {}).apps \ ignored_apps)
                             ELSE app_map[s]]
  /\ pc' = IF round < setting.scrape_cnt THEN "wait" ELSE "stage"
  /\ NoScan
  /\ UNCHANGED <<kernel, setting, round, jobstep_cpu_available, usages>>

(* Each result of a step brings its applications. *)
KeepApps(apps, s) == apps

(* app_map.erase: only the first result of a step brings its applications.    *)
EraseApps(apps, s) == [apps EXCEPT ![s] = {}]

StageUsages(acc, entry) ==
  [usages  |-> acc.usages \o [i \in 1 .. Cardinality(acc.app_map[entry.pid]) |->
                 [pid |-> entry.pid, app |-> Ordered(acc.app_map[entry.pid])[i]]],
   app_map |-> EraseApps(acc.app_map, entry.pid)]

Stage ==
  /\ pc = "stage"
  /\ LET acc == FoldLeft(StageUsages, [usages |-> <<>>, app_map |-> app_map], stats)
     IN usages' = acc.usages /\ app_map' = acc.app_map
  /\ pc' = "sent"
  /\ UNCHANGED <<kernel, setting, round, scan, jobstep_cpu_available, stats, gpu_results>>

-----------------------------------------------------------------------------

KernelNext ==
  \/ \E s \in Stepds : StepStarts(s)
  \/ \E p, c \in Pids : Fork(p, c)
  \/ \E p \in Pids : Spend(p) \/ Exit(p) \/ Reap(p)

ScraperNext ==
  \/ StartRound
  \/ ReadStat
  \/ ReadCmdline
  \/ CheckChild
  \/ EndRound
  \/ Stage

Next == KernelNext \/ ScraperNext

Spec == Init /\ [][Next]_vars

-----------------------------------------------------------------------------
(* Properties.                                                                *)

TypeOK ==
  /\ proc \in [Pids -> Processes]
  /\ pc \in {"wait", "readdir", "cmdline", "check", "stage", "sent"}
  /\ round \in 0 .. setting.scrape_cnt
  /\ todo \subseteq Pids
  /\ cur_result = None \/ (cur_result.pid \in Pids /\ cur_result.ppid \in 0 .. MaxPid)
  /\ result \in [Pids -> Times \union {None}]
  /\ \A p \in 0 .. MaxPid, q \in Pids : q \in Range(child[p]) => result[q] # None
  /\ stepd_pids \subseteq {s \in Stepds : result[s] # None}
  /\ jobstep_cpu_available \subseteq Stepds
  /\ app_map \in [Stepds -> SUBSET (Pids \ Stepds)]

InStep(s) == {p \in Pids : proc[p].step = s}

(* A result never claims more CPU time than the processes of its step, ended  *)
(* ones included, have used: nothing is counted both as the time of a process *)
(* and as that of a waited-for child, whatever ends, is reaped or forked      *)
(* between the reading of two files (worker.cpp:763-776).                     *)
NeverOvercounts ==
  \A i \in DOMAIN stats :
    stats[i].time <= SumFunctionOnSet([p \in Pids |-> proc[p].utime], InStep(stats[i].pid))

Alive(p) == proc[p].state \in {"running", "zombie"}

Descendants(s) ==
  LET generation[n \in 0 .. MaxPid] ==
        IF n = 0 THEN {s} ELSE {p \in Pids : Alive(p) /\ proc[p].ppid \in generation[n - 1]}
  IN UNION {generation[n] : n \in 0 .. MaxPid}

(* When nothing happens during a round its result is exact: the times of all  *)
(* processes below slurmstepd and of all they have waited for, each once      *)
(* (walk_scraped_proc_tree moves u____ into c____ on the way up).             *)
QuietExact ==
  quiet /\ pc \in {"wait", "stage"} =>
    \A i \in DOMAIN stats : stats[i].round = round =>
      stats[i].time = SumFunctionOnSet([p \in Pids |-> proc[p].utime + proc[p].cutime],
                                       Descendants(stats[i].pid))

(* The receiver takes gpu_measurement_cnt elements of the other queue for each *)
(* result: those must be the ones staged for the step in the same round, with  *)
(* none left over (worker.cpp:801-808, 895-917 against messaging.cpp:138-154). *)
GpuPaired ==
  pc = "sent" =>
    gpu_results = FlattenSeq([i \in DOMAIN stats |->
      [n \in 1 .. stats[i].gpu_measurement_cnt |->
        [pid |-> stats[i].pid, round |-> stats[i].round]]])

(* Each application of a step is sent once, however many rounds saw it, and    *)
(* none is left behind.                                                        *)
AppsOnce ==
  pc = "sent" =>
    /\ IsInjective(usages)
    /\ \A s \in Stepds : app_map[s] = {}
=============================================================================
