---------------------------- MODULE Scraper_proof ----------------------------
(***************************************************************************)
(* Proofs about the scraper for every number of processes and every        *)
(* instance: what /proc is read as, what the walk of the tree adds up and  *)
(* what is staged of it.                                                   *)
(***************************************************************************)
EXTENDS Scraper, Folds_proof

-----------------------------------------------------------------------------
(* What holds of the scan, whatever the kernel does meanwhile.             *)

Born(p) == proc[p].state # "unborn"
Gone(p) == proc[p].state = "gone"
Read(p) == result[p] # None

SettingInv == setting \in Settings /\ app_map \in [Stepds -> SUBSET Pids]

(* Between two rounds nothing of the scan is left.                         *)
IdleInv ==
  pc \in {"wait", "stage", "sent"} =>
    /\ todo = {} /\ Recorded = {} /\ stepd_pids = {}
    /\ child = [p \in 0 .. MaxPid |-> <<>>]

(* A pid is read once in a round.                                          *)
TodoInv ==
  /\ \A p \in todo : Born(p) /\ ~Read(p)
  /\ \A p \in Recorded : Born(p)

CurrentInv ==
  /\ pc \in {"cmdline", "check"} =>
       /\ cur_result \in [pid : Pids, ppid : 0 .. MaxPid, utime : Nat, cutime : Nat]
       /\ Born(cur_result.pid)
       /\ cur_result.pid \notin todo
  /\ pc = "cmdline" =>
       ~Read(cur_result.pid) /\ (cur_result.pid \in Stepds => cur_result.ppid = InitPid)
  /\ pc = "check" =>
       /\ unchecked # <<>>
       /\ unchecked \in Seq(DOMAIN child[cur_result.pid])

(* Each record is in one list, once; that of a slurmstepd in the one of init. *)
ChildInv ==
  /\ child \in [0 .. MaxPid -> Seq(0 .. MaxPid)]
  /\ \A p \in 0 .. MaxPid : \A i \in Children(p) :
       Read(child[p][i]) /\ (child[p][i] \in Stepds => p = InitPid)
  /\ \A p, q \in 0 .. MaxPid : \A i \in Children(p), j \in Children(q) :
       child[p][i] = child[q][j] => p = q /\ i = j

(* Nobody starts a slurmstepd but init.                                    *)
StepdInv == \A s \in Stepds : proc[s].ppid = InitPid

TInv ==
  /\ SettingInv
  /\ TypeOK
  /\ IdleInv
  /\ TodoInv
  /\ CurrentInv
  /\ ChildInv
  /\ StepdInv

LEMMA SettingFacts ==
  ASSUME SettingInv
  PROVE  /\ MaxPid \in Nat /\ Stepds \subseteq Pids
         /\ setting.scrape_cnt \in Nat /\ setting.ticks \in Nat /\ setting.readings \in Nat
         /\ None \notin Pids /\ None \notin Times
BY ScraperAssumption DEF SettingInv, IsInstance, Stepds

LEMMA PidsFacts ==
  ASSUME SettingInv
  PROVE  /\ IsFiniteSet(Pids) /\ Pids \subseteq Nat /\ InitPid \notin Pids /\ InitPid \in 0 .. MaxPid
         /\ 0 .. MaxPid = Pids \union {InitPid}
<1>1. MaxPid \in Nat
  BY SettingFacts
<1>2. IsFiniteSet(Pids)
  BY <1>1, FS_Interval DEF Pids
<1> QED BY <1>1, <1>2 DEF Pids, InitPid

-----------------------------------------------------------------------------
(* The kernel.                                                             *)

(* What any step of the kernel leaves of a process, and what a new entry   *)
(* of /proc can be.                                                        *)
KernelMoves ==
  /\ proc' \in [Pids -> Processes]
  /\ \A p \in Pids :
       /\ Born(p) => Born(p)' /\ proc'[p].step = proc[p].step
       /\ Gone(p) => Gone(p)'
       /\ proc[p].utime <= proc'[p].utime
       /\ Gone(p) => proc'[p].utime = proc[p].utime
       /\ p \in Stepds => proc'[p].ppid = InitPid
  /\ todo \subseteq todo'
  /\ \A p \in todo' : p \in todo \/ (p \in Pids /\ ~Born(p) /\ Born(p)')
  /\ pc = "wait" => todo' = todo

LEMMA StartsMoves ==
  ASSUME TInv, NEW s \in Stepds, StepStarts(s)
  PROVE  /\ KernelMoves
         /\ proc[s].state = "unborn" /\ proc'[s].state = "running" /\ proc'[s].step = s
         /\ proc'[s].ppid = proc[s].ppid
         /\ proc'[s].utime = proc[s].utime /\ proc'[s].cutime = proc[s].cutime
         /\ \A q \in Pids : q # s => proc'[q] = proc[q]
<1>1. proc \in [Pids -> Processes] /\ s \in Pids /\ None \notin Pids
  BY SettingFacts DEF TInv, TypeOK
<1>2. proc' = [proc EXCEPT ![s].state = "running", ![s].step = s] /\ proc[s].state = "unborn"
  BY DEF StepStarts
<1>3. proc' = [proc EXCEPT ![s] = [proc[s] EXCEPT !.state = "running", !.step = s]]
  BY <1>1, <1>2
<1>4. [proc[s] EXCEPT !.state = "running", !.step = s] \in Processes
  BY <1>1 DEF Processes
<1>5. proc' \in [Pids -> Processes]
  BY <1>1, <1>3, <1>4
<1>6. \A p \in Pids : p # s => proc'[p] = proc[p]
  BY <1>1, <1>3
<1>7. /\ proc'[s].state = "running" /\ proc'[s].utime = proc[s].utime
      /\ proc'[s].ppid = proc[s].ppid /\ proc'[s].step = s /\ proc'[s].cutime = proc[s].cutime
  BY <1>1, <1>3 DEF Processes
<1>8. \A p \in Pids : proc[p].utime \in Nat
  BY <1>1 DEF Processes
<1>9. todo \subseteq todo' /\ (\A p \in todo' : p \in todo \/ p = s) /\ (pc = "wait" => todo' = todo)
  BY DEF StepStarts, Created
<1>10. StepdInv
  BY DEF TInv
<1> QED BY <1>1, <1>2, <1>5, <1>6, <1>7, <1>8, <1>9, <1>10 DEF KernelMoves, Born, Gone, StepdInv

LEMMA ForkMoves ==
  ASSUME TInv, NEW p \in Pids, NEW c \in Pids, Fork(p, c)
  PROVE  /\ KernelMoves
         /\ proc[p].state = "running" /\ proc[c].state = "unborn" /\ c \notin Stepds
         /\ proc'[c].state = "running" /\ proc'[c].ppid = p /\ proc'[c].step = proc[p].step
         /\ proc'[c].utime = proc[c].utime /\ proc'[c].cutime = proc[c].cutime
         /\ \A q \in Pids : q # c => proc'[q] = proc[q]
<1>1. proc \in [Pids -> Processes] /\ p \in 0 .. MaxPid
  BY PidsFacts DEF TInv, TypeOK
<1>2. /\ proc' = [proc EXCEPT ![c].state = "running", ![c].ppid = p, ![c].step = proc[p].step]
      /\ proc[c].state = "unborn" /\ c \notin Stepds /\ proc[p].state = "running"
  BY DEF Fork
<1>3. proc' = [proc EXCEPT ![c] = [proc[c] EXCEPT !.state = "running", !.ppid = p, !.step = proc[p].step]]
  BY <1>1, <1>2
<1>4. [proc[c] EXCEPT !.state = "running", !.ppid = p, !.step = proc[p].step] \in Processes
  BY <1>1 DEF Processes
<1>5. proc' \in [Pids -> Processes]
  BY <1>1, <1>3, <1>4
<1>6. \A q \in Pids : q # c => proc'[q] = proc[q]
  BY <1>1, <1>3
<1>7. /\ proc'[c].state = "running" /\ proc'[c].ppid = p /\ proc'[c].step = proc[p].step
      /\ proc'[c].utime = proc[c].utime /\ proc'[c].cutime = proc[c].cutime
  BY <1>1, <1>3 DEF Processes
<1>8. \A q \in Pids : proc[q].utime \in Nat
  BY <1>1 DEF Processes
<1>9. todo \subseteq todo' /\ (\A q \in todo' : q \in todo \/ q = c) /\ (pc = "wait" => todo' = todo)
  BY DEF Fork, Created
<1>10. StepdInv
  BY DEF TInv
<1> QED BY <1>1, <1>2, <1>5, <1>6, <1>7, <1>8, <1>9, <1>10 DEF KernelMoves, Born, Gone, StepdInv

LEMMA SpendMoves ==
  ASSUME TInv, NEW p \in Pids, Spend(p)
  PROVE  KernelMoves /\ proc' = [proc EXCEPT ![p] = [proc[p] EXCEPT !.utime = proc[p].utime + 1]]
<1>1. proc \in [Pids -> Processes]
  BY DEF TInv, TypeOK
<1>2. proc' = [proc EXCEPT ![p].utime = @ + 1] /\ proc[p].state = "running" /\ todo' = todo
  BY DEF Spend
<1>3. proc' = [proc EXCEPT ![p] = [proc[p] EXCEPT !.utime = proc[p].utime + 1]]
  BY <1>1, <1>2
<1>4. [proc[p] EXCEPT !.utime = proc[p].utime + 1] \in Processes
  BY <1>1 DEF Processes
<1>5. proc' \in [Pids -> Processes]
  BY <1>1, <1>3, <1>4
<1>6. \A q \in Pids : q # p => proc'[q] = proc[q]
  BY <1>1, <1>3
<1>7. \A q \in Pids : proc[q].utime \in Nat
  BY <1>1 DEF Processes
<1>8. /\ proc'[p].state = "running" /\ proc'[p].utime = proc[p].utime + 1
      /\ proc'[p].ppid = proc[p].ppid /\ proc'[p].step = proc[p].step
  BY <1>1, <1>2, <1>3 DEF Processes
<1>10. StepdInv
  BY DEF TInv
<1> QED BY <1>2, <1>3, <1>5, <1>6, <1>7, <1>8, <1>10 DEF KernelMoves, Born, Gone, StepdInv

LEMMA ExitMoves ==
  ASSUME TInv, NEW p \in Pids, Exit(p)
  PROVE  /\ KernelMoves
         /\ \A q \in Pids : /\ proc'[q].state = IF q = p THEN "zombie" ELSE proc[q].state
                            /\ proc'[q].ppid \in {InitPid, proc[q].ppid}
                            /\ proc'[q].step = proc[q].step
                            /\ proc'[q].utime = proc[q].utime /\ proc'[q].cutime = proc[q].cutime
<1>1. proc \in [Pids -> Processes] /\ InitPid \in 0 .. MaxPid
  BY PidsFacts DEF TInv, TypeOK
<1>2. /\ proc[p].state = "running" /\ todo' = todo
      /\ proc' = [q \in Pids |->
                CASE q = p -> [proc[p] EXCEPT !.state = "zombie"]
                  [] q # p /\ proc[q].ppid = p -> [proc[q] EXCEPT !.ppid = InitPid]
                  [] OTHER -> proc[q]]
  BY DEF Exit
<1>3. ASSUME NEW q \in Pids
      PROVE  /\ proc'[q] \in Processes
             /\ proc'[q].state = IF q = p THEN "zombie" ELSE proc[q].state
             /\ proc'[q].ppid \in {InitPid, proc[q].ppid}
             /\ proc'[q].step = proc[q].step
             /\ proc'[q].utime = proc[q].utime /\ proc'[q].cutime = proc[q].cutime
  <2>1. proc[q] \in Processes
    BY <1>1
  <2>2. CASE q = p
    <3>1. proc'[q] = [proc[q] EXCEPT !.state = "zombie"]
      BY <1>2, <2>2
    <3> QED BY <2>1, <2>2, <3>1 DEF Processes
  <2>3. CASE q # p /\ proc[q].ppid = p
    <3>1. proc'[q] = [proc[q] EXCEPT !.ppid = InitPid]
      BY <1>2, <2>3
    <3> QED BY <1>1, <2>1, <2>3, <3>1 DEF Processes
  <2>4. CASE q # p /\ proc[q].ppid # p
    <3>1. proc'[q] = proc[q]
      BY <1>2, <2>4
    <3> QED BY <2>1, <2>4, <3>1 DEF Processes
  <2> QED BY <2>2, <2>3, <2>4
<1>4. proc' \in [Pids -> Processes]
  <2>1. DOMAIN proc' = Pids /\ proc' = [q \in Pids |-> proc'[q]]
    BY <1>2
  <2> QED BY <1>3, <2>1
<1>5. \A q \in Pids : proc[q].utime \in Nat
  BY <1>1 DEF Processes
<1>10. StepdInv
  BY DEF TInv
<1> QED BY <1>2, <1>3, <1>4, <1>5, <1>10 DEF KernelMoves, Born, Gone, StepdInv

LEMMA ReapMoves ==
  ASSUME TInv, NEW c \in Pids, Reap(c)
  PROVE  /\ KernelMoves
         /\ proc[c].state = "zombie" /\ Gone(c)'
         /\ proc'[c].ppid = InitPid
         /\ \A q \in Pids :
              /\ proc'[q].step = proc[q].step /\ proc'[q].utime = proc[q].utime
              /\ q # c => proc'[q].state = proc[q].state /\ proc'[q].ppid = proc[q].ppid
              /\ q # c => proc'[q].cutime = IF q = proc[c].ppid
                                              THEN proc[q].cutime + (proc[c].utime + proc[c].cutime)
                                              ELSE proc[q].cutime
<1> DEFINE p == proc[c].ppid
           gone == [proc EXCEPT ![c].state = "gone", ![c].ppid = InitPid]
<1>1. proc \in [Pids -> Processes] /\ InitPid \in 0 .. MaxPid /\ 0 .. MaxPid = Pids \union {InitPid}
  BY PidsFacts DEF TInv, TypeOK
<1>2. /\ proc[c].state = "zombie" /\ todo' = todo
      /\ proc' = IF p = InitPid THEN gone
                 ELSE [gone EXCEPT ![p].cutime = @ + proc[c].utime + proc[c].cutime]
  BY DEF Reap
<1>3. p \in 0 .. MaxPid /\ \A q \in Pids : proc[q] \in Processes
  BY <1>1 DEF Processes
<1>4. /\ gone \in [Pids -> Processes]
      /\ gone[c] = [proc[c] EXCEPT !.state = "gone", !.ppid = InitPid]
      /\ \A q \in Pids : q # c => gone[q] = proc[q]
  <2>1. gone = [proc EXCEPT ![c] = [proc[c] EXCEPT !.state = "gone", !.ppid = InitPid]]
    BY <1>1
  <2>2. [proc[c] EXCEPT !.state = "gone", !.ppid = InitPid] \in Processes
    BY <1>1, <1>3 DEF Processes
  <2> HIDE DEF gone
  <2> QED BY <1>1, <2>1, <2>2
<1>5. /\ gone[c].state = "gone" /\ gone[c].ppid = InitPid
      /\ gone[c].step = proc[c].step /\ gone[c].utime = proc[c].utime
  BY <1>3, <1>4 DEF Processes
<1> HIDE DEF gone
<1>6. \A q \in Pids : proc[q].utime \in Nat /\ proc[q].cutime \in Nat /\ gone[q].cutime \in Nat
  BY <1>3, <1>4 DEF Processes
<1>7. CASE p = InitPid
  <2>1. proc' = gone
    BY <1>2, <1>7
  <2>2. \A q \in Pids : q # p
    BY <1>7, PidsFacts DEF TInv
  <2>3. /\ proc[c].state = "zombie" /\ Gone(c)' /\ proc'[c].ppid = InitPid
        /\ \A q \in Pids :
              /\ proc'[q].step = proc[q].step /\ proc'[q].utime = proc[q].utime
              /\ q # c => proc'[q].state = proc[q].state /\ proc'[q].ppid = proc[q].ppid
    BY <1>2, <1>4, <1>5, <2>1 DEF Gone
  <2>4. KernelMoves
    <3>1. \A q \in Pids : q \in Stepds => proc'[q].ppid = InitPid
      BY <2>3 DEF StepdInv, TInv
    <3>2. \A q \in Pids : (Born(q) => Born(q)') /\ (Gone(q) => Gone(q)')
      BY <2>3 DEF Born, Gone
    <3>3. \A q \in Pids : proc[q].utime <= proc'[q].utime /\ proc'[q].utime = proc[q].utime
      BY <1>6, <2>3
    <3>4. proc' \in [Pids -> Processes] /\ todo' = todo
      BY <1>2, <1>4, <2>1
    <3> QED BY <2>3, <3>1, <3>2, <3>3, <3>4 DEF KernelMoves
  <2>5. \A q \in Pids : q # c => proc'[q].cutime = proc[q].cutime
    BY <1>4, <2>1
  <2> HIDE DEF p
  <2> QED BY <2>2, <2>3, <2>4, <2>5 DEF p
<1>8. CASE p # InitPid
  <2>1. p \in Pids
    BY <1>1, <1>3, <1>8
  <2> DEFINE times == proc[c].utime + proc[c].cutime
  <2>2. gone[p].cutime + proc[c].utime + proc[c].cutime = gone[p].cutime + times /\ times \in Nat
    BY <1>6, <2>1
  <2>3. proc' = [gone EXCEPT ![p] = [gone[p] EXCEPT !.cutime = gone[p].cutime + times]]
    BY <1>2, <1>4, <1>8, <2>1, <2>2
  <2> HIDE DEF times, p
  <2>4. [gone[p] EXCEPT !.cutime = gone[p].cutime + times] \in Processes
    BY <1>4, <1>6, <2>1, <2>2 DEF Processes
  <2>5. proc' \in [Pids -> Processes] /\ (\A q \in Pids : q # p => proc'[q] = gone[q])
        /\ proc'[p] = [gone[p] EXCEPT !.cutime = gone[p].cutime + times]
    BY <1>4, <2>1, <2>3, <2>4
  <2>6. /\ proc'[p].state = gone[p].state /\ proc'[p].ppid = gone[p].ppid
        /\ proc'[p].step = gone[p].step /\ proc'[p].utime = gone[p].utime
        /\ proc'[p].cutime = gone[p].cutime + times
    BY <1>4, <2>1, <2>5 DEF Processes
  <2>7. \A q \in Pids : /\ proc'[q].state = gone[q].state /\ proc'[q].ppid = gone[q].ppid
                        /\ proc'[q].step = gone[q].step /\ proc'[q].utime = gone[q].utime
                        /\ q # p => proc'[q].cutime = gone[q].cutime
    BY <2>5, <2>6
  <2>8. /\ proc[c].state = "zombie" /\ Gone(c)' /\ proc'[c].ppid = InitPid
        /\ \A q \in Pids :
              /\ proc'[q].step = proc[q].step /\ proc'[q].utime = proc[q].utime
              /\ q # c => proc'[q].state = proc[q].state /\ proc'[q].ppid = proc[q].ppid
    <3>1. \A q \in Pids : /\ gone[q].step = proc[q].step /\ gone[q].utime = proc[q].utime
                          /\ q # c => gone[q].state = proc[q].state /\ gone[q].ppid = proc[q].ppid
      BY <1>4, <1>5
    <3>2. Gone(c)' /\ proc'[c].ppid = InitPid
      BY <1>5, <2>7 DEF Gone
    <3> QED BY <1>2, <2>7, <3>1, <3>2
  <2>9. KernelMoves
    <3>1. \A q \in Pids : q \in Stepds => proc'[q].ppid = InitPid
      BY <2>8 DEF StepdInv, TInv
    <3>2. \A q \in Pids : (Born(q) => Born(q)') /\ (Gone(q) => Gone(q)')
      BY <2>8 DEF Born, Gone
    <3>3. \A q \in Pids : proc[q].utime <= proc'[q].utime /\ proc'[q].utime = proc[q].utime
      BY <1>6, <2>8
    <3>4. proc' \in [Pids -> Processes] /\ todo' = todo
      BY <1>2, <2>5
    <3> QED BY <2>8, <3>1, <3>2, <3>3, <3>4 DEF KernelMoves
  <2>10. \A q \in Pids : q # c =>
           proc'[q].cutime = IF q = p THEN proc[q].cutime + times ELSE proc[q].cutime
    BY <1>4, <2>6, <2>7
  <2>11. \A q \in Pids : q # c =>
           proc'[q].cutime = IF q = proc[c].ppid THEN proc[q].cutime + (proc[c].utime + proc[c].cutime)
                                                 ELSE proc[q].cutime
    BY <2>10 DEF times, p
  <2> QED BY <2>8, <2>9, <2>11
<1> QED BY <1>7, <1>8

LEMMA KernelStep ==
  ASSUME TInv, KernelNext
  PROVE  KernelMoves /\ Kernel
<1>1. ASSUME NEW s \in Stepds, StepStarts(s) PROVE KernelMoves /\ Kernel
  BY <1>1, StartsMoves DEF StepStarts
<1>2. ASSUME NEW p \in Pids, NEW c \in Pids, Fork(p, c) PROVE KernelMoves /\ Kernel
  BY <1>2, ForkMoves DEF Fork
<1>3. ASSUME NEW p \in Pids, Spend(p) PROVE KernelMoves /\ Kernel
  BY <1>3, SpendMoves DEF Spend
<1>4. ASSUME NEW p \in Pids, Exit(p) PROVE KernelMoves /\ Kernel
  BY <1>4, ExitMoves DEF Exit
<1>5. ASSUME NEW c \in Pids, Reap(c) PROVE KernelMoves /\ Kernel
  BY <1>5, ReapMoves DEF Reap
<1> QED BY <1>1, <1>2, <1>3, <1>4, <1>5 DEF KernelNext

LEMMA KernelTyped ==
  ASSUME TInv, KernelNext
  PROVE  TInv'
<1>1. KernelMoves /\ Kernel
  BY KernelStep
<1>2. /\ UNCHANGED <<setting, pc, round, cur_result, unchecked, child, result, stepd_pids,
                     jobstep_cpu_available, app_map>>
      /\ pc \notin {"stage", "sent"}
  BY <1>1 DEF Kernel, staged
<1>3. SettingInv' /\ Stepds' = Stepds
  BY <1>2 DEF TInv, SettingInv, Stepds
<1>4. TypeOK'
  <2>1. todo' \subseteq Pids
    BY <1>1 DEF KernelMoves, TInv, TypeOK
  <2> QED BY <1>1, <1>2, <1>3, <2>1 DEF KernelMoves, TInv, TypeOK
<1>5. IdleInv'
  BY <1>1, <1>2 DEF KernelMoves, TInv, IdleInv, Recorded
<1>6. TodoInv'
  <2>1. todo \subseteq Pids /\ Recorded \subseteq Pids
    BY DEF TInv, TypeOK, Recorded
  <2>2. Recorded' = Recorded /\ \A p : Read(p)' <=> Read(p)
    BY <1>2 DEF Recorded, Read
  <2>3. \A p \in Pids : ~Born(p) => ~Read(p)
    BY DEF TInv, TodoInv, Recorded, Read
  <2> QED BY <1>1, <2>1, <2>2, <2>3 DEF KernelMoves, TInv, TodoInv
<1>7. CurrentInv'
  <2>1. pc \in {"cmdline", "check"} => cur_result.pid \in Pids /\ Born(cur_result.pid)
    BY DEF TInv, CurrentInv
  <2>2. pc \in {"cmdline", "check"} => Born(cur_result.pid)' /\ cur_result.pid \notin todo'
    BY <1>1, <1>2, <2>1 DEF KernelMoves, TInv, CurrentInv, Born
  <2> QED BY <1>2, <1>3, <2>2 DEF TInv, CurrentInv, Read
<1>8. ChildInv'
  BY <1>2, <1>3 DEF TInv, ChildInv, Children, Read
<1>9. StepdInv'
  BY <1>1, <1>3, SettingFacts DEF KernelMoves, TInv, StepdInv
<1> QED BY <1>3, <1>4, <1>5, <1>6, <1>7, <1>8, <1>9 DEF TInv
-----------------------------------------------------------------------------
(* The scan.                                                               *)

LEMMA StartTyped ==
  ASSUME TInv, StartRound
  PROVE  TInv'
<1>1. /\ pc = "wait" /\ round < setting.scrape_cnt /\ round' = round + 1 /\ pc' = "readdir"
      /\ todo' = Listed
      /\ UNCHANGED <<proc, setting, cur_result, unchecked, child, result, stepd_pids,
                     jobstep_cpu_available, app_map>>
  BY DEF StartRound, staged
<1>2. SettingInv' /\ Stepds' = Stepds
  BY <1>1 DEF TInv, SettingInv, Stepds
<1>3. Recorded = {} /\ Recorded' = {} /\ \A p \in Pids : ~Read(p)
  BY <1>1 DEF TInv, IdleInv, Recorded, Read
<1>4. TypeOK'
  <2>1. round' \in 0 .. setting.scrape_cnt
    BY <1>1, SettingFacts DEF TInv, TypeOK
  <2>2. Listed \subseteq Pids
    BY DEF Listed
  <2> QED BY <1>1, <1>2, <2>1, <2>2 DEF TInv, TypeOK
<1>5. IdleInv'
  BY <1>1 DEF IdleInv
<1>6. TodoInv'
  <2>1. \A p \in Listed : p \in Pids /\ Born(p)
    BY DEF Listed, Born
  <2>2. \A p \in Pids : (Born(p)' <=> Born(p)) /\ ~Read(p)'
    BY <1>1, <1>3 DEF Born, Read
  <2> QED BY <1>1, <1>3, <2>1, <2>2 DEF TodoInv
<1>7. CurrentInv'
  BY <1>1 DEF CurrentInv
<1>8. ChildInv'
  BY <1>1, <1>2 DEF TInv, ChildInv, Children, Read
<1>9. StepdInv'
  BY <1>1, <1>2 DEF TInv, StepdInv
<1> QED BY <1>2, <1>4, <1>5, <1>6, <1>7, <1>8, <1>9 DEF TInv

LEMMA FirstTodo ==
  ASSUME TInv, todo # {}
  PROVE  Min(todo) \in todo /\ Min(todo) \in Pids
<1>1. todo \in SUBSET Nat /\ todo \subseteq Pids
  BY PidsFacts DEF TInv, TypeOK
<1>2. Min(todo) \in todo
  BY <1>1, MinOf
<1> QED BY <1>1, <1>2

LEMMA StatTyped ==
  ASSUME TInv, ReadStat
  PROVE  TInv'
<1>0. PICK p : p = Min(todo)
  OBVIOUS
<1> DEFINE stat == [pid |-> p, ppid |-> proc[p].ppid,
                    utime |-> proc[p].utime, cutime |-> proc[p].cutime]
<1>1. /\ pc = "readdir" /\ todo # {} /\ todo' = todo \ {p}
      /\ \/ p \in Listed /\ cur_result' = stat /\ pc' = "cmdline"
         \/ p \notin Listed /\ cur_result' = cur_result /\ pc' = "readdir"
      /\ UNCHANGED <<proc, setting, round, unchecked, child, result, stepd_pids,
                     jobstep_cpu_available, app_map>>
  BY <1>0 DEF ReadStat, kernel, staged
<1>2. SettingInv' /\ Stepds' = Stepds
  BY <1>1 DEF TInv, SettingInv, Stepds
<1>3. p \in todo /\ p \in Pids /\ Born(p) /\ ~Read(p)
  BY <1>0, <1>1, FirstTodo DEF TInv, TodoInv
<1>4. stat \in [pid : Pids, ppid : 0 .. MaxPid, utime : Nat, cutime : Nat]
  BY <1>3 DEF TInv, TypeOK, Processes
<1>5. stat.pid = p /\ stat.ppid = proc[p].ppid
  OBVIOUS
<1> HIDE DEF stat
<1>6. cur_result' = None \/ (cur_result'.pid \in Pids /\ cur_result'.ppid \in 0 .. MaxPid)
  BY <1>1, <1>4 DEF TInv, TypeOK
<1>7. TypeOK'
  BY <1>1, <1>2, <1>6 DEF TInv, TypeOK
<1>8. IdleInv'
  BY <1>1 DEF IdleInv
<1>9. TodoInv'
  BY <1>1 DEF TInv, TodoInv, Recorded, Read, Born
<1>10. CurrentInv'
  <2>1. CASE p \notin Listed
    BY <1>1, <2>1 DEF CurrentInv
  <2>2. CASE p \in Listed
    <3>1. cur_result' = stat /\ pc' = "cmdline"
      BY <1>1, <2>2
    <3>2. p \in Stepds => proc[p].ppid = InitPid
      BY DEF TInv, StepdInv
    <3>3. Born(p)' /\ ~Read(p)' /\ p \notin todo'
      BY <1>1, <1>3 DEF Born, Read
    <3> QED BY <1>1, <1>2, <1>4, <1>5, <3>1, <3>2, <3>3 DEF CurrentInv
  <2> QED BY <2>1, <2>2
<1>11. ChildInv'
  BY <1>1, <1>2 DEF TInv, ChildInv, Children, Read
<1>12. StepdInv'
  BY <1>1, <1>2 DEF TInv, StepdInv
<1> QED BY <1>2, <1>7, <1>8, <1>9, <1>10, <1>11, <1>12 DEF TInv

(* What putting a process into the tree makes of the lists.                *)
LEMMA PutIntoTree ==
  ASSUME TInv, ReadCmdline, NEW p, p = cur_result.pid, NEW y, y = cur_result.ppid
  PROVE  /\ p \in Pids /\ y \in 0 .. MaxPid /\ pc = "cmdline" /\ ~Read(p)
         /\ result' = [result EXCEPT ![p] = [utime |-> cur_result.utime, cutime |-> cur_result.cutime]]
         /\ result'[p] \in Times /\ Read(p)'
         /\ \A q \in Pids : q # p => (Read(q)' <=> Read(q)) /\ result'[q] = result[q]
         /\ child' \in [0 .. MaxPid -> Seq(0 .. MaxPid)]
         /\ \A z \in 0 .. MaxPid : z # y => child'[z] = child[z] /\ Children(z)' = Children(z)
         /\ Len(child[y]) + 1 \notin Children(y)
         /\ Children(y)' = Children(y) \union {Len(child[y]) + 1}
         /\ \A i \in Children(y) : child'[y][i] = child[y][i]
         /\ child'[y][Len(child[y]) + 1] = p
         /\ Recorded' = Recorded \union {p}
<1> DEFINE n == Len(child[y])
           times == [utime |-> cur_result.utime, cutime |-> cur_result.cutime]
<1>1. /\ pc = "cmdline"
      /\ child' = [child EXCEPT ![y] = Append(child[y], p)]
      /\ result' = [result EXCEPT ![p] = times]
  BY DEF ReadCmdline
<1>2. p \in Pids /\ y \in 0 .. MaxPid /\ times \in Times /\ ~Read(p)
  BY <1>1 DEF TInv, CurrentInv, Times
<1>3. child \in [0 .. MaxPid -> Seq(0 .. MaxPid)] /\ p \in 0 .. MaxPid /\ p # 0
  BY <1>2, PidsFacts DEF TInv, ChildInv, InitPid
<1>4. child[y] \in Seq(0 .. MaxPid) /\ n \in Nat /\ DOMAIN child[y] = 1 .. n
  BY <1>2, <1>3, LenProperties
<1>5. /\ Append(child[y], p) \in Seq(0 .. MaxPid)
      /\ Len(Append(child[y], p)) = n + 1
      /\ \A i \in 1 .. n : Append(child[y], p)[i] = child[y][i]
      /\ Append(child[y], p)[n + 1] = p
  BY <1>3, <1>4, AppendProperties
<1>6. DOMAIN Append(child[y], p) = 1 .. n + 1
  BY <1>5, LenProperties
<1> DEFINE longer == Append(child[y], p)
<1>7. /\ longer \in Seq(0 .. MaxPid) /\ DOMAIN longer = 1 .. n + 1 /\ longer[n + 1] = p
      /\ \A i \in 1 .. n : longer[i] = child[y][i]
      /\ child' = [child EXCEPT ![y] = longer]
  BY <1>1, <1>5, <1>6
<1> HIDE DEF longer, n, times
<1>8. /\ child' \in [0 .. MaxPid -> Seq(0 .. MaxPid)] /\ child'[y] = longer
      /\ \A z \in 0 .. MaxPid : z # y => child'[z] = child[z]
  BY <1>2, <1>3, <1>7
<1>9. \A z \in 0 .. MaxPid : z # y => Children(z)' = Children(z)
  BY <1>8 DEF Children
<1>10. Children(y)' = {i \in 1 .. n + 1 : longer[i] # 0}
  BY <1>7, <1>8 DEF Children
<1>11. Children(y) = {i \in 1 .. n : child[y][i] # 0}
  BY <1>4 DEF Children
<1>12. 1 .. n + 1 = (1 .. n) \union {n + 1} /\ n + 1 \notin 1 .. n
  BY <1>4
<1>13. Children(y)' = Children(y) \union {n + 1}
  BY <1>3, <1>7, <1>10, <1>11, <1>12
<1>14. \A i \in Children(y) : child'[y][i] = child[y][i]
  BY <1>7, <1>8, <1>11
<1>15. result \in [Pids -> Times \union {None}] /\ None \notin Times
  BY SettingFacts DEF TInv, TypeOK
<1>16. /\ result'[p] = times /\ Read(p)'
       /\ \A q \in Pids : q # p => (Read(q)' <=> Read(q)) /\ result'[q] = result[q]
  BY <1>1, <1>2, <1>15 DEF Read
<1>17. Recorded' = Recorded \union {p}
  BY <1>2, <1>16 DEF Recorded, Read
<1>18. n + 1 \notin Children(y) /\ child'[y][n + 1] = p
  BY <1>7, <1>8, <1>11, <1>12
<1>19. result' = [result EXCEPT ![p] = [utime |-> cur_result.utime, cutime |-> cur_result.cutime]]
  BY <1>1 DEF times
<1> HIDE DEF Read, Children, Recorded
<1>20. /\ p \in Pids /\ y \in 0 .. MaxPid /\ pc = "cmdline" /\ ~Read(p)
       /\ result' = [result EXCEPT ![p] = [utime |-> cur_result.utime, cutime |-> cur_result.cutime]]
       /\ result'[p] \in Times /\ Read(p)'
       /\ \A q \in Pids : q # p => (Read(q)' <=> Read(q)) /\ result'[q] = result[q]
       /\ child' \in [0 .. MaxPid -> Seq(0 .. MaxPid)]
       /\ \A z \in 0 .. MaxPid : z # y => child'[z] = child[z] /\ Children(z)' = Children(z)
       /\ n + 1 \notin Children(y)
       /\ Children(y)' = Children(y) \union {n + 1}
       /\ \A i \in Children(y) : child'[y][i] = child[y][i]
       /\ child'[y][n + 1] = p
       /\ Recorded' = Recorded \union {p}
  BY <1>1, <1>2, <1>8, <1>9, <1>13, <1>14, <1>16, <1>17, <1>18, <1>19
<1> QED BY <1>20 DEF n

LEMMA CmdlineTyped ==
  ASSUME TInv, ReadCmdline
  PROVE  TInv'
<1>0. PICK p, y : p = cur_result.pid /\ y = cur_result.ppid
  OBVIOUS
<1> DEFINE n == Len(child[y])
<1>1. /\ p \in Pids /\ y \in 0 .. MaxPid /\ pc = "cmdline" /\ ~Read(p)
      /\ result' = [result EXCEPT ![p] = [utime |-> cur_result.utime, cutime |-> cur_result.cutime]]
      /\ result'[p] \in Times /\ Read(p)'
      /\ \A q \in Pids : q # p => (Read(q)' <=> Read(q)) /\ result'[q] = result[q]
      /\ child' \in [0 .. MaxPid -> Seq(0 .. MaxPid)]
      /\ \A z \in 0 .. MaxPid : z # y => child'[z] = child[z] /\ Children(z)' = Children(z)
      /\ n + 1 \notin Children(y)
      /\ Children(y)' = Children(y) \union {n + 1}
      /\ \A i \in Children(y) : child'[y][i] = child[y][i]
      /\ child'[y][n + 1] = p
      /\ Recorded' = Recorded \union {p}
  BY <1>0, PutIntoTree
<1>2. /\ stepd_pids' \in {stepd_pids, stepd_pids \union {p}}
      /\ p \notin Stepds => stepd_pids' = stepd_pids
      /\ jobstep_cpu_available' \subseteq jobstep_cpu_available \union (Stepds \intersect {p})
      /\ unchecked' = [i \in DOMAIN child[p] |-> i]
      /\ pc' = IF child[p] = <<>> THEN "readdir" ELSE "check"
      /\ UNCHANGED <<proc, setting, round, todo, cur_result, app_map>>
  BY <1>0 DEF ReadCmdline, kernel, staged
<1>3. SettingInv' /\ Stepds' = Stepds
  BY <1>2 DEF TInv, SettingInv, Stepds
<1>4. child \in [0 .. MaxPid -> Seq(0 .. MaxPid)] /\ p \in 0 .. MaxPid /\ p # 0
  BY <1>1, PidsFacts DEF TInv, ChildInv, InitPid
<1>5. Born(p) /\ p \notin todo /\ (p \in Stepds => y = InitPid)
  BY <1>0, <1>1 DEF TInv, CurrentInv
<1>6. cur_result \in [pid : Pids, ppid : 0 .. MaxPid, utime : Nat, cutime : Nat]
  BY <1>1 DEF TInv, CurrentInv
<1> HIDE DEF n
<1>7. /\ \A z \in 0 .. MaxPid : \A i \in Children(z) :
           Read(child[z][i]) /\ (child[z][i] \in Stepds => z = InitPid)
      /\ \A z, q \in 0 .. MaxPid : \A i \in Children(z), j \in Children(q) :
           child[z][i] = child[q][j] => z = q /\ i = j
  BY DEF TInv, ChildInv
<1>8. ASSUME NEW z \in 0 .. MaxPid, NEW i \in Children(z)'
      PROVE  \/ i \in Children(z) /\ child'[z][i] = child[z][i] /\ child[z][i] # p
             \/ z = y /\ i = n + 1 /\ child'[z][i] = p
  BY <1>1, <1>7, <1>8
<1>9. ASSUME NEW z \in 0 .. MaxPid, NEW i \in Children(z)
      PROVE  child[z][i] \in Pids /\ child[z][i] # 0
  <2>1. child[z] \in Seq(0 .. MaxPid) /\ i \in DOMAIN child[z] /\ child[z][i] # 0
    BY <1>4 DEF Children
  <2>2. child[z][i] \in 0 .. MaxPid
    BY <2>1, LenProperties, ElementOfSeq
  <2> QED BY <2>1, <2>2, PidsFacts DEF TInv, InitPid
<1>10. ChildInv'
  <2>1. ASSUME NEW z \in 0 .. MaxPid, NEW i \in Children(z)'
        PROVE  Read(child[z][i])' /\ (child'[z][i] \in Stepds => z = InitPid)
    <3>1. Read(child[z][i])' <=> result'[child'[z][i]] # None
      BY DEF Read
    <3>2. CASE i \in Children(z) /\ child'[z][i] = child[z][i] /\ child[z][i] # p
      BY <1>1, <1>7, <1>9, <3>1, <3>2 DEF Read
    <3>3. CASE z = y /\ i = n + 1 /\ child'[z][i] = p
      BY <1>1, <1>5, <3>1, <3>3 DEF Read
    <3> QED BY <1>8, <2>1, <3>2, <3>3
  <2>2. ASSUME NEW z \in 0 .. MaxPid, NEW q \in 0 .. MaxPid,
               NEW i \in Children(z)', NEW j \in Children(q)', child'[z][i] = child'[q][j]
        PROVE  z = q /\ i = j
    BY <1>7, <1>8, <2>2
  <2> QED BY <1>1, <1>3, <2>1, <2>2 DEF ChildInv
<1>11. CurrentInv'
  <2>1. pc' = "check" => unchecked' # <<>> /\ unchecked' \in Seq(DOMAIN child'[p])
    <3> SUFFICES ASSUME child[p] # <<>> PROVE unchecked' # <<>> /\ unchecked' \in Seq(DOMAIN child'[p])
      BY <1>2
    <3>1. child[p] \in Seq(0 .. MaxPid) /\ child'[p] \in Seq(0 .. MaxPid)
      BY <1>1, <1>4
    <3>2. Len(child[p]) \in Nat \ {0} /\ DOMAIN child[p] = 1 .. Len(child[p])
      BY <3>1, EmptySeq, LenProperties
    <3>3. DOMAIN child[p] \subseteq DOMAIN child'[p]
      <4>1. CASE p # y
        BY <1>1, <1>4, <4>1
      <4>2. CASE p = y
        <5>1. DOMAIN child'[p] = 1 .. Len(child'[p]) /\ Len(child'[p]) \in Nat
          BY <3>1, LenProperties
        <5>2. n + 1 \in DOMAIN child'[p] /\ n = Len(child[p])
          BY <1>1, <4>2 DEF Children, n
        <5> QED BY <3>2, <5>1, <5>2
      <4> QED BY <4>1, <4>2
    <3>4. unchecked' \in Seq(DOMAIN child'[p]) /\ Len(unchecked') = Len(child[p])
      BY <1>2, <3>2, <3>3
    <3> QED BY <3>2, <3>4, EmptySeq
  <2>2. pc' \in {"readdir", "check"} /\ cur_result' = cur_result /\ todo' = todo /\ proc' = proc
    BY <1>2
  <2>3. pc' # "cmdline" /\ Born(p)' /\ Read(p)' /\ p = cur_result'.pid
    BY <1>0, <1>1, <1>5, <2>2 DEF Born
  <2> HIDE DEF Read, Born
  <2> QED BY <1>5, <1>6, <2>1, <2>2, <2>3 DEF CurrentInv
<1>12. TodoInv'
  <2>1. todo \subseteq Pids /\ \A q : Born(q)' <=> Born(q)
    BY <1>2 DEF TInv, TypeOK, Born
  <2> QED BY <1>1, <1>2, <1>5, <2>1 DEF TInv, TodoInv
<1>13. TypeOK'
  <2>1. pc' \in {"wait", "readdir", "cmdline", "check", "stage", "sent"}
    BY <1>2
  <2>2. result' \in [Pids -> Times \union {None}]
    BY <1>1 DEF TInv, TypeOK
  <2>3. \A z \in 0 .. MaxPid, q \in Pids : q \in Range(child'[z]) => result'[q] # None
    <3> SUFFICES ASSUME NEW z \in 0 .. MaxPid, NEW q \in Pids, q \in Range(child'[z])
                 PROVE  result'[q] # None
      OBVIOUS
    <3>1. PICK i \in DOMAIN child'[z] : child'[z][i] = q
      BY DEF Range
    <3>2. i \in Children(z)'
      BY <3>1, PidsFacts DEF Children, TInv, InitPid
    <3> QED BY <1>10, <3>1, <3>2 DEF ChildInv, Read
  <2>4. stepd_pids' \subseteq {s \in Stepds : result'[s] # None}
    <3>1. \A s \in Stepds : result[s] # None => result'[s] # None
      BY <1>1, SettingFacts DEF TInv, Read
    <3> QED BY <1>1, <1>2, <3>1 DEF TInv, TypeOK, Read
  <2>5. jobstep_cpu_available' \subseteq Stepds
    BY <1>2 DEF TInv, TypeOK
  <2> QED BY <1>2, <1>3, <2>1, <2>2, <2>3, <2>4, <2>5 DEF TInv, TypeOK
<1>14. IdleInv'
  BY <1>2 DEF IdleInv
<1>15. StepdInv'
  BY <1>2, <1>3 DEF TInv, StepdInv
<1> QED BY <1>3, <1>10, <1>11, <1>12, <1>13, <1>14, <1>15 DEF TInv

(* What looking for a child makes of the lists: it stays, or it is taken   *)
(* out of the list of its parent and its record is dropped.                *)
Stays == UNCHANGED <<child, result>>

Dropped(p, i, c) ==
  /\ i \in Children(p) /\ c = child[p][i] /\ c \in Pids /\ c \notin Listed /\ c \notin Stepds
  /\ result' = [result EXCEPT ![c] = None]
  /\ result' \in [Pids -> Times \union {None}]
  /\ child' \in [0 .. MaxPid -> Seq(0 .. MaxPid)]
  /\ \A q \in Pids : (Read(q)' <=> Read(q) /\ q # c) /\ (q # c => result'[q] = result[q])
  /\ \A z \in 0 .. MaxPid : \A j \in Children(z) : (child[z][j] = c <=> z = p /\ j = i)
  /\ \A z \in 0 .. MaxPid :
       /\ Len(child'[z]) = Len(child[z])
       /\ Children(z)' = {j \in Children(z) : child[z][j] # c}
       /\ \A j \in Children(z)' : child'[z][j] = child[z][j]

LEMMA CheckMoves ==
  ASSUME TInv, CheckChild, NEW p, p = cur_result.pid, NEW i, i = Head(unchecked),
         NEW c, c = child[p][i]
  PROVE  /\ pc = "check" /\ p \in Pids
         /\ i \in DOMAIN child[p] /\ unchecked' \in Seq(DOMAIN child[p])
         /\ pc' = IF unchecked' = <<>> THEN "readdir" ELSE "check"
         /\ Range(unchecked) \subseteq Range(unchecked') \union {i}
         /\ \/ Stays /\ (c \in Listed \/ c = 0)
            \/ Dropped(p, i, c)
<1>1. /\ pc = "check" /\ unchecked' = Tail(unchecked)
      /\ pc' = IF Len(unchecked) = 1 THEN "readdir" ELSE "check"
      /\ IF c \in Listed THEN UNCHANGED <<child, result>> ELSE DropChild(p, i)
  BY DEF CheckChild
<1>2. /\ p \in Pids /\ p \in 0 .. MaxPid /\ p # 0 /\ unchecked # <<>>
      /\ unchecked \in Seq(DOMAIN child[p])
  BY <1>1, PidsFacts DEF TInv, CurrentInv, InitPid
<1>3. /\ i \in DOMAIN child[p] /\ unchecked' \in Seq(DOMAIN child[p])
      /\ Len(unchecked) \in Nat /\ Len(unchecked') = Len(unchecked) - 1
      /\ \A k \in 1 .. Len(unchecked') : unchecked'[k] = unchecked[k + 1]
  BY <1>1, <1>2, HeadTailProperties, EmptySeq
<1>4. Len(unchecked) = 1 <=> unchecked' = <<>>
  BY <1>3, EmptySeq
<1>5. Range(unchecked) \subseteq Range(unchecked') \union {i}
  <2> SUFFICES ASSUME NEW k \in DOMAIN unchecked, unchecked[k] # i
               PROVE  unchecked[k] \in Range(unchecked')
    BY DEF Range
  <2>1. DOMAIN unchecked = 1 .. Len(unchecked) /\ DOMAIN unchecked' = 1 .. Len(unchecked')
    BY <1>2, <1>3, LenProperties
  <2>2. i = unchecked[1]
    BY <1>2, HeadTailProperties
  <2>3. k - 1 \in 1 .. Len(unchecked') /\ (k - 1) + 1 = k
    BY <1>3, <2>1, <2>2
  <2>4. unchecked'[k - 1] = unchecked[k]
    BY <1>3, <2>3
  <2> QED BY <2>1, <2>3, <2>4 DEF Range
<1>6. child \in [0 .. MaxPid -> Seq(0 .. MaxPid)] /\ result \in [Pids -> Times \union {None}]
  BY DEF TInv, ChildInv, TypeOK
<1>7. child[p] \in Seq(0 .. MaxPid) /\ c \in 0 .. MaxPid /\ 0 \in 0 .. MaxPid
  <2>1. child[p] \in Seq(0 .. MaxPid)
    BY <1>2, <1>6
  <2>2. i \in 1 .. Len(child[p])
    BY <1>3, <2>1, LenProperties
  <2> QED BY <2>1, <2>2, ElementOfSeq, PidsFacts DEF TInv, InitPid
<1>8. CASE c \in Listed
  BY <1>1, <1>2, <1>3, <1>4, <1>5, <1>8 DEF Stays
<1>9. CASE c \notin Listed
  <2> DEFINE list == [child[p] EXCEPT ![i] = 0]
  <2>1. result' = [result EXCEPT ![c] = None] /\ child' = [child EXCEPT ![p] = list]
    BY <1>1, <1>2, <1>6, <1>9 DEF DropChild
  <2>2. list \in Seq(0 .. MaxPid) /\ Len(list) = Len(child[p]) /\ DOMAIN list = DOMAIN child[p]
        /\ list[i] = 0 /\ \A j \in DOMAIN child[p] : j # i => list[j] = child[p][j]
    BY <1>3, <1>7, ExceptSeq, LenProperties
  <2> HIDE DEF list
  <2>3. CASE c = 0
    <3>1. 0 \notin Pids /\ list = child[p]
      <4>1. \A j \in DOMAIN child[p] : list[j] = child[p][j]
        BY <2>2, <2>3
      <4> QED BY <1>7, <2>2, <4>1, PidsFacts, SeqEqual DEF TInv, InitPid
    <3>2. result' = result /\ child' = child
      BY <1>6, <2>1, <2>3, <3>1
    <3> QED BY <1>1, <1>2, <1>3, <1>4, <1>5, <2>3, <3>2 DEF Stays
  <2>4. CASE c # 0
    <3>1. c \in Pids /\ i \in Children(p)
      BY <1>3, <1>7, <2>4, PidsFacts DEF TInv, Children, InitPid
    <3>2. Read(c) /\ c \notin Stepds
      BY <1>2, <3>1 DEF TInv, ChildInv, InitPid
    <3>3. result' \in [Pids -> Times \union {None}] /\ None \notin Times
      BY <1>6, <2>1, SettingFacts DEF TInv
    <3>4. \A q \in Pids : (Read(q)' <=> Read(q) /\ q # c) /\ (q # c => result'[q] = result[q])
      BY <1>6, <2>1, <3>1 DEF Read
    <3>5. /\ child' \in [0 .. MaxPid -> Seq(0 .. MaxPid)] /\ child'[p] = list
          /\ \A z \in 0 .. MaxPid : z # p => child'[z] = child[z]
      BY <1>2, <1>6, <2>1, <2>2
    <3>6. \A z \in 0 .. MaxPid : \A j \in Children(z) : (child[z][j] = c <=> z = p /\ j = i)
      BY <1>2, <3>1 DEF TInv, ChildInv
    <3>7. ASSUME NEW z \in 0 .. MaxPid
          PROVE  /\ Len(child'[z]) = Len(child[z])
                 /\ Children(z)' = {j \in Children(z) : child[z][j] # c}
                 /\ \A j \in Children(z)' : child'[z][j] = child[z][j]
      <4>1. CASE z # p
        <5>1. child'[z] = child[z]
          BY <3>5, <4>1
        <5>2. Children(z)' = Children(z)
          BY <5>1 DEF Children
        <5> QED BY <3>6, <4>1, <5>1, <5>2
      <4>2. CASE z = p
        <5>1. Children(p) = {j \in DOMAIN child[p] : child[p][j] # 0}
          BY DEF Children
        <5>2. Children(p)' = {j \in DOMAIN child[p] : list[j] # 0}
          BY <2>2, <3>5 DEF Children
        <5>3. Children(p)' = {j \in Children(p) : child[p][j] # c}
          BY <2>2, <3>6, <5>1, <5>2, <1>2
        <5> QED BY <2>2, <3>1, <3>5, <3>6, <4>2, <5>2, <5>3
      <4> QED BY <4>1, <4>2
    <3>8. Dropped(p, i, c)
      BY <1>9, <2>1, <3>1, <3>2, <3>3, <3>4, <3>5, <3>6, <3>7 DEF Dropped
    <3> QED BY <1>1, <1>2, <1>3, <1>4, <1>5, <3>8
  <2> QED BY <2>3, <2>4
<1> QED BY <1>8, <1>9


LEMMA CheckTyped ==
  ASSUME TInv, CheckChild
  PROVE  TInv'
<1>0. PICK p, i : p = cur_result.pid /\ i = Head(unchecked)
  OBVIOUS
<1>00. PICK c : c = child[p][i]
  OBVIOUS
<1>1. /\ pc = "check" /\ p \in Pids
      /\ i \in DOMAIN child[p] /\ unchecked' \in Seq(DOMAIN child[p])
      /\ pc' = IF unchecked' = <<>> THEN "readdir" ELSE "check"
      /\ Stays \/ Dropped(p, i, c)
  BY <1>0, <1>00, CheckMoves
<1>2. UNCHANGED <<proc, setting, round, todo, cur_result, stepd_pids, jobstep_cpu_available, app_map>>
  BY DEF CheckChild, kernel, staged
<1>3. SettingInv' /\ Stepds' = Stepds
  BY <1>2 DEF TInv, SettingInv, Stepds
<1>4. IdleInv' /\ StepdInv'
  BY <1>1, <1>2, <1>3 DEF TInv, IdleInv, StepdInv
<1>5. /\ \A q : Born(q)' <=> Born(q)
      /\ p \in 0 .. MaxPid /\ child \in [0 .. MaxPid -> Seq(0 .. MaxPid)]
  BY <1>1, <1>2, PidsFacts DEF Born, TInv, ChildInv
<1>6. CASE Stays
  <2>1. child' = child /\ result' = result
    BY <1>6 DEF Stays
  <2>2. TypeOK'
    BY <1>1, <1>2, <1>3, <2>1 DEF TInv, TypeOK
  <2>3. TodoInv' /\ ChildInv'
    BY <1>2, <1>3, <2>1 DEF TInv, TodoInv, ChildInv, Recorded, Read, Born, Children
  <2>4. CurrentInv'
    BY <1>0, <1>1, <1>2, <1>5, <2>1 DEF TInv, CurrentInv
  <2> QED BY <1>3, <1>4, <2>2, <2>3, <2>4 DEF TInv
<1>7. CASE Dropped(p, i, c)
  <2>1. TodoInv'
    <3>1. \A q \in Pids : Read(q)' => Read(q)
      BY <1>7 DEF Dropped
    <3>2. todo \subseteq Pids /\ Recorded \subseteq Pids /\ \A q \in Recorded' : q \in Pids /\ Read(q)'
      BY DEF TInv, TypeOK, Recorded, Read
    <3>3. \A q \in Recorded' : q \in Recorded
      BY <3>1, <3>2 DEF Recorded, Read
    <3> QED BY <1>2, <1>5, <3>1, <3>2, <3>3 DEF TInv, TodoInv
  <2>2. ChildInv'
    <3>1. ASSUME NEW z \in 0 .. MaxPid, NEW j \in Children(z)'
          PROVE  /\ j \in Children(z) /\ child'[z][j] = child[z][j] /\ child[z][j] # c
                 /\ Read(child[z][j])'
                 /\ child'[z][j] \in Stepds => z = InitPid
      <4>1. j \in Children(z) /\ child'[z][j] = child[z][j] /\ child[z][j] # c
        BY <1>7 DEF Dropped
      <4>2. child[z][j] \in Pids
        <5>1. child[z] \in Seq(0 .. MaxPid) /\ j \in DOMAIN child[z] /\ child[z][j] # 0
          BY <1>5, <4>1 DEF Children
        <5>2. child[z][j] \in 0 .. MaxPid
          BY <5>1, ElementOfSeq, LenProperties
        <5> QED BY <5>1, <5>2, PidsFacts DEF TInv, InitPid
      <4>3. Read(child[z][j]) /\ (child[z][j] \in Stepds => z = InitPid)
        BY <4>1 DEF TInv, ChildInv
      <4>4. result'[child[z][j]] # None
        BY <1>7, <4>1, <4>2, <4>3 DEF Dropped, Read
      <4> QED BY <4>1, <4>3, <4>4 DEF Read
    <3>2. ASSUME NEW z \in 0 .. MaxPid, NEW q \in 0 .. MaxPid,
                 NEW j \in Children(z)', NEW k \in Children(q)', child'[z][j] = child'[q][k]
          PROVE  z = q /\ j = k
      BY <3>1, <3>2 DEF TInv, ChildInv
    <3>3. child' \in [0 .. MaxPid -> Seq(0 .. MaxPid)]
      BY <1>7 DEF Dropped
    <3> QED BY <1>3, <3>1, <3>2, <3>3 DEF ChildInv
  <2>3. TypeOK'
    <3>1. stepd_pids \subseteq {s \in Stepds : result'[s] # None}
      BY <1>7, SettingFacts DEF TInv, TypeOK, Dropped, Read
    <3>2. \A z \in 0 .. MaxPid, q \in Pids : q \in Range(child'[z]) => result'[q] # None
      <4> SUFFICES ASSUME NEW z \in 0 .. MaxPid, NEW q \in Pids, q \in Range(child'[z])
                   PROVE  result'[q] # None
        OBVIOUS
      <4>1. PICK j \in DOMAIN child'[z] : child'[z][j] = q
        BY DEF Range
      <4>2. j \in Children(z)'
        BY <4>1, PidsFacts DEF Children, TInv, InitPid
      <4> QED BY <2>2, <4>1, <4>2 DEF ChildInv, Read
    <3>3. pc' \in {"wait", "readdir", "cmdline", "check", "stage", "sent"}
          /\ result' \in [Pids -> Times \union {None}]
      BY <1>1, <1>7 DEF Dropped
    <3> QED BY <1>2, <1>3, <3>1, <3>2, <3>3 DEF TInv, TypeOK
  <2>4. CurrentInv'
    <3>1. DOMAIN child'[p] = DOMAIN child[p]
      BY <1>5, <1>7, LenProperties DEF Dropped
    <3> QED BY <1>0, <1>1, <1>2, <1>5, <3>1 DEF TInv, CurrentInv
  <2> QED BY <1>3, <1>4, <2>1, <2>2, <2>3, <2>4 DEF TInv
<1> QED BY <1>1, <1>6, <1>7

-----------------------------------------------------------------------------
(* The walk of the tree.                                                   *)

Found == [time : Nat, gpu : Nat, apps : SUBSET Pids]

Walking(w, readings) ==
  [n \in 0 .. MaxPid |->
    [q \in Recorded |->
       Visit(q, [i \in {j \in Children(q) : n > 0} |-> w[n - 1][child[q][i]]], readings)]]

LEMMA TreeFacts ==
  ASSUME TInv
  PROVE  /\ Recorded \subseteq Pids /\ IsFiniteSet(Recorded)
         /\ \A q \in Recorded : Own(q) \in Nat /\ IsFiniteSet(Children(q))
         /\ \A q \in Recorded : \A i \in Children(q) : child[q][i] \in Recorded
<1>1. /\ IsFiniteSet(Pids) /\ 0 .. MaxPid = Pids \union {0} /\ Recorded \subseteq Pids
  BY PidsFacts DEF TInv, InitPid, Recorded
<1>2. /\ result \in [Pids -> Times \union {None}]
      /\ child \in [0 .. MaxPid -> Seq(0 .. MaxPid)]
  BY DEF TInv, TypeOK, ChildInv
<1>3. ASSUME NEW q \in Recorded PROVE Own(q) \in Nat /\ IsFiniteSet(Children(q))
  <2>1. result[q] \in Times
    BY <1>2 DEF Recorded
  <2>2. child[q] \in Seq(0 .. MaxPid)
    BY <1>1, <1>2
  <2>3. Len(child[q]) \in Nat /\ DOMAIN child[q] = 1 .. Len(child[q])
    BY <2>2, LenProperties
  <2>4. IsFiniteSet(DOMAIN child[q]) /\ Children(q) \subseteq DOMAIN child[q]
    BY <2>3, FS_Interval DEF Children
  <2> QED BY <2>1, <2>4, FS_Subset DEF Times, Own
<1>4. ASSUME NEW q \in Recorded, NEW i \in Children(q) PROVE child[q][i] \in Recorded
  <2>1. q \in 0 .. MaxPid
    BY <1>1
  <2>2. child[q] \in Seq(0 .. MaxPid) /\ i \in DOMAIN child[q] /\ child[q][i] # 0
    BY <1>2, <2>1 DEF Children
  <2>3. child[q][i] \in Pids
    BY <1>1, <2>2, ElementOfSeq, LenProperties
  <2>4. result[child[q][i]] # None
    BY <2>1 DEF TInv, ChildInv, Read
  <2> QED BY <2>3, <2>4 DEF Recorded
<1> QED BY <1>1, <1>3, <1>4, FS_Subset

(* What is below a process, and the times and numbers in it.               *)
Below(q, D, below, f, g) ==
  /\ D \in SUBSET Children(q)
  /\ below \in [D -> Found]
  /\ f \in [D -> Nat] /\ \A i \in D : f[i] = below[i].time
  /\ g \in [D -> Nat] /\ \A i \in D : g[i] = below[i].gpu

Visited(v, q, D, below, f, g, readings) ==
  /\ v \in Found
  /\ v.time = Own(q) + SumFunctionOnSet(f, D)
  /\ v.gpu = (IF q \in readings THEN 1 ELSE 0) + SumFunctionOnSet(g, D)
  /\ v.apps = {q} \union UNION {below[i].apps : i \in D}

LEMMA BelowThem ==
  ASSUME NEW q, NEW D \in SUBSET Children(q), NEW below \in [D -> Found]
  PROVE  \E f, g : Below(q, D, below, f, g)
<1> DEFINE f == [i \in D |-> below[i].time]
           g == [i \in D |-> below[i].gpu]
<1>1. Below(q, D, below, f, g)
  BY DEF Found, Below
<1> QED BY <1>1

LEMMA VisitTyped ==
  ASSUME TInv, NEW q \in Recorded, NEW D, NEW below, NEW f, NEW g, Below(q, D, below, f, g),
         NEW readings
  PROVE  Visited(Visit(q, below, readings), q, D, below, f, g, readings)
<1>0. /\ D \in SUBSET Children(q) /\ below \in [D -> Found]
      /\ f \in [D -> Nat] /\ \A i \in D : f[i] = below[i].time
      /\ g \in [D -> Nat] /\ \A i \in D : g[i] = below[i].gpu
  BY DEF Below
<1> DEFINE v == Visit(q, below, readings)
<1>1. IsFiniteSet(D) /\ q \in Pids /\ Own(q) \in Nat
  BY <1>0, TreeFacts, FS_Subset
<1>2. \A i \in D : below[i].time \in Nat /\ below[i].gpu \in Nat /\ below[i].apps \in SUBSET Pids
  BY <1>0 DEF Found
<1>3. \A i \in D : f[i] \in Nat /\ g[i] \in Nat
  BY <1>0
<1>4. f = [i \in D |-> below[i].time] /\ g = [i \in D |-> below[i].gpu] /\ DOMAIN below = D
      /\ DOMAIN f = D /\ DOMAIN g = D
  BY <1>0
<1>5. v = [time |-> Own(q) + SumFunctionOnSet(f, D),
           gpu |-> (IF q \in readings THEN 1 ELSE 0) + SumFunctionOnSet(g, D),
           apps |-> {q} \union UNION {below[i].apps : i \in D}]
  BY <1>4 DEF Visit, SumFunction
<1>6. SumFunctionOnSet(f, D) \in Nat /\ SumFunctionOnSet(g, D) \in Nat
  BY <1>1, <1>3, SumStep DEF SumSteps
<1>7. UNION {below[i].apps : i \in D} \in SUBSET Pids
  BY <1>2
<1>8. v \in Found
  BY <1>1, <1>5, <1>6, <1>7 DEF Found
<1> HIDE DEF v
<1> QED BY <1>5, <1>8 DEF Visited, v

LEMMA WalksAgree ==
  ASSUME MaxPid \in Nat, NEW readings, NEW u, u = Walking(u, readings),
         NEW v, v = Walking(v, readings)
  PROVE  u = v
<1> DEFINE T == {n \in 0 .. MaxPid : u[n] = v[n]}
           At(w, n) == [q \in Recorded |->
             Visit(q, [i \in {j \in Children(q) : n > 0} |-> w[n - 1][child[q][i]]], readings)]
<1>1. /\ u = [n \in 0 .. MaxPid |-> At(u, n)]
      /\ v = [n \in 0 .. MaxPid |-> At(v, n)]
  BY DEF Walking
<1>2. At(u, 0) = At(v, 0)
  <2>1. \A q : [i \in {j \in Children(q) : 0 > 0} |-> u[0 - 1][child[q][i]]]
             = [i \in {j \in Children(q) : 0 > 0} |-> v[0 - 1][child[q][i]]]
    OBVIOUS
  <2> QED BY <2>1
<1>3. ASSUME NEW n \in 1 .. MaxPid, u[n - 1] = v[n - 1] PROVE At(u, n) = At(v, n)
  BY <1>3
<1> HIDE DEF At
<1>4. 0 \in T
  BY <1>1, <1>2
<1>5. \A n \in 1 .. MaxPid : n - 1 \in T => n \in T
  BY <1>1, <1>3
<1> HIDE DEF T
<1>6. 0 .. MaxPid \subseteq T
  BY <1>4, <1>5, StepsTo
<1>7. \A n \in 0 .. MaxPid : u[n] = v[n]
  BY <1>6 DEF T
<1>8. u = [n \in 0 .. MaxPid |-> u[n]] /\ v = [n \in 0 .. MaxPid |-> v[n]]
  BY <1>1
<1> QED BY <1>7, <1>8

(* What the walk finds, by how far down it goes.                           *)
LEMMA WalkParts ==
  ASSUME TInv, NEW readings
  PROVE  \E w \in [0 .. MaxPid -> [Recorded -> Found]] :
           w = Walking(w, readings) /\ \A p : Walk(p, readings) = w[MaxPid][p]
<1> DEFINE At(w, n) == [q \in Recorded |->
             Visit(q, [i \in {j \in Children(q) : n > 0} |-> w[n - 1][child[q][i]]], readings)]
           All == [0 .. MaxPid -> [Recorded -> Found]]
           Upto(k, w) == \A n \in 0 .. k : w[n] = At(w, n)
           T == {k \in 0 .. MaxPid : \E w \in All : Upto(k, w)}
<1>0. MaxPid \in Nat
  BY SettingFacts DEF TInv
<1>1. ASSUME NEW n \in 0 .. MaxPid, NEW w, n > 0 => w[n - 1] \in [Recorded -> Found]
      PROVE  At(w, n) \in [Recorded -> Found]
  <2> SUFFICES ASSUME NEW q \in Recorded
               PROVE  Visit(q, [i \in {j \in Children(q) : n > 0} |-> w[n - 1][child[q][i]]], readings) \in Found
    OBVIOUS
  <2> DEFINE D == {j \in Children(q) : n > 0}
             below == [i \in D |-> w[n - 1][child[q][i]]]
  <2>1. D \in SUBSET Children(q) /\ below \in [D -> Found]
    BY <1>1, TreeFacts
  <2> HIDE DEF D, below
  <2>2. PICK f, g : Below(q, D, below, f, g)
    BY <2>1, BelowThem
  <2>3. Visited(Visit(q, below, readings), q, D, below, f, g, readings)
    BY <2>2, VisitTyped
  <2>4. Visit(q, below, readings) \in Found
    BY <2>3 DEF Visited
  <2> QED BY <2>4 DEF D, below
<1>2. ASSUME NEW u, NEW v, NEW n \in 0 .. MaxPid, n > 0 => u[n - 1] = v[n - 1]
      PROVE  At(u, n) = At(v, n)
  <2>1. CASE n > 0
    BY <1>2, <2>1
  <2>2. CASE ~(n > 0)
    <3>1. \A q : [i \in {j \in Children(q) : n > 0} |-> u[n - 1][child[q][i]]]
               = [i \in {j \in Children(q) : n > 0} |-> v[n - 1][child[q][i]]]
      BY <2>2
    <3> QED BY <3>1
  <2> QED BY <2>1, <2>2
<1> HIDE DEF At
<1>3. 0 \in T
  <2> DEFINE none == At(<<>>, 0)
             w == [n \in 0 .. MaxPid |-> none]
  <2>1. none \in [Recorded -> Found]
    BY <1>0, <1>1
  <2>2. w \in All /\ w[0] = none
    BY <1>0, <2>1
  <2>3. At(w, 0) = none
    <3> HIDE DEF w
    <3> QED BY <1>0, <1>2
  <2> HIDE DEF w, none
  <2>4. Upto(0, w)
    <3>1. \A n \in 0 .. 0 : n = 0
      OBVIOUS
    <3> QED BY <2>2, <2>3, <3>1
  <2> QED BY <1>0, <2>2, <2>4
<1>4. ASSUME NEW k \in 1 .. MaxPid, k - 1 \in T PROVE k \in T
  <2>1. PICK w \in All : Upto(k - 1, w)
    BY <1>4
  <2>2. w[k - 1] \in [Recorded -> Found] /\ k \in 0 .. MaxPid
    BY <1>0
  <2> DEFINE next == At(w, k)
             x == [n \in 0 .. MaxPid |-> IF n = k THEN next ELSE w[n]]
  <2>3. next \in [Recorded -> Found]
    BY <1>1, <2>2
  <2> HIDE DEF next
  <2>4. x \in All /\ \A n \in 0 .. MaxPid : x[n] = IF n = k THEN next ELSE w[n]
    BY <2>3
  <2> HIDE DEF x
  <2>5. ASSUME NEW n \in 0 .. k PROVE x[n] = At(x, n)
    <3>1. n \in 0 .. MaxPid /\ (n > 0 => x[n - 1] = w[n - 1])
      BY <1>0, <2>4
    <3>2. At(x, n) = At(w, n)
      BY <1>2, <3>1
    <3>3. CASE n = k
      BY <2>4, <3>1, <3>2, <3>3 DEF next
    <3>4. CASE n # k
      <4>1. n \in 0 .. k - 1
        BY <1>0, <3>4
      <4> QED BY <2>1, <2>4, <3>1, <3>2, <3>4, <4>1
    <3> QED BY <3>3, <3>4
  <2> QED BY <2>2, <2>4, <2>5
<1> HIDE DEF T
<1>5. MaxPid \in T
  BY <1>0, <1>3, <1>4, StepsTo
<1>6. PICK w \in All : Upto(MaxPid, w)
  BY <1>5 DEF T
<1>7. w = Walking(w, readings)
  BY <1>6 DEF Walking, At
<1>8. \A v : v = Walking(v, readings) => v = w
  BY <1>0, <1>7, WalksAgree
<1>9. \A p : Walk(p, readings) = w[MaxPid][p]
  <2>1. (CHOOSE v : v = Walking(v, readings)) = w
    BY <1>7, <1>8
  <2>2. \A p : Walk(p, readings) = (CHOOSE v : v = Walking(v, readings))[MaxPid][p]
    BY DEF Walk, Walking
  <2> QED BY <2>1, <2>2
<1> QED BY <1>6, <1>7, <1>9

LEMMA WalkFound ==
  ASSUME TInv, NEW readings, NEW p \in Recorded
  PROVE  Walk(p, readings) \in Found
<1>1. PICK w \in [0 .. MaxPid -> [Recorded -> Found]] : \A q : Walk(q, readings) = w[MaxPid][q]
  BY WalkParts
<1>2. MaxPid \in 0 .. MaxPid
  BY SettingFacts DEF TInv
<1> QED BY <1>1, <1>2

(* One level of it: what is counted of a process and of those below it.    *)
Level(w, n, q, D, f, g, readings) ==
  /\ D = {j \in Children(q) : n > 0}
  /\ f \in [D -> Nat] /\ \A i \in D : f[i] = w[n - 1][child[q][i]].time
  /\ g \in [D -> Nat] /\ \A i \in D : g[i] = w[n - 1][child[q][i]].gpu
  /\ w[n][q].time = Own(q) + SumFunctionOnSet(f, D)
  /\ w[n][q].gpu = (IF q \in readings THEN 1 ELSE 0) + SumFunctionOnSet(g, D)
  /\ w[n][q].apps = {q} \union UNION {w[n - 1][child[q][i]].apps : i \in D}

LEMMA WalkLevel ==
  ASSUME TInv, NEW readings, NEW w \in [0 .. MaxPid -> [Recorded -> Found]],
         w = Walking(w, readings), NEW n \in 0 .. MaxPid, NEW q \in Recorded
  PROVE  \E D, f, g : Level(w, n, q, D, f, g, readings)
<1> DEFINE D == {j \in Children(q) : n > 0}
           below == [i \in D |-> w[n - 1][child[q][i]]]
<1>4. w[n][q] = Visit(q, below, readings)
  <2>1. Walking(w, readings)[n][q] = Visit(q, below, readings)
    BY DEF Walking
  <2> HIDE DEF D, below
  <2> QED BY <2>1
<1>1. D = {j \in Children(q) : n > 0} /\ below = [i \in D |-> w[n - 1][child[q][i]]]
  OBVIOUS
<1> HIDE DEF D, below
<1>2. D \in SUBSET Children(q) /\ below \in [D -> Found]
  <2>1. ASSUME NEW i \in D PROVE w[n - 1][child[q][i]] \in Found
    <3>1. n - 1 \in 0 .. MaxPid /\ child[q][i] \in Recorded
      <4>1. MaxPid \in Nat /\ i \in Children(q) /\ n > 0
        BY <1>1, SettingFacts DEF TInv
      <4> QED BY <4>1, TreeFacts
    <3> QED BY <3>1
  <2> QED BY <1>1, <2>1
<1>3. PICK f, g : Below(q, D, below, f, g)
  BY <1>2, BelowThem
<1>5. Visited(w[n][q], q, D, below, f, g, readings)
  BY <1>3, <1>4, VisitTyped
<1>6. UNION {below[i].apps : i \in D} = UNION {w[n - 1][child[q][i]].apps : i \in D}
  BY <1>1
<1>7. Level(w, n, q, D, f, g, readings)
  BY <1>1, <1>3, <1>5, <1>6 DEF Level, Below, Visited
<1> QED BY <1>7

(* Nobody is counted for a GPU without a reading.                          *)
LEMMA WalkNoGpu ==
  ASSUME TInv, NEW p \in Recorded
  PROVE  Walk(p, {}).gpu = 0
<1>0. MaxPid \in Nat
  BY SettingFacts DEF TInv
<1>1. PICK w \in [0 .. MaxPid -> [Recorded -> Found]] :
        w = Walking(w, {}) /\ \A q : Walk(q, {}) = w[MaxPid][q]
  BY WalkParts
<1> DEFINE T == {n \in 0 .. MaxPid : \A q \in Recorded : w[n][q].gpu = 0}
<1>2. ASSUME NEW n \in 0 .. MaxPid, n > 0 => n - 1 \in T PROVE n \in T
  <2> SUFFICES ASSUME NEW q \in Recorded PROVE w[n][q].gpu = 0
    OBVIOUS
  <2>1. PICK D, f, g : Level(w, n, q, D, f, g, {})
    BY <1>1, WalkLevel
  <2>2. D \in SUBSET Children(q) /\ \A i \in D : n > 0
    BY <2>1 DEF Level
  <2>3. ASSUME NEW i \in D PROVE g[i] = 0
    <3>1. n - 1 \in T /\ child[q][i] \in Recorded
      BY <1>2, <2>2, TreeFacts
    <3> QED BY <2>1, <3>1 DEF Level
  <2>4. IsFiniteSet(D)
    BY <2>2, TreeFacts, FS_Subset
  <2>5. SumFunctionOnSet(g, D) = 0
    BY <2>3, <2>4, SumNone
  <2> QED BY <2>1, <2>5 DEF Level
<1> HIDE DEF T
<1>3. 0 .. MaxPid \subseteq T
  <2>1. 0 \in T /\ \A n \in 1 .. MaxPid : n - 1 \in T => n \in T
    BY <1>0, <1>2
  <2> QED BY <1>0, <2>1, StepsTo
<1>4. \A q \in Recorded : w[MaxPid][q].gpu = 0
  <2>1. MaxPid \in T
    BY <1>0, <1>3
  <2> QED BY <2>1 DEF T
<1> QED BY <1>1, <1>4

-----------------------------------------------------------------------------
(* A std::map has its keys in order, each once.                            *)

Sorted(S, seq) ==
  /\ seq \in [1 .. Cardinality(S) -> S]
  /\ \A i, j \in 1 .. Cardinality(S) : i < j => seq[i] < seq[j]

LEMMA SortedExists ==
  ASSUME NEW n \in Nat, NEW S \in SUBSET (0 .. n)
  PROVE  \E seq : Sorted(S, seq)
<1>0. IsFiniteSet(S) /\ \A s \in SUBSET S : IsFiniteSet(s) /\ Cardinality(s) \in Nat
  <2>1. IsFiniteSet(0 .. n)
    BY FS_Interval
  <2> QED BY <2>1, FS_Subset, FS_CardinalityType
<1> DEFINE T == {s \in SUBSET S : \E seq : Sorted(s, seq)}
<1>1. {} \in T
  <2>1. Cardinality({}) = 0 /\ 1 .. 0 = {}
    BY FS_EmptySet
  <2>2. [i \in {} |-> i] \in [{} -> {}]
    OBVIOUS
  <2>3. Sorted({}, [i \in {} |-> i])
    BY <2>1, <2>2 DEF Sorted
  <2> QED BY <2>3
<1>2. ASSUME NEW s \in SUBSET S, s # {} PROVE \E x \in s : s \ {x} \in T => s \in T
  <2>1. PICK x \in s : \A y \in s : y <= x
    <3>1. s \in SUBSET (0 .. n)
      OBVIOUS
    <3> QED BY <1>2, <3>1, MaxOf
  <2> SUFFICES ASSUME s \ {x} \in T PROVE s \in T
    OBVIOUS
  <2>2. PICK low : Sorted(s \ {x}, low)
    OBVIOUS
  <2> DEFINE k == Cardinality(s)
             seq == [i \in 1 .. k |-> IF i = k THEN x ELSE low[i]]
  <2>3. Cardinality(s \ {x}) = k - 1 /\ k \in Nat /\ k - 1 \in Nat
    <3>1. IsFiniteSet(s) /\ k \in Nat /\ Cardinality(s \ {x}) \in Nat
      BY <1>0
    <3> QED BY <3>1, FS_RemoveElement
  <2>4. low \in [1 .. k - 1 -> s \ {x}] /\ \A i, j \in 1 .. k - 1 : i < j => low[i] < low[j]
    BY <2>2, <2>3 DEF Sorted
  <2> HIDE DEF k
  <2>5. \A i \in 1 .. k : i # k => i \in 1 .. k - 1
    BY <2>3
  <2>6. \A i \in 1 .. k : seq[i] = (IF i = k THEN x ELSE low[i]) /\ seq[i] \in s
    BY <2>4, <2>5
  <2>7. seq \in [1 .. k -> s]
    BY <2>6
  <2> HIDE DEF seq
  <2>8. ASSUME NEW i \in 1 .. k, NEW j \in 1 .. k, i < j PROVE seq[i] < seq[j]
    <3>1. i # k /\ i \in 1 .. k - 1
      BY <2>3, <2>8
    <3>2. CASE j = k
      <4>1. seq[i] = low[i] /\ seq[j] = x /\ low[i] \in s \ {x}
        BY <2>4, <2>6, <3>1, <3>2
      <4>20. s \subseteq Nat
        OBVIOUS
      <4>2. low[i] \in Nat /\ x \in Nat /\ low[i] <= x /\ low[i] # x
        BY <2>1, <4>1, <4>20
      <4> QED BY <4>1, <4>2
    <3>3. CASE j # k
      BY <2>4, <2>5, <2>6, <2>8, <3>1, <3>3
    <3> QED BY <3>2, <3>3
  <2>9. Sorted(s, seq)
    BY <2>7, <2>8 DEF Sorted, k
  <2> QED BY <2>9
<1> HIDE DEF T
<1>3. S \in T
  BY <1>0, <1>1, <1>2, SubsetSteps
<1> QED BY <1>3 DEF T

LEMMA OrderedFacts ==
  ASSUME NEW n \in Nat, NEW S \in SUBSET (0 .. n)
  PROVE  /\ Cardinality(S) \in Nat
         /\ Ordered(S) \in [1 .. Cardinality(S) -> S]
         /\ \A i, j \in 1 .. Cardinality(S) : Ordered(S)[i] = Ordered(S)[j] => i = j
<1>1. Sorted(S, Ordered(S))
  <2>1. \E seq \in [1 .. Cardinality(S) -> S] :
          \A i, j \in 1 .. Cardinality(S) : i < j => seq[i] < seq[j]
    BY SortedExists DEF Sorted
  <2> QED BY <2>1 DEF Sorted, Ordered
<1>2. Cardinality(S) \in Nat
  <2>1. IsFiniteSet(0 .. n)
    BY FS_Interval
  <2> QED BY <2>1, FS_Subset, FS_CardinalityType
<1>3. ASSUME NEW i \in 1 .. Cardinality(S), NEW j \in 1 .. Cardinality(S),
             Ordered(S)[i] = Ordered(S)[j]
      PROVE  i = j
  <2>1. Ordered(S)[i] \in 0 .. n
    BY <1>1 DEF Sorted
  <2>2. ~(Ordered(S)[i] < Ordered(S)[j]) /\ ~(Ordered(S)[j] < Ordered(S)[i])
    BY <1>3, <2>1
  <2>3. ~(i < j) /\ ~(j < i)
    BY <1>1, <2>2 DEF Sorted
  <2> QED BY <1>2, <2>3
<1> QED BY <1>1, <1>2, <1>3 DEF Sorted

LEMMA StepsTyped ==
  ASSUME TInv
  PROVE  /\ Steps \in Seq(Stepds) /\ DOMAIN Steps = 1 .. Len(Steps) /\ Len(Steps) \in Nat
         /\ \A i \in DOMAIN Steps : Steps[i] \in Recorded /\ Steps[i] \in Stepds
<1> DEFINE S == {s \in stepd_pids : Watched(s)}
<1>1. S \subseteq Stepds /\ Stepds \subseteq Pids /\ \A s \in S : s \in Recorded
  BY SettingFacts DEF TInv, TypeOK, Recorded
<1>2. S \in SUBSET (0 .. MaxPid) /\ MaxPid \in Nat
  BY <1>1, PidsFacts, SettingFacts DEF TInv
<1>3. Cardinality(S) \in Nat /\ Steps \in [1 .. Cardinality(S) -> S]
  <2> HIDE DEF S
  <2>1. Cardinality(S) \in Nat /\ Ordered(S) \in [1 .. Cardinality(S) -> S]
    BY <1>2, OrderedFacts
  <2> QED BY <2>1 DEF Steps, S
<1> HIDE DEF S
<1>4. Steps \in [1 .. Cardinality(S) -> Stepds]
  BY <1>1, <1>3
<1>5. Steps \in Seq(Stepds)
  BY <1>3, <1>4, SeqDef
<1> QED BY <1>1, <1>3, <1>5, LenProperties

-----------------------------------------------------------------------------
(* What is staged.                                                         *)

Readings == [pid : Stepds, round : Nat]
Entries == [pid : Stepds, round : Nat, time : Nat, gpu_measurement_cnt : Nat]

(* The measurements an entry counts.                                       *)
Piece(e) == [n \in 1 .. e.gpu_measurement_cnt |-> [pid |-> e.pid, round |-> e.round]]
Pieces(entries) == [i \in DOMAIN entries |-> Piece(entries[i])]

StagedInv ==
  /\ stats \in Seq(Entries)
  /\ app_map \in [Stepds -> SUBSET (Pids \ Stepds)]
  /\ gpu_results = FlattenSeq(Pieces(stats))
  /\ pc # "sent" =>
       /\ usages = <<>>
       /\ \A s \in Stepds : app_map[s] # {} => \E i \in DOMAIN stats : stats[i].pid = s

LEMMA Copies ==
  ASSUME NEW A, NEW k \in Nat, NEW x \in A
  PROVE  /\ [n \in 1 .. k |-> x] \in Seq(A) /\ Len([n \in 1 .. k |-> x]) = k
         /\ k = 0 => [n \in 1 .. k |-> x] = <<>>
<1> DEFINE seq == [n \in 1 .. k |-> x]
<1>1. seq \in Seq(A) /\ Len(seq) = k
  OBVIOUS
<1>2. k = 0 => seq = <<>>
  BY <1>1, EmptySeq
<1> QED BY <1>1, <1>2

LEMMA PieceTyped ==
  ASSUME NEW e \in Entries
  PROVE  Piece(e) \in Seq(Readings)
<1>1. [pid |-> e.pid, round |-> e.round] \in Readings /\ e.gpu_measurement_cnt \in Nat
  BY DEF Entries, Readings
<1> QED BY <1>1, Copies DEF Piece

LEMMA PiecesTyped ==
  ASSUME NEW entries \in Seq(Entries)
  PROVE  Pieces(entries) \in Seq(Seq(Readings)) /\ Len(Pieces(entries)) = Len(entries)
         /\ \A i \in 1 .. Len(entries) : Pieces(entries)[i] = Piece(entries[i])
<1>1. DOMAIN entries = 1 .. Len(entries) /\ Len(entries) \in Nat
  BY LenProperties
<1>2. \A i \in 1 .. Len(entries) : Piece(entries[i]) \in Seq(Readings)
  BY PieceTyped, ElementOfSeq
<1> QED BY <1>1, <1>2 DEF Pieces

LEMMA PiecesConcat ==
  ASSUME NEW s \in Seq(Entries), NEW t \in Seq(Entries)
  PROVE  Pieces(s \o t) = Pieces(s) \o Pieces(t)
<1> DEFINE u == s \o t
           l == Pieces(u)
           r == Pieces(s) \o Pieces(t)
<1>1. u \in Seq(Entries) /\ Len(u) = Len(s) + Len(t)
      /\ \A i \in 1 .. Len(s) + Len(t) : u[i] = IF i <= Len(s) THEN s[i] ELSE t[i - Len(s)]
  BY ConcatProperties
<1>2. /\ Pieces(s) \in Seq(Seq(Readings)) /\ Len(Pieces(s)) = Len(s)
      /\ \A i \in 1 .. Len(s) : Pieces(s)[i] = Piece(s[i])
      /\ Pieces(t) \in Seq(Seq(Readings)) /\ Len(Pieces(t)) = Len(t)
      /\ \A i \in 1 .. Len(t) : Pieces(t)[i] = Piece(t[i])
  BY PiecesTyped
<1>3. r \in Seq(Seq(Readings)) /\ Len(r) = Len(s) + Len(t)
      /\ \A i \in 1 .. Len(s) + Len(t) :
           r[i] = IF i <= Len(s) THEN Pieces(s)[i] ELSE Pieces(t)[i - Len(s)]
  <2> DEFINE x == Pieces(s)
             y == Pieces(t)
  <2> HIDE DEF x, y
  <2>1. x \in Seq(Seq(Readings)) /\ y \in Seq(Seq(Readings)) /\ Len(x) = Len(s) /\ Len(y) = Len(t)
    BY <1>2 DEF x, y
  <2>2. x \o y \in Seq(Seq(Readings)) /\ Len(x \o y) = Len(s) + Len(t)
        /\ \A i \in 1 .. Len(s) + Len(t) : (x \o y)[i] = IF i <= Len(s) THEN x[i] ELSE y[i - Len(s)]
    <3>1. PICK A : A = Seq(Readings)
      OBVIOUS
    <3>2. x \in Seq(A) /\ y \in Seq(A)
      BY <2>1, <3>1
    <3>3. x \o y \in Seq(A) /\ Len(x \o y) = Len(x) + Len(y)
          /\ \A i \in 1 .. Len(x) + Len(y) : (x \o y)[i] = IF i <= Len(x) THEN x[i] ELSE y[i - Len(x)]
      BY <3>2, ConcatProperties
    <3> QED BY <2>1, <3>1, <3>3
  <2> QED BY <2>2 DEF x, y
<1>4. l \in Seq(Seq(Readings)) /\ Len(l) = Len(u) /\ \A i \in 1 .. Len(u) : l[i] = Piece(u[i])
  <2> HIDE DEF u
  <2> QED BY <1>1, PiecesTyped
<1>5. Len(s) \in Nat /\ Len(t) \in Nat
  BY LenProperties
<1> HIDE DEF u, l, r
<1>6. ASSUME NEW i \in 1 .. Len(l) PROVE l[i] = r[i]
  <2>1. i \in 1 .. Len(s) + Len(t)
    BY <1>1, <1>4
  <2>2. CASE i <= Len(s)
    <3>1. i \in 1 .. Len(s)
      BY <1>5, <2>1, <2>2
    <3> QED BY <1>1, <1>2, <1>3, <1>4, <2>1, <2>2, <3>1
  <2>3. CASE ~(i <= Len(s))
    <3>1. i - Len(s) \in 1 .. Len(t)
      BY <1>5, <2>1, <2>3
    <3> QED BY <1>1, <1>2, <1>3, <1>4, <2>1, <2>3, <3>1
  <2> QED BY <2>2, <2>3
<1>7. l = r
  <2>1. Len(l) = Len(r)
    BY <1>1, <1>3, <1>4
  <2> QED BY <1>3, <1>4, <1>6, <2>1, SeqEqual
<1> QED BY <1>7 DEF l, r, u

(* The entries of a round.                                                 *)
NewEntries(of_pid, of_job) == [i \in DOMAIN Steps |-> Entry(i, of_pid, of_job)]

LEMMA EntriesTyped ==
  ASSUME TInv, NEW m \in Measured
  PROVE  /\ NewEntries(m[1], m[2]) \in Seq(Entries)
         /\ Len(NewEntries(m[1], m[2])) = Len(Steps)
         /\ \A i \in 1 .. Len(Steps) :
              /\ NewEntries(m[1], m[2])[i] = Entry(i, m[1], m[2])
              /\ Walk(Steps[i], m[1]) \in Found
              /\ Entry(i, m[1], m[2]).gpu_measurement_cnt = Gpus(i, m[1], m[2])
              /\ Entry(i, m[1], m[2]).time = Walk(Steps[i], m[1]).time
              /\ Entry(i, m[1], m[2]).pid = Steps[i] /\ Entry(i, m[1], m[2]).round = round
         /\ m[2] \in Nat
<1>1. m[2] \in Nat
  BY SettingFacts DEF Measured, TInv
<1>2. /\ Steps \in Seq(Stepds) /\ DOMAIN Steps = 1 .. Len(Steps) /\ Len(Steps) \in Nat
      /\ \A i \in DOMAIN Steps : Steps[i] \in Recorded /\ Steps[i] \in Stepds
  BY StepsTyped
<1>3. round \in Nat
  BY SettingFacts DEF TInv, TypeOK
<1>4. ASSUME NEW i \in 1 .. Len(Steps)
      PROVE  /\ Walk(Steps[i], m[1]) \in Found
             /\ Entry(i, m[1], m[2]) \in Entries
  <2>1. Walk(Steps[i], m[1]) \in Found
    BY <1>2, WalkFound
  <2>2. Walk(Steps[i], m[1]).time \in Nat /\ Walk(Steps[i], m[1]).gpu \in Nat
    BY <2>1 DEF Found
  <2>3. Gpus(i, m[1], m[2]) \in Nat
    BY <1>1, <2>2 DEF Gpus
  <2> QED BY <1>2, <1>3, <2>1, <2>2, <2>3 DEF Entry, Entries
<1>5. \A i \in 1 .. Len(Steps) :
        /\ NewEntries(m[1], m[2])[i] = Entry(i, m[1], m[2])
        /\ Entry(i, m[1], m[2]).gpu_measurement_cnt = Gpus(i, m[1], m[2])
        /\ Entry(i, m[1], m[2]).time = Walk(Steps[i], m[1]).time
        /\ Entry(i, m[1], m[2]).pid = Steps[i] /\ Entry(i, m[1], m[2]).round = round
  BY <1>2 DEF NewEntries, Entry
<1>6. NewEntries(m[1], m[2]) \in Seq(Entries) /\ Len(NewEntries(m[1], m[2])) = Len(Steps)
  BY <1>2, <1>4 DEF NewEntries
<1> QED BY <1>1, <1>4, <1>5, <1>6

(* What a provider measured is what the entries count: it knows the        *)
(* processes of its readings or their jobs, never both.                    *)
LEMMA MeasuredCounted ==
  ASSUME TInv, NEW m \in Measured
  PROVE  Measurements(m[1], m[2]) = FlattenSeq(Pieces(NewEntries(m[1], m[2])))
<1> DEFINE n == Len(Steps)
           W == [i \in DOMAIN Steps |-> [k \in 1 .. Walk(Steps[i], m[1]).gpu |-> Reading(Steps[i])]]
           Job(i) == IF OfFirstStep(Steps[i], Before(i)) THEN [k \in 1 .. m[2] |-> Reading(Steps[i])]
                                                         ELSE <<>>
           J == [i \in DOMAIN Steps |-> Job(i)]
           N == NewEntries(m[1], m[2])
           P == Pieces(N)
<1>0. Measurements(m[1], m[2]) = FlattenSeq(W) \o FlattenSeq(J)
  BY DEF Measurements
<1>1. /\ DOMAIN Steps = 1 .. n /\ n \in Nat
      /\ \A i \in 1 .. n : Steps[i] \in Recorded /\ Steps[i] \in Stepds
  BY StepsTyped
<1>2. /\ N \in Seq(Entries) /\ Len(N) = n /\ m[2] \in Nat
      /\ \A i \in 1 .. n :
           /\ N[i] = Entry(i, m[1], m[2])
           /\ Walk(Steps[i], m[1]) \in Found
           /\ Entry(i, m[1], m[2]).gpu_measurement_cnt = Gpus(i, m[1], m[2])
           /\ Entry(i, m[1], m[2]).pid = Steps[i] /\ Entry(i, m[1], m[2]).round = round
  BY EntriesTyped
<1>3. round \in Nat
  BY SettingFacts DEF TInv, TypeOK
<1>4. \A i \in 1 .. n : Reading(Steps[i]) \in Readings /\ Walk(Steps[i], m[1]).gpu \in Nat
  BY <1>1, <1>2, <1>3 DEF Reading, Readings, Found
<1>5. /\ W \in Seq(Seq(Readings)) /\ Len(W) = n
      /\ \A i \in 1 .. n : W[i] = [k \in 1 .. Walk(Steps[i], m[1]).gpu |-> Reading(Steps[i])]
  <2>1. \A i \in 1 .. n : [k \in 1 .. Walk(Steps[i], m[1]).gpu |-> Reading(Steps[i])] \in Seq(Readings)
    BY <1>4, Copies
  <2> QED BY <1>1, <2>1
<1>6. /\ J \in Seq(Seq(Readings)) /\ Len(J) = n
      /\ \A i \in 1 .. n : J[i] = IF OfFirstStep(Steps[i], Before(i))
                                   THEN [k \in 1 .. m[2] |-> Reading(Steps[i])] ELSE <<>>
  <2>1. \A i \in 1 .. n : [k \in 1 .. m[2] |-> Reading(Steps[i])] \in Seq(Readings)
    BY <1>2, <1>4, Copies
  <2>2. <<>> \in Seq(Readings)
    BY EmptySeq
  <2>3. \A i \in 1 .. n : Job(i) \in Seq(Readings)
    BY <2>1, <2>2
  <2>4. J \in Seq(Seq(Readings)) /\ Len(J) = n /\ \A i \in 1 .. n : J[i] = Job(i)
    <3> HIDE DEF Job
    <3> QED BY <1>1, <2>3
  <2> QED BY <2>4
<1>7. /\ P \in Seq(Seq(Readings)) /\ Len(P) = n
      /\ \A i \in 1 .. n : P[i] = [k \in 1 .. Gpus(i, m[1], m[2]) |-> Reading(Steps[i])]
  <2> HIDE DEF N
  <2>1. P \in Seq(Seq(Readings)) /\ Len(P) = n /\ \A i \in 1 .. n : P[i] = Piece(N[i])
    BY <1>2, PiecesTyped
  <2> QED BY <1>2, <2>1 DEF Piece, Reading
<1> HIDE DEF W, J, P, n
<1>8. FlattenSeq(W) \in Seq(Readings) /\ FlattenSeq(J) \in Seq(Readings)
  BY <1>5, <1>6, FlattenConcat
<1>9. CASE m[1] = {}
  <2>1. \A i \in 1 .. n : Walk(Steps[i], m[1]).gpu = 0
    BY <1>1, <1>9, WalkNoGpu
  <2>2. \A i \in 1 .. n : W[i] = <<>>
    BY <1>4, <1>5, <2>1, Copies
  <2>3. FlattenSeq(W) = <<>>
    BY <1>5, <2>2, FlattenNone
  <2>4. ASSUME NEW i \in 1 .. n PROVE J[i] = P[i]
    <3>1. Gpus(i, m[1], m[2]) = IF OfFirstStep(Steps[i], Before(i)) THEN m[2] ELSE 0
      BY <1>2, <2>1 DEF Gpus
    <3>2. CASE OfFirstStep(Steps[i], Before(i))
      BY <1>6, <1>7, <3>1, <3>2
    <3>3. CASE ~OfFirstStep(Steps[i], Before(i))
      <4>1. [k \in 1 .. 0 |-> Reading(Steps[i])] = <<>>
        BY <1>4, Copies
      <4> QED BY <1>6, <1>7, <3>1, <3>3, <4>1
    <3> QED BY <3>2, <3>3
  <2>5. J = P
    BY <1>6, <1>7, <2>4, SeqEqual
  <2>6. <<>> \o FlattenSeq(J) = FlattenSeq(J)
    BY <1>8, ConcatEmptySeq
  <2> QED BY <1>0, <2>3, <2>5, <2>6 DEF P, N
<1>10. CASE m[2] = 0
  <2>1. \A i \in 1 .. n : J[i] = <<>>
    BY <1>4, <1>6, <1>10, Copies
  <2>2. FlattenSeq(J) = <<>>
    BY <1>6, <2>1, FlattenNone
  <2>3. ASSUME NEW i \in 1 .. n PROVE W[i] = P[i]
    <3>1. Gpus(i, m[1], m[2]) = Walk(Steps[i], m[1]).gpu
      BY <1>4, <1>10 DEF Gpus
    <3> QED BY <1>5, <1>7, <3>1
  <2>4. W = P
    BY <1>5, <1>7, <2>3, SeqEqual
  <2>5. FlattenSeq(W) \o <<>> = FlattenSeq(W)
    BY <1>8, ConcatEmptySeq
  <2> QED BY <1>0, <2>2, <2>4, <2>5 DEF P, N
<1>11. m[1] = {} \/ m[2] = 0
  BY DEF Measured
<1> QED BY <1>9, <1>10, <1>11

(* The usages after each result: those of a step come with its first one.  *)

Uses == [pid : Stepds, app : Pids]
Holdings == [usages : Seq(Uses), app_map : [Stepds -> SUBSET (Pids \ Stepds)]]

NothingStaged == [usages |-> <<>>, app_map |-> app_map]
AllStaged == FoldLeft(StageUsages, NothingStaged, stats)

UsedSoFar(k, acc) ==
  /\ acc \in Holdings
  /\ IsInjective(acc.usages)
  /\ \A i \in DOMAIN acc.usages : acc.app_map[acc.usages[i].pid] = {}
  /\ \A i \in 1 .. k : acc.app_map[stats[i].pid] = {}
  /\ \A s \in Stepds : acc.app_map[s] \subseteq app_map[s]

(* Those a result brings are new: it brings none of a step whose           *)
(* applications came before.                                               *)
Brings(acc, s, new, k) ==
  /\ new \in Seq(Uses) /\ Len(new) = k /\ k \in Nat
  /\ acc.app_map[s] = {} => k = 0
  /\ \A i \in 1 .. k : new[i].pid = s
  /\ \A i, j \in 1 .. k : new[i] = new[j] => i = j

LEMMA UsagesBrought ==
  ASSUME SettingInv, NEW acc \in Holdings, NEW s \in Stepds
  PROVE  Brings(acc, s,
                [i \in 1 .. Cardinality(acc.app_map[s]) |->
                   [pid |-> s, app |-> Ordered(acc.app_map[s])[i]]],
                Cardinality(acc.app_map[s]))
<1> DEFINE S == acc.app_map[s]
           k == Cardinality(S)
           new == [i \in 1 .. k |-> [pid |-> s, app |-> Ordered(S)[i]]]
<1>1. S \in SUBSET Pids
  BY DEF Holdings
<1>2. S \in SUBSET (0 .. MaxPid) /\ MaxPid \in Nat
  BY <1>1, PidsFacts, SettingFacts
<1>3. /\ k \in Nat /\ Ordered(S) \in [1 .. k -> S]
      /\ \A i, j \in 1 .. k : Ordered(S)[i] = Ordered(S)[j] => i = j
  <2> HIDE DEF S
  <2> QED BY <1>2, OrderedFacts
<1>4. S = {} => k = 0
  BY FS_EmptySet
<1> HIDE DEF S, k
<1>5. \A i \in 1 .. k : Ordered(S)[i] \in Pids
  BY <1>1, <1>3
<1>6. new \in Seq(Uses) /\ Len(new) = k
  BY <1>3, <1>5 DEF Uses
<1>7. \A i \in 1 .. k : new[i].pid = s /\ new[i].app = Ordered(S)[i]
  OBVIOUS
<1>8. \A i, j \in 1 .. k : new[i] = new[j] => i = j
  BY <1>3, <1>7
<1> HIDE DEF new
<1>9. Brings(acc, s, new, k)
  BY <1>3, <1>4, <1>6, <1>7, <1>8 DEF Brings, S
<1> QED BY <1>9 DEF new, k, S

LEMMA UsagesStep ==
  ASSUME SettingInv, stats \in Seq(Entries),
         NEW k \in 1 .. Len(stats), NEW acc, UsedSoFar(k - 1, acc)
  PROVE  UsedSoFar(k, StageUsages(acc, stats[k]))
<1>0. /\ acc \in Holdings /\ IsInjective(acc.usages)
      /\ \A i \in DOMAIN acc.usages : acc.app_map[acc.usages[i].pid] = {}
      /\ \A i \in 1 .. k - 1 : acc.app_map[stats[i].pid] = {}
      /\ \A s \in Stepds : acc.app_map[s] \subseteq app_map[s]
  BY DEF UsedSoFar
<1>1. Len(stats) \in Nat /\ \A i \in 1 .. Len(stats) : stats[i].pid \in Stepds
  <2>1. Len(stats) \in Nat /\ \A i \in 1 .. Len(stats) : stats[i] \in Entries
    BY LenProperties, ElementOfSeq
  <2> QED BY <2>1 DEF Entries
<1>2. PICK s : s = stats[k].pid /\ s \in Stepds
  BY <1>1
<1>3. PICK c, new : /\ c = Cardinality(acc.app_map[s])
                    /\ new = [i \in 1 .. c |-> [pid |-> s, app |-> Ordered(acc.app_map[s])[i]]]
  OBVIOUS
<1>4. Brings(acc, s, new, c)
  BY <1>0, <1>2, <1>3, UsagesBrought
<1> DEFINE out == StageUsages(acc, stats[k])
           old == acc.usages
<1>5. out = [usages |-> old \o new, app_map |-> [acc.app_map EXCEPT ![s] = {}]]
  BY <1>2, <1>3 DEF StageUsages, EraseApps
<1>6. /\ old \in Seq(Uses) /\ acc.app_map \in [Stepds -> SUBSET (Pids \ Stepds)]
      /\ new \in Seq(Uses) /\ Len(new) = c /\ c \in Nat /\ Len(old) \in Nat
      /\ DOMAIN old = 1 .. Len(old)
  BY <1>0, <1>4, LenProperties DEF Holdings, Brings
<1> HIDE DEF old
<1> DEFINE all == old \o new
<1>7. /\ all \in Seq(Uses) /\ Len(all) = Len(old) + c
      /\ \A i \in 1 .. Len(old) + c : all[i] = IF i <= Len(old) THEN old[i] ELSE new[i - Len(old)]
  BY <1>6, ConcatProperties
<1>8. DOMAIN all = 1 .. Len(old) + c
  BY <1>7, LenProperties
<1> HIDE DEF out
<1>9. out.usages = all /\ out.app_map = [acc.app_map EXCEPT ![s] = {}] /\ out \in Holdings
  BY <1>5, <1>6, <1>7 DEF Holdings
<1> HIDE DEF all
<1>10. out.app_map[s] = {} /\ \A t \in Stepds : out.app_map[t] \subseteq acc.app_map[t]
  BY <1>2, <1>6, <1>9
<1>11. ASSUME NEW i \in 1 .. Len(old) + c
       PROVE  /\ all[i] \in Uses
              /\ \/ i \in 1 .. Len(old) /\ all[i] = old[i] /\ acc.app_map[all[i].pid] = {}
                 \/ i - Len(old) \in 1 .. c /\ all[i] = new[i - Len(old)] /\ all[i].pid = s
  <2>1. all[i] \in Uses
    BY <1>6, <1>7, ElementOfSeq
  <2>2. CASE i <= Len(old)
    <3>1. i \in 1 .. Len(old) /\ all[i] = old[i]
      BY <1>6, <1>7, <2>2
    <3> QED BY <1>0, <1>6, <2>1, <3>1 DEF old
  <2>3. CASE ~(i <= Len(old))
    <3>1. i - Len(old) \in 1 .. c /\ all[i] = new[i - Len(old)]
      BY <1>6, <1>7, <2>3
    <3> QED BY <1>4, <2>1, <3>1 DEF Brings
  <2> QED BY <2>2, <2>3
<1>12. \A i \in DOMAIN all : out.app_map[all[i].pid] = {}
  <2> SUFFICES ASSUME NEW i \in 1 .. Len(old) + c PROVE out.app_map[all[i].pid] = {}
    BY <1>8
  <2>1. all[i].pid \in Stepds
    BY <1>11 DEF Uses
  <2> QED BY <1>10, <1>11, <2>1
<1>13. IsInjective(all)
  <2> SUFFICES ASSUME NEW i \in 1 .. Len(old) + c, NEW j \in 1 .. Len(old) + c, all[i] = all[j]
               PROVE  i = j
    BY <1>8 DEF IsInjective
  <2>1. CASE acc.app_map[s] = {}
    <3>1. c = 0
      BY <1>4, <2>1 DEF Brings
    <3>2. i \in 1 .. Len(old) /\ j \in 1 .. Len(old) /\ old[i] = old[j]
      BY <1>6, <1>11, <3>1
    <3> QED BY <1>0, <1>6, <3>2 DEF IsInjective, old
  <2>2. CASE acc.app_map[s] # {}
    <3>1. CASE i \in 1 .. Len(old) /\ all[i] = old[i] /\ acc.app_map[all[i].pid] = {}
      <4>1. all[j].pid # s
        BY <2>2, <3>1
      <4>2. j \in 1 .. Len(old) /\ all[j] = old[j]
        BY <1>11, <4>1
      <4> QED BY <1>0, <1>6, <3>1, <4>2 DEF IsInjective, old
    <3>2. CASE i - Len(old) \in 1 .. c /\ all[i] = new[i - Len(old)] /\ all[i].pid = s
      <4>1. acc.app_map[all[j].pid] # {}
        BY <2>2, <3>2
      <4>2. j - Len(old) \in 1 .. c /\ all[j] = new[j - Len(old)]
        BY <1>11, <4>1
      <4>3. i - Len(old) = j - Len(old)
        BY <1>4, <3>2, <4>2 DEF Brings
      <4> QED BY <1>6, <4>3
    <3> QED BY <1>11, <3>1, <3>2
  <2> QED BY <2>1, <2>2
<1>14. \A i \in 1 .. k : out.app_map[stats[i].pid] = {}
  <2> SUFFICES ASSUME NEW i \in 1 .. k PROVE out.app_map[stats[i].pid] = {}
    OBVIOUS
  <2>1. i \in 1 .. Len(stats) /\ (i # k => i \in 1 .. k - 1)
    BY <1>1
  <2> QED BY <1>0, <1>1, <1>2, <1>10, <2>1
<1>15. UsedSoFar(k, out)
  BY <1>0, <1>9, <1>10, <1>12, <1>13, <1>14 DEF UsedSoFar
<1> QED BY <1>15 DEF out

LEMMA StageType ==
  ASSUME SettingInv, NEW acc \in Holdings, NEW e \in Entries
  PROVE  StageUsages(acc, e) \in Holdings
<1>1. PICK s, c, new : /\ s = e.pid /\ c = Cardinality(acc.app_map[s])
                       /\ new = [i \in 1 .. c |-> [pid |-> s, app |-> Ordered(acc.app_map[s])[i]]]
  OBVIOUS
<1>2. s \in Stepds
  BY <1>1 DEF Entries
<1>3. new \in Seq(Uses)
  BY <1>1, <1>2, UsagesBrought DEF Brings
<1>4. acc.usages \in Seq(Uses) /\ acc.app_map \in [Stepds -> SUBSET (Pids \ Stepds)]
  BY DEF Holdings
<1>5. acc.usages \o new \in Seq(Uses)
  BY <1>3, <1>4, ConcatProperties
<1>6. [acc.app_map EXCEPT ![s] = {}] \in [Stepds -> SUBSET (Pids \ Stepds)]
  BY <1>2, <1>4
<1>7. StageUsages(acc, e) = [usages |-> acc.usages \o new, app_map |-> [acc.app_map EXCEPT ![s] = {}]]
  BY <1>1 DEF StageUsages, EraseApps
<1> QED BY <1>5, <1>6, <1>7 DEF Holdings

Stagings(R) ==
  /\ R[0] = NothingStaged
  /\ \A k \in 1 .. Len(stats) : R[k] = StageUsages(R[k - 1], stats[k])
  /\ R[Len(stats)] = AllStaged

StagedUpto(g) ==
  [s \in SUBSET (DOMAIN stats) |->
     IF s = {} THEN NothingStaged ELSE StageUsages(g[s \ {Max(s)}], stats[Max(s)])]

LEMMA StageParts ==
  ASSUME SettingInv, StagedInv
  PROVE  \E R : Stagings(R)
<1> DEFINE n == Len(stats)
           H == [p \in Holdings \X (1 .. n) |-> StageUsages(p[1], stats[p[2]])]
           g == CHOOSE g : g = StagedUpto(g)
<1>1. n \in Nat /\ DOMAIN stats = 1 .. n /\ \A k \in 1 .. n : stats[k] \in Entries
  BY ElementOfSeq, LenProperties DEF StagedInv
<1> HIDE DEF n
<1>2. H \in [Holdings \X (1 .. n) -> Holdings]
  <2> SUFFICES ASSUME NEW p \in Holdings \X (1 .. n) PROVE StageUsages(p[1], stats[p[2]]) \in Holdings
    OBVIOUS
  <2>1. p[1] \in Holdings /\ p[2] \in 1 .. n
    OBVIOUS
  <2> QED BY <1>1, <2>1, StageType
<1>3. NothingStaged \in Holdings
  BY EmptySeq DEF NothingStaged, Holdings, StagedInv
<1>4. PICK h \in [SUBSET (1 .. n) -> Holdings] : h = Folding(n, NothingStaged, H, h)
  <2> HIDE DEF H
  <2>1. Folds(n, Holdings, NothingStaged, H)
    BY <1>1, <1>2, <1>3, FoldsExist
  <2> QED BY <2>1 DEF Folds
<1>5. Folding(n, NothingStaged, H, h) = StagedUpto(h)
  <2>1. ASSUME NEW s \in SUBSET (1 .. n), s # {}
        PROVE  H[<<h[s \ {Max(s)}], Max(s)>>] = StageUsages(h[s \ {Max(s)}], stats[Max(s)])
    <3>1. Max(s) \in 1 .. n /\ h[s \ {Max(s)}] \in Holdings
      BY <1>1, <1>4, <2>1, MaxIn
    <3> QED BY <3>1
  <2> HIDE DEF H
  <2> QED BY <1>1, <2>1 DEF Folding, StagedUpto
<1>6. g = StagedUpto(g)
  BY <1>4, <1>5
<1>7. AllStaged = g[DOMAIN stats]
  BY DEF AllStaged, FoldLeft, MapThenFoldSet, StagedUpto
<1> HIDE DEF g
<1> DEFINE R == [k \in 0 .. n |-> g[1 .. k]]
<1>8. \A s \in SUBSET (1 .. n) :
        g[s] = IF s = {} THEN NothingStaged ELSE StageUsages(g[s \ {Max(s)}], stats[Max(s)])
  BY <1>1, <1>6 DEF StagedUpto
<1>9. R[0] = NothingStaged
  <2>1. 1 .. 0 = {} /\ 0 \in 0 .. n
    BY <1>1
  <2> QED BY <1>8, <2>1
<1>10. ASSUME NEW k \in 1 .. n PROVE R[k] = StageUsages(R[k - 1], stats[k])
  <2>1. k \in 0 .. n /\ k - 1 \in 0 .. n
    BY <1>1
  <2>2. /\ 1 .. k \in SUBSET (1 .. n) /\ 1 .. k # {} /\ Max(1 .. k) = k
        /\ (1 .. k) \ {k} = 1 .. (k - 1)
    BY <1>1, MaxUpto
  <2>3. g[1 .. k] = StageUsages(g[1 .. (k - 1)], stats[k])
    BY <1>8, <2>2
  <2> QED BY <2>1, <2>3
<1>11. R[n] = AllStaged
  BY <1>1, <1>7
<1> HIDE DEF R
<1>12. Stagings(R)
  BY <1>9, <1>10, <1>11 DEF Stagings, n
<1> QED BY <1>12

LEMMA UsagesOnce ==
  ASSUME SettingInv, StagedInv, pc = "stage"
  PROVE  /\ AllStaged \in Holdings /\ IsInjective(AllStaged.usages)
         /\ \A s \in Stepds : AllStaged.app_map[s] = {}
<1>1. PICK R : Stagings(R)
  BY StageParts
<1> DEFINE n == Len(stats)
           T == {k \in 0 .. n : UsedSoFar(k, R[k])}
<1>2. n \in Nat /\ DOMAIN stats = 1 .. n /\ stats \in Seq(Entries)
  BY LenProperties DEF StagedInv
<1>3. 0 \in T
  <2>1. NothingStaged \in Holdings
    BY EmptySeq DEF NothingStaged, Holdings, StagedInv
  <2>2. NothingStaged.usages = <<>> /\ NothingStaged.app_map = app_map /\ DOMAIN <<>> = {}
    BY DEF NothingStaged
  <2>3. UsedSoFar(0, NothingStaged)
    BY <2>1, <2>2 DEF UsedSoFar, IsInjective
  <2> QED BY <1>1, <1>2, <2>3 DEF Stagings
<1>4. ASSUME NEW k \in 1 .. n, k - 1 \in T PROVE k \in T
  <2>1. R[k] = StageUsages(R[k - 1], stats[k])
    BY <1>1 DEF Stagings
  <2>2. UsedSoFar(k, R[k])
    BY <1>2, <1>4, <2>1, UsagesStep
  <2> QED BY <1>2, <2>2
<1> HIDE DEF T
<1>5. 0 .. n \subseteq T
  <2> HIDE DEF n
  <2> QED BY <1>2, <1>3, <1>4, StepsTo
<1>6. UsedSoFar(n, AllStaged)
  <2>1. n \in T
    BY <1>2, <1>5
  <2> QED BY <1>1, <2>1 DEF T, Stagings
<1>7. ASSUME NEW s \in Stepds PROVE AllStaged.app_map[s] = {}
  <2>1. AllStaged.app_map[s] \subseteq app_map[s]
    BY <1>6 DEF UsedSoFar
  <2>2. CASE app_map[s] = {}
    BY <2>1, <2>2
  <2>3. CASE app_map[s] # {}
    <3>1. PICK i \in 1 .. n : stats[i].pid = s
      BY <1>2, <2>3 DEF StagedInv
    <3> QED BY <1>6, <3>1 DEF UsedSoFar
  <2> QED BY <2>2, <2>3
<1> QED BY <1>6, <1>7 DEF UsedSoFar

-----------------------------------------------------------------------------
(* What is staged in every reachable state.                                *)

ScrapeInv ==
  /\ TInv
  /\ StagedInv
  /\ AppsOnce

LEMMA EndTyped ==
  ASSUME ScrapeInv, EndRound
  PROVE  ScrapeInv'
<1>0. TInv /\ StagedInv
  BY DEF ScrapeInv
<1>1. PICK m \in Measured :
        /\ stats' = stats \o NewEntries(m[1], m[2])
        /\ gpu_results' = gpu_results \o Measurements(m[1], m[2])
  BY DEF EndRound, NewEntries
<1>2. /\ pc = "readdir"
      /\ app_map' = [s \in Stepds |->
           IF s \in Range(Steps) THEN app_map[s] \union (Walk(s, {}).apps \ ignored_apps)
                                 ELSE app_map[s]]
      /\ pc' \in {"wait", "stage"}
      /\ todo' = {} /\ cur_result' = None /\ unchecked' = <<>>
      /\ child' = [p \in 0 .. MaxPid |-> <<>>]
      /\ result' = [p \in Pids |-> None]
      /\ stepd_pids' = {}
      /\ UNCHANGED <<proc, setting, round, jobstep_cpu_available, usages>>
  BY DEF EndRound, NoScan, kernel
<1>3. Stepds' = Stepds
  BY <1>2 DEF Stepds
<1>4. PICK new : new = NewEntries(m[1], m[2])
  OBVIOUS
<1>5. /\ new \in Seq(Entries) /\ Len(new) = Len(Steps)
      /\ \A i \in 1 .. Len(Steps) : new[i].pid = Steps[i]
  <2>1. /\ NewEntries(m[1], m[2]) \in Seq(Entries)
        /\ Len(NewEntries(m[1], m[2])) = Len(Steps)
        /\ \A i \in 1 .. Len(Steps) :
             /\ NewEntries(m[1], m[2])[i] = Entry(i, m[1], m[2])
             /\ Entry(i, m[1], m[2]).pid = Steps[i]
    BY <1>0, EntriesTyped
  <2> QED BY <1>4, <2>1
<1>6. /\ Steps \in Seq(Stepds) /\ DOMAIN Steps = 1 .. Len(Steps) /\ Len(Steps) \in Nat
      /\ \A i \in DOMAIN Steps : Steps[i] \in Recorded /\ Steps[i] \in Stepds
  BY <1>0, StepsTyped
<1>7. stats \in Seq(Entries) /\ Len(stats) \in Nat /\ DOMAIN stats = 1 .. Len(stats)
  BY <1>0, LenProperties DEF StagedInv
<1>8. /\ stats' \in Seq(Entries) /\ Len(stats') = Len(stats) + Len(new)
      /\ \A i \in 1 .. Len(stats) + Len(new) :
           stats'[i] = IF i <= Len(stats) THEN stats[i] ELSE new[i - Len(stats)]
  <2>1. PICK A : A = Entries
    OBVIOUS
  <2>2. stats \in Seq(A) /\ new \in Seq(A) /\ stats' = stats \o new
    BY <1>1, <1>4, <1>5, <1>7, <2>1
  <2> QED BY <2>1, <2>2, ConcatProperties
<1>9. DOMAIN stats' = 1 .. Len(stats) + Len(new)
  BY <1>8, LenProperties
<1>10. gpu_results' = FlattenSeq(Pieces(stats'))
  <2>1. gpu_results' = FlattenSeq(Pieces(stats)) \o FlattenSeq(Pieces(new))
    BY <1>0, <1>1, <1>4, MeasuredCounted DEF StagedInv
  <2>2. Pieces(stats') = Pieces(stats) \o Pieces(new)
    BY <1>1, <1>4, <1>5, <1>7, PiecesConcat
  <2>3. PICK u, v : u = Pieces(stats) /\ v = Pieces(new)
    OBVIOUS
  <2>4. u \in Seq(Seq(Readings)) /\ v \in Seq(Seq(Readings))
    BY <1>5, <1>7, <2>3, PiecesTyped
  <2>5. FlattenSeq(u \o v) = FlattenSeq(u) \o FlattenSeq(v)
    BY <2>4, FlattenConcat
  <2> QED BY <2>1, <2>2, <2>3, <2>5
<1>11. app_map' \in [Stepds -> SUBSET (Pids \ Stepds)]
  <2>1. app_map \in [Stepds -> SUBSET (Pids \ Stepds)]
    BY <1>0 DEF StagedInv
  <2>2. ASSUME NEW s \in Range(Steps) PROVE Walk(s, {}).apps \ ignored_apps \in SUBSET (Pids \ Stepds)
    <3>1. s \in Recorded
      BY <1>6, <2>2 DEF Range
    <3>2. Walk(s, {}).apps \in SUBSET Pids
      BY <1>0, <3>1, WalkFound DEF Found
    <3> QED BY <3>2 DEF ignored_apps
  <2>3. ASSUME NEW s \in Stepds
        PROVE  (IF s \in Range(Steps) THEN app_map[s] \union (Walk(s, {}).apps \ ignored_apps)
                                      ELSE app_map[s]) \in SUBSET (Pids \ Stepds)
    BY <2>1, <2>2
  <2> QED BY <1>2, <2>3
<1>12. ASSUME NEW s \in Stepds, app_map'[s] # {} PROVE \E i \in DOMAIN stats' : stats'[i].pid = s
  <2>1. CASE s \in Range(Steps)
    <3>1. PICK i \in 1 .. Len(Steps) : Steps[i] = s
      BY <1>6, <2>1 DEF Range
    <3> DEFINE j == Len(stats) + i
    <3>2. j \in 1 .. Len(stats) + Len(new) /\ ~(j <= Len(stats)) /\ j - Len(stats) = i
      BY <1>5, <1>6, <1>7
    <3> HIDE DEF j
    <3>3. stats'[j].pid = s
      BY <1>5, <1>8, <3>1, <3>2
    <3> QED BY <1>9, <3>2, <3>3
  <2>2. CASE s \notin Range(Steps)
    <3>1. app_map[s] # {}
      BY <1>2, <1>12, <2>2
    <3>2. PICK i \in 1 .. Len(stats) : stats[i].pid = s
      BY <1>0, <1>2, <1>7, <3>1 DEF StagedInv
    <3>3. i \in 1 .. Len(stats) + Len(new) /\ i <= Len(stats)
      BY <1>5, <1>6, <1>7
    <3>4. stats'[i].pid = s
      BY <1>8, <3>2, <3>3
    <3> QED BY <1>9, <3>3, <3>4
  <2> QED BY <2>1, <2>2
<1>13. StagedInv'
  <2>1. usages' = <<>>
    BY <1>0, <1>2 DEF StagedInv
  <2>2. Entries' = Entries
    BY <1>3 DEF Entries
  <2> QED BY <1>3, <1>8, <1>10, <1>11, <1>12, <2>1, <2>2 DEF StagedInv, Pieces, Piece
<1>14. TInv'
  <2>1. SettingInv'
    BY <1>0, <1>2, <1>3, <1>11 DEF TInv, SettingInv
  <2>2. Recorded' = {} /\ \A p \in Pids : ~Read(p)'
    BY <1>2 DEF Recorded, Read
  <2>3. \A p \in 0 .. MaxPid : child'[p] = <<>> /\ Children(p)' = {}
    BY <1>2 DEF Children
  <2>4. TypeOK'
    <3>1. \A p \in 0 .. MaxPid : Range(child'[p]) = {}
      BY <2>3 DEF Range
    <3>2. pc' \in {"wait", "readdir", "cmdline", "check", "stage", "sent"}
      BY <1>2
    <3> QED BY <1>0, <1>2, <1>3, <1>11, <3>1, <3>2 DEF TInv, TypeOK
  <2>5. ChildInv'
    <3>1. child' \in [0 .. MaxPid -> Seq(0 .. MaxPid)]
      BY <1>2, EmptySeq
    <3> QED BY <2>3, <3>1 DEF ChildInv
  <2>6. IdleInv' /\ TodoInv' /\ CurrentInv'
    BY <1>2, <2>2 DEF IdleInv, TodoInv, CurrentInv
  <2>7. StepdInv'
    BY <1>0, <1>2, <1>3 DEF TInv, StepdInv
  <2> QED BY <2>1, <2>4, <2>5, <2>6, <2>7 DEF TInv
<1>15. AppsOnce'
  BY <1>2 DEF AppsOnce
<1> QED BY <1>13, <1>14, <1>15 DEF ScrapeInv

LEMMA StageTyped ==
  ASSUME ScrapeInv, Stage
  PROVE  ScrapeInv'
<1>0. TInv /\ StagedInv /\ SettingInv
  BY DEF ScrapeInv, TInv
<1>1. /\ pc = "stage" /\ pc' = "sent"
      /\ usages' = AllStaged.usages /\ app_map' = AllStaged.app_map
      /\ UNCHANGED <<proc, setting, round, todo, cur_result, unchecked, child, result, stepd_pids,
                     jobstep_cpu_available, stats, gpu_results>>
  BY DEF Stage, AllStaged, NothingStaged, kernel, scan
<1>2. Stepds' = Stepds
  BY <1>1 DEF Stepds
<1>3. /\ AllStaged \in Holdings /\ IsInjective(AllStaged.usages)
      /\ \A s \in Stepds : AllStaged.app_map[s] = {}
  BY <1>0, <1>1, UsagesOnce
<1>4. app_map' \in [Stepds -> SUBSET (Pids \ Stepds)]
  BY <1>1, <1>3 DEF Holdings
<1>5. StagedInv'
  <2>1. Entries' = Entries
    BY <1>2 DEF Entries
  <2>2. Pieces(stats)' = Pieces(stats)
    BY <1>1 DEF Pieces, Piece
  <2> QED BY <1>0, <1>1, <1>2, <1>4, <2>1, <2>2 DEF StagedInv
<1>6. AppsOnce'
  BY <1>1, <1>2, <1>3 DEF AppsOnce
<1>7. TInv'
  <2>1. SettingInv' /\ TypeOK'
    BY <1>0, <1>1, <1>2, <1>4 DEF TInv, SettingInv, TypeOK
  <2>2. Recorded' = Recorded /\ \A p : (Read(p)' <=> Read(p)) /\ (Born(p)' <=> Born(p))
    BY <1>1 DEF Recorded, Read, Born
  <2>3. IdleInv' /\ TodoInv' /\ CurrentInv'
    BY <1>0, <1>1, <2>2 DEF TInv, IdleInv, TodoInv, CurrentInv
  <2>4. ChildInv' /\ StepdInv'
    BY <1>0, <1>1, <1>2 DEF TInv, ChildInv, StepdInv, Children, Read
  <2> QED BY <2>1, <2>3, <2>4 DEF TInv
<1> QED BY <1>5, <1>6, <1>7 DEF ScrapeInv

(* Nothing else touches what is staged.                                    *)
LEMMA StagedKept ==
  ASSUME ScrapeInv, TInv', UNCHANGED <<setting, stats, gpu_results, usages, app_map>>,
         pc' = "sent" <=> pc = "sent"
  PROVE  StagedInv' /\ AppsOnce'
<1>1. Stepds' = Stepds /\ Entries' = Entries /\ Pieces(stats)' = Pieces(stats)
  BY DEF Stepds, Entries, Pieces, Piece
<1>2. StagedInv'
  BY <1>1 DEF ScrapeInv, StagedInv
<1>3. AppsOnce'
  BY <1>1 DEF ScrapeInv, AppsOnce
<1> QED BY <1>2, <1>3

LEMMA ScrapeStep ==
  ASSUME ScrapeInv, [Next]_vars
  PROVE  ScrapeInv'
<1>0. TInv
  BY DEF ScrapeInv
<1>1. CASE KernelNext
  <2>1. TInv' /\ Kernel
    BY <1>0, <1>1, KernelTyped, KernelStep
  <2>2. UNCHANGED <<setting, stats, gpu_results, usages, app_map, pc>>
    BY <2>1 DEF Kernel, staged
  <2> QED BY <2>1, <2>2, StagedKept DEF ScrapeInv
<1>2. CASE StartRound \/ ReadStat \/ ReadCmdline \/ CheckChild
  <2>1. TInv'
    BY <1>0, <1>2, StartTyped, StatTyped, CmdlineTyped, CheckTyped
  <2>2. UNCHANGED <<setting, stats, gpu_results, usages, app_map>> /\ pc' # "sent" /\ pc # "sent"
    BY <1>2 DEF StartRound, ReadStat, ReadCmdline, CheckChild, staged
  <2> QED BY <2>1, <2>2, StagedKept DEF ScrapeInv
<1>3. CASE UNCHANGED vars
  <2>1. UNCHANGED <<proc, setting, pc, round, todo, cur_result, unchecked, child, result, stepd_pids,
                    jobstep_cpu_available, stats, gpu_results, usages, app_map>>
    BY <1>3 DEF vars, kernel, scan, staged
  <2>2. Stepds' = Stepds /\ Recorded' = Recorded
        /\ \A p : (Read(p)' <=> Read(p)) /\ (Born(p)' <=> Born(p))
    BY <2>1 DEF Stepds, Recorded, Read, Born
  <2>3. TInv'
    BY <1>0, <2>1, <2>2 DEF TInv, SettingInv, TypeOK, IdleInv, TodoInv, CurrentInv, ChildInv,
                            Children, StepdInv
  <2> QED BY <2>1, <2>3, StagedKept DEF ScrapeInv
<1> QED BY <1>1, <1>2, <1>3, EndTyped, StageTyped DEF Next, ScraperNext

LEMMA ScrapeInit ==
  ASSUME Init
  PROVE  ScrapeInv
<1>1. /\ proc = [p \in Pids |-> [state |-> "unborn", ppid |-> InitPid, step |-> None,
                                 utime |-> 0, cutime |-> 0]]
      /\ setting \in Settings /\ pc = "wait" /\ round = 0 /\ todo = {} /\ cur_result = None
      /\ child = [p \in 0 .. MaxPid |-> <<>>] /\ result = [p \in Pids |-> None]
      /\ stepd_pids = {} /\ jobstep_cpu_available = {}
      /\ app_map = [s \in Stepds |-> {}]
      /\ stats = <<>> /\ gpu_results = <<>> /\ usages = <<>>
  BY DEF Init, Stepds
<1>2. SettingInv
  BY <1>1 DEF SettingInv
<1>3. /\ Recorded = {} /\ \A p \in Pids : ~Read(p)
      /\ \A p \in 0 .. MaxPid : child[p] = <<>> /\ Children(p) = {} /\ Range(child[p]) = {}
  BY <1>1 DEF Recorded, Read, Children, Range
<1>4. TypeOK
  <2>1. proc \in [Pids -> Processes]
    BY <1>1, <1>2, PidsFacts DEF Processes
  <2>2. app_map \in [Stepds -> SUBSET (Pids \ Stepds)] /\ round \in 0 .. setting.scrape_cnt
    BY <1>1, <1>2, SettingFacts
  <2> QED BY <1>1, <1>3, <2>1, <2>2 DEF TypeOK
<1>5. ChildInv
  <2>1. child \in [0 .. MaxPid -> Seq(0 .. MaxPid)]
    BY <1>1, EmptySeq
  <2> QED BY <1>3, <2>1 DEF ChildInv
<1>6. IdleInv /\ TodoInv /\ CurrentInv
  BY <1>1, <1>3 DEF IdleInv, TodoInv, CurrentInv
<1>7. StepdInv
  BY <1>1, <1>2, SettingFacts DEF StepdInv
<1>8. StagedInv
  <2>1. stats \in Seq(Entries) /\ Len(stats) = 0
    BY <1>1, EmptySeq
  <2>2. Pieces(stats) \in Seq(Seq(Readings)) /\ Len(Pieces(stats)) = 0
    BY <2>1, PiecesTyped
  <2>3. PICK u : u = Pieces(stats)
    OBVIOUS
  <2>4. FlattenSeq(u) = <<>>
    <3>1. PICK A : A = Readings
      OBVIOUS
    <3>2. u \in Seq(Seq(A)) /\ \A i \in 1 .. Len(u) : u[i] = <<>>
      BY <2>2, <2>3, <3>1
    <3> QED BY <3>2, FlattenNone
  <2> QED BY <1>1, <2>1, <2>3, <2>4 DEF StagedInv
<1>9. AppsOnce
  BY <1>1 DEF AppsOnce
<1> QED BY <1>2, <1>4, <1>5, <1>6, <1>7, <1>8, <1>9 DEF ScrapeInv, TInv

LEMMA Scraping == Spec => []ScrapeInv
<1>1. Init => ScrapeInv
  BY ScrapeInit
<1>2. ScrapeInv /\ [Next]_vars => ScrapeInv'
  BY ScrapeStep
<1> QED BY <1>1, <1>2, PTL DEF Spec

(* The scraper's tables are what the code declares, whatever the processes *)
(* do between the reading of two files (worker.cpp:633-776).               *)
THEOREM TypeCorrect == Spec => []TypeOK
<1>1. ScrapeInv => TypeOK
  BY DEF ScrapeInv, TInv
<1> QED BY <1>1, Scraping, PTL

(* The queue of GPU measurements holds, result after result, what the       *)
(* results count, so that the receiver takes for each the ones that are its *)
(* own (worker.cpp:801-808, 895-917, messaging.cpp:138-154).                *)
THEOREM MeasurementsPaired == Spec => []GpuPaired
<1>1. StagedInv => GpuPaired
  BY DEF StagedInv, GpuPaired, Pieces, Piece
<1>2. ScrapeInv => GpuPaired
  BY <1>1 DEF ScrapeInv
<1> QED BY <1>2, Scraping, PTL

(* No application of a step is sent twice or left behind, however many      *)
(* rounds it was seen in (worker.cpp:918-932).                              *)
THEOREM ApplicationsOnce == Spec => []AppsOnce
<1>1. ScrapeInv => AppsOnce
  BY DEF ScrapeInv
<1> QED BY <1>1, Scraping, PTL

-----------------------------------------------------------------------------
(* Nothing is counted twice.  What a process has is its own time and that  *)
(* of all it waited for; what the scan has of a process is what it had     *)
(* when its file was read.  These histories are not state of the program:  *)
(* f is the parent each process was born of and r a generation, h what     *)
(* each process has waited for so far, itself included, and v what it had  *)
(* when it was last read.                                                  *)

Utime == [p \in Pids |-> proc[p].utime]
Total(S) == SumFunctionOnSet(Utime, S)

FamilyOf(f, r) ==
  /\ f \in [Pids -> 0 .. MaxPid]
  /\ r \in [Pids -> Nat]
  /\ \A p \in Pids :
       /\ proc[p].ppid \in {InitPid, f[p]}
       /\ p \in Stepds => f[p] = InitPid /\ proc[p].step \in {None, p}
       /\ Born(p) <=> proc[p].step # None
       /\ f[p] # InitPid => /\ Born(p) /\ Born(f[p])
                            /\ r[f[p]] < r[p]
                            /\ proc[f[p]].step = proc[p].step

(* Who has waited for a process has waited for it as its parent, or for a  *)
(* process that had.                                                       *)
Closed(f, p, S) ==
  /\ S \subseteq Pids
  /\ \A q \in S : proc[q].step = proc[p].step /\ (q = p \/ (Gone(q) /\ f[q] \in S))

HeldBy(f, h) ==
  /\ h \in [Pids -> SUBSET Pids]
  /\ \A p \in Pids : p \in h[p] /\ Closed(f, p, h[p]) /\ (~Born(p) => h[p] = {p})
  /\ \A p, q \in Pids : ~Gone(p) /\ ~Gone(q) /\ p # q => h[p] \intersect h[q] = {}
  /\ \A p \in Pids : ~Gone(p) => proc[p].utime + proc[p].cutime = Total(h[p])

SeenBy(f, v) ==
  /\ v \in [Pids -> SUBSET Pids]
  /\ \A p \in Pids : Closed(f, p, v[p]) /\ (v[p] # {} => Born(p))
  /\ \A p \in Recorded : Own(p) <= Total(v[p])
  /\ pc = "cmdline" =>
       /\ cur_result.utime + cur_result.cutime <= Total(v[cur_result.pid])
       /\ \A p \in Pids : p # cur_result.pid => cur_result.pid \notin v[p]
       /\ cur_result.ppid \in {InitPid, f[cur_result.pid]}

(* The children of p that are still to be looked for.                      *)
Unlooked(p) ==
  {i \in Children(p) : cur_result.pid = p /\ (pc = "cmdline" \/ (pc = "check" /\ i \in Range(unchecked)))}

(* A child that stays in the list was not waited for when its parent was   *)
(* read.                                                                   *)
Apart(f, v) ==
  \A p \in Pids : \A i \in Children(p) :
    f[child[p][i]] = p /\ (i \in Unlooked(p) \/ child[p][i] \notin v[p])

History(f, r, h, v) == FamilyOf(f, r) /\ HeldBy(f, h) /\ SeenBy(f, v) /\ Apart(f, v)

LEMMA TotalFacts ==
  ASSUME TInv
  PROVE  \A S \in SUBSET Pids :
           /\ IsFiniteSet(S) /\ SumSteps(Utime, S) /\ Total(S) \in Nat
           /\ \A x \in S : Utime[x] = proc[x].utime /\ Utime[x] \in Nat
<1> TAKE S \in SUBSET Pids
<1>1. IsFiniteSet(S)
  BY PidsFacts, FS_Subset DEF TInv
<1>2. \A x \in S : Utime[x] = proc[x].utime /\ Utime[x] \in Nat
  BY DEF TInv, TypeOK, Processes, Utime
<1>3. SumSteps(Utime, S)
  BY <1>1, <1>2, SumStep
<1> QED BY <1>1, <1>2, <1>3 DEF SumSteps, Total

LEMMA TotalGrows ==
  ASSUME TInv, TInv', \A p \in Pids : proc[p].utime <= proc'[p].utime, NEW S \in SUBSET Pids
  PROVE  Total(S) <= Total(S)'
<1>1. PICK u, w : u = Utime /\ w = Utime'
  OBVIOUS
<1>2. IsFiniteSet(S) /\ \A x \in S : u[x] \in Nat /\ u[x] = proc[x].utime
  BY <1>1, TotalFacts
<1>3. \A x \in S : w[x] \in Nat /\ w[x] = proc'[x].utime
  BY <1>1 DEF TInv, TypeOK, Processes, Utime
<1>4. SumFunctionOnSet(u, S) <= SumFunctionOnSet(w, S)
  BY <1>2, <1>3, SumMono
<1> QED BY <1>1, <1>4 DEF Total

LEMMA ClosedKept ==
  ASSUME KernelMoves, NEW f, NEW e, \A q \in Pids : Born(q) => e[q] = f[q],
         NEW p \in Pids, Born(p), NEW S, Closed(f, p, S)
  PROVE  Closed(e, p, S)'
<1>1. S \subseteq Pids
  BY DEF Closed
<1>2. ASSUME NEW q \in S
      PROVE  proc'[q].step = proc'[p].step /\ (q = p \/ (Gone(q)' /\ e[q] \in S))
  <2>1. q \in Pids /\ proc[q].step = proc[p].step /\ (q = p \/ (Gone(q) /\ f[q] \in S))
    BY DEF Closed
  <2>2. Born(q)
    BY <2>1 DEF Born, Gone
  <2>3. proc'[q].step = proc[q].step /\ proc'[p].step = proc[p].step /\ (Gone(q) => Gone(q)')
    BY <2>1, <2>2 DEF KernelMoves
  <2> QED BY <2>1, <2>2, <2>3
<1> QED BY <1>1, <1>2 DEF Closed

(* What was read stays true of what has been spent since.                  *)
LEMMA SeenKept ==
  ASSUME TInv, TInv', KernelMoves, Kernel, NEW f, NEW v, SeenBy(f, v), Apart(f, v),
         NEW e, \A q \in Pids : Born(q) => e[q] = f[q]
  PROVE  SeenBy(e, v)' /\ Apart(e, v)'
<1>1. UNCHANGED <<pc, cur_result, unchecked, child, result>>
  BY DEF Kernel
<1>2. /\ Recorded' = Recorded /\ \A p : Own(p)' = Own(p) /\ Children(p)' = Children(p)
      /\ \A p : Unlooked(p)' = Unlooked(p)
  BY <1>1 DEF Recorded, Own, Children, Unlooked
<1>3. v \in [Pids -> SUBSET Pids]
  BY DEF SeenBy
<1>4. ASSUME NEW p \in Pids PROVE Closed(e, p, v[p])' /\ (v[p] # {} => Born(p)')
  <2>1. CASE v[p] = {}
    BY <2>1 DEF Closed
  <2>2. CASE v[p] # {}
    <3>1. Closed(f, p, v[p]) /\ Born(p)
      BY <2>2 DEF SeenBy
    <3> QED BY <3>1, ClosedKept DEF KernelMoves
  <2> QED BY <2>1, <2>2
<1>5. \A S \in SUBSET Pids : Total(S) \in Nat /\ Total(S)' \in Nat /\ Total(S) <= Total(S)'
  <2>1. \A p \in Pids : proc[p].utime <= proc'[p].utime
    BY DEF KernelMoves
  <2>2. \A S \in SUBSET Pids : Total(S) \in Nat
    BY TotalFacts
  <2>3. \A S \in SUBSET Pids : Total(S)' \in Nat
    <3> TAKE S \in SUBSET Pids
    <3>1. PICK w : w = Utime'
      OBVIOUS
    <3>2. \A x \in S : w[x] \in Nat
      BY <3>1 DEF TInv, TypeOK, Processes, Utime
    <3>3. IsFiniteSet(S)
      BY TotalFacts
    <3>4. SumFunctionOnSet(w, S) \in Nat
      BY <3>2, <3>3, SumStep DEF SumSteps
    <3> QED BY <3>1, <3>4 DEF Total
  <2> QED BY <2>1, <2>2, <2>3, TotalGrows
<1>6. ASSUME NEW p \in Recorded' PROVE Own(p)' <= Total(v[p])'
  <2>1. p \in Recorded /\ p \in Pids /\ Own(p) \in Nat
    BY <1>2, TreeFacts
  <2>2. Own(p) <= Total(v[p])
    BY <2>1 DEF SeenBy
  <2>3. Total(v[p]) \in Nat /\ Total(v[p])' \in Nat /\ Total(v[p]) <= Total(v[p])'
    BY <1>3, <1>5, <2>1
  <2>4. Own(p)' = Own(p)
    BY <1>2
  <2> QED BY <2>1, <2>2, <2>3, <2>4
<1>7. ASSUME pc' = "cmdline"
      PROVE  /\ cur_result'.utime + cur_result'.cutime <= Total(v[cur_result.pid])'
             /\ \A p \in Pids : p # cur_result'.pid => cur_result'.pid \notin v[p]
             /\ cur_result'.ppid \in {InitPid, e[cur_result'.pid]}
  <2>1. pc = "cmdline" /\ cur_result' = cur_result
    BY <1>1, <1>7
  <2>2. /\ cur_result \in [pid : Pids, ppid : 0 .. MaxPid, utime : Nat, cutime : Nat]
        /\ Born(cur_result.pid)
    BY <2>1 DEF TInv, CurrentInv
  <2>3. PICK q, t : q = cur_result.pid /\ t = cur_result.utime + cur_result.cutime
    OBVIOUS
  <2>4. q \in Pids /\ t \in Nat /\ Born(q)
    BY <2>2, <2>3
  <2>5. /\ t <= Total(v[q])
        /\ \A p \in Pids : p # q => q \notin v[p]
        /\ cur_result.ppid \in {InitPid, f[q]}
    BY <2>1, <2>3 DEF SeenBy
  <2>6. Total(v[q]) \in Nat /\ Total(v[q])' \in Nat /\ Total(v[q]) <= Total(v[q])'
    BY <1>3, <1>5, <2>4
  <2>7. t <= Total(v[q])'
    BY <2>4, <2>5, <2>6
  <2> QED BY <2>1, <2>3, <2>4, <2>5, <2>7
<1>8. SeenBy(e, v)'
  <2>1. cur_result' = cur_result
    BY <1>1
  <2> QED BY <1>3, <1>4, <1>6, <1>7, <2>1 DEF SeenBy
<1>9. Apart(e, v)'
  <2> SUFFICES ASSUME NEW p \in Pids, NEW i \in Children(p)'
               PROVE  e[child'[p][i]] = p /\ (i \in Unlooked(p)' \/ child'[p][i] \notin v[p])
    BY DEF Apart
  <2>1. i \in Children(p) /\ child'[p][i] = child[p][i] /\ Unlooked(p)' = Unlooked(p)
    BY <1>1, <1>2
  <2>2. Read(child[p][i]) /\ child[p][i] \in Pids
    <3>1. p \in 0 .. MaxPid
      BY PidsFacts DEF TInv
    <3>2. child[p] \in Seq(0 .. MaxPid) /\ i \in DOMAIN child[p] /\ child[p][i] # 0
      BY <2>1, <3>1 DEF TInv, ChildInv, Children
    <3>3. child[p][i] \in 0 .. MaxPid
      BY <3>2, ElementOfSeq, LenProperties
    <3> QED BY <2>1, <3>1, <3>2, <3>3, PidsFacts DEF TInv, ChildInv, InitPid
  <2>3. Born(child[p][i])
    BY <2>2 DEF TInv, TodoInv, Recorded, Read
  <2> QED BY <2>1, <2>2, <2>3 DEF Apart
<1> QED BY <1>8, <1>9

(* Steps that spend nothing and reap nobody.                               *)
LEMMA HeldKept ==
  ASSUME TInv, TInv', KernelMoves, NEW f, NEW h, HeldBy(f, h),
         NEW e, \A q \in Pids : Born(q) => e[q] = f[q],
         \A q \in Pids : /\ proc'[q].utime = proc[q].utime /\ proc'[q].cutime = proc[q].cutime
                         /\ Gone(q)' <=> Gone(q)
  PROVE  HeldBy(e, h)'
<1>1. h \in [Pids -> SUBSET Pids]
  BY DEF HeldBy
<1>2. ASSUME NEW p \in Pids
      PROVE  p \in h[p] /\ Closed(e, p, h[p])' /\ (~Born(p)' => h[p] = {p})
  <2>1. p \in h[p] /\ Closed(f, p, h[p]) /\ (~Born(p) => h[p] = {p})
    BY DEF HeldBy
  <2>2. Born(p) => Born(p)'
    BY DEF KernelMoves
  <2>3. CASE Born(p)
    BY <2>1, <2>2, <2>3, ClosedKept
  <2>4. CASE ~Born(p)
    BY <2>1, <2>4 DEF Closed
  <2> QED BY <2>3, <2>4
<1>3. Utime' = Utime
  BY DEF Utime
<1>4. \A S : Total(S)' = Total(S)
  BY <1>3 DEF Total
<1>5. \A p, q \in Pids : ~Gone(p)' /\ ~Gone(q)' /\ p # q => h[p] \intersect h[q] = {}
  BY DEF HeldBy
<1>6. ASSUME NEW p \in Pids, ~Gone(p)' PROVE proc'[p].utime + proc'[p].cutime = Total(h[p])'
  <2>1. proc[p].utime + proc[p].cutime = Total(h[p])
    BY <1>6 DEF HeldBy
  <2> QED BY <1>4, <2>1
<1> QED BY <1>1, <1>2, <1>5, <1>6 DEF HeldBy

-----------------------------------------------------------------------------
(* The histories the steps of the kernel leave.                            *)

Remembered == \E f, r, h, v : History(f, r, h, v)

LEMMA FamilyKept ==
  ASSUME TInv, KernelMoves, UNCHANGED setting, NEW f, NEW r, FamilyOf(f, r),
         \A p \in Pids : /\ proc'[p].ppid \in {InitPid, proc[p].ppid}
                         /\ Born(p)' <=> proc'[p].step # None
                         /\ p \in Stepds => proc'[p].step \in {None, p}
  PROVE  FamilyOf(f, r)'
<1>1. Stepds' = Stepds /\ f \in [Pids -> 0 .. MaxPid] /\ r \in [Pids -> Nat]
  BY DEF Stepds, FamilyOf
<1>2. ASSUME NEW p \in Pids
      PROVE  /\ proc'[p].ppid \in {InitPid, f[p]}
             /\ p \in Stepds => f[p] = InitPid
             /\ f[p] # InitPid => /\ Born(p)' /\ Born(f[p])'
                                  /\ r[f[p]] < r[p]
                                  /\ proc'[f[p]].step = proc'[p].step
  <2>1. /\ proc[p].ppid \in {InitPid, f[p]}
        /\ p \in Stepds => f[p] = InitPid
        /\ f[p] # InitPid => /\ Born(p) /\ Born(f[p])
                             /\ r[f[p]] < r[p]
                             /\ proc[f[p]].step = proc[p].step
    BY DEF FamilyOf
  <2>2. f[p] # InitPid => f[p] \in Pids
    BY <1>1, PidsFacts DEF TInv
  <2>3. /\ Born(p) => Born(p)' /\ proc'[p].step = proc[p].step
        /\ f[p] \in Pids /\ Born(f[p]) => Born(f[p])' /\ proc'[f[p]].step = proc[f[p]].step
    BY DEF KernelMoves
  <2> QED BY <2>1, <2>2, <2>3
<1> QED BY <1>1, <1>2 DEF FamilyOf

LEMMA StartsHistory ==
  ASSUME TInv, TInv', NEW s \in Stepds, StepStarts(s), NEW f, NEW r, NEW h, NEW v,
         History(f, r, h, v)
  PROVE  History(f, r, h, v)'
<1>1. /\ KernelMoves /\ Kernel
      /\ proc[s].state = "unborn" /\ proc'[s].state = "running" /\ proc'[s].step = s
      /\ proc'[s].ppid = proc[s].ppid
      /\ proc'[s].utime = proc[s].utime /\ proc'[s].cutime = proc[s].cutime
      /\ \A q \in Pids : q # s => proc'[q] = proc[q]
  BY StartsMoves DEF StepStarts
<1>2. FamilyOf(f, r) /\ HeldBy(f, h) /\ SeenBy(f, v) /\ Apart(f, v)
  BY DEF History
<1>3. s \in Pids /\ s # None /\ setting' = setting
  BY <1>1, SettingFacts DEF TInv, Kernel
<1>4. ASSUME NEW p \in Pids
      PROVE  /\ proc'[p].ppid \in {InitPid, proc[p].ppid}
             /\ Born(p)' <=> proc'[p].step # None
             /\ p \in Stepds => proc'[p].step \in {None, p}
             /\ proc'[p].utime = proc[p].utime /\ proc'[p].cutime = proc[p].cutime
             /\ Gone(p)' <=> Gone(p)
  <2>1. (Born(p) <=> proc[p].step # None) /\ (p \in Stepds => proc[p].step \in {None, p})
    BY <1>2 DEF FamilyOf
  <2> QED BY <1>1, <1>3, <2>1 DEF Born, Gone
<1>5. FamilyOf(f, r)'
  BY <1>1, <1>2, <1>3, <1>4, FamilyKept
<1>6. HeldBy(f, h)'
  BY <1>1, <1>2, <1>4, HeldKept
<1>7. SeenBy(f, v)' /\ Apart(f, v)'
  BY <1>1, <1>2, SeenKept
<1> QED BY <1>5, <1>6, <1>7 DEF History

LEMMA ExitHistory ==
  ASSUME TInv, TInv', NEW p \in Pids, Exit(p), NEW f, NEW r, NEW h, NEW v,
         History(f, r, h, v)
  PROVE  History(f, r, h, v)'
<1>1. /\ KernelMoves /\ Kernel
      /\ \A q \in Pids : /\ proc'[q].state = IF q = p THEN "zombie" ELSE proc[q].state
                         /\ proc'[q].ppid \in {InitPid, proc[q].ppid}
                         /\ proc'[q].step = proc[q].step
                         /\ proc'[q].utime = proc[q].utime /\ proc'[q].cutime = proc[q].cutime
      /\ proc[p].state = "running"
  BY ExitMoves DEF Exit
<1>2. FamilyOf(f, r) /\ HeldBy(f, h) /\ SeenBy(f, v) /\ Apart(f, v) /\ setting' = setting
  BY <1>1 DEF History, Kernel
<1>3. ASSUME NEW q \in Pids
      PROVE  /\ Born(q)' <=> proc'[q].step # None
             /\ q \in Stepds => proc'[q].step \in {None, q}
             /\ Gone(q)' <=> Gone(q)
  <2>1. (Born(q) <=> proc[q].step # None) /\ (q \in Stepds => proc[q].step \in {None, q})
    BY <1>2 DEF FamilyOf
  <2> QED BY <1>1, <2>1 DEF Born, Gone
<1>5. FamilyOf(f, r)'
  BY <1>1, <1>2, <1>3, FamilyKept
<1>6. HeldBy(f, h)'
  BY <1>1, <1>2, <1>3, HeldKept
<1>7. SeenBy(f, v)' /\ Apart(f, v)'
  BY <1>1, <1>2, SeenKept
<1> QED BY <1>5, <1>6, <1>7 DEF History

(* A child is born of its parent, a generation later.                      *)
LEMMA ForkHistory ==
  ASSUME TInv, TInv', NEW p \in Pids, NEW c \in Pids, Fork(p, c),
         NEW f, NEW r, NEW h, NEW v, History(f, r, h, v)
  PROVE  Remembered'
<1>0. Kernel
  BY DEF Fork
<1>1. /\ KernelMoves /\ Kernel
      /\ proc[p].state = "running" /\ proc[c].state = "unborn" /\ c \notin Stepds
      /\ proc'[c].state = "running" /\ proc'[c].ppid = p /\ proc'[c].step = proc[p].step
      /\ proc'[c].utime = proc[c].utime /\ proc'[c].cutime = proc[c].cutime
      /\ \A q \in Pids : q # c => proc'[q] = proc[q]
  BY <1>0, ForkMoves
<1>2. FamilyOf(f, r) /\ HeldBy(f, h) /\ SeenBy(f, v) /\ Apart(f, v) /\ Stepds' = Stepds
  BY <1>1 DEF History, Kernel, Stepds
<1>3. PICK e, g : e = [f EXCEPT ![c] = p] /\ g = [r EXCEPT ![c] = r[p] + 1]
  OBVIOUS
<1>4. /\ e \in [Pids -> 0 .. MaxPid] /\ g \in [Pids -> Nat]
      /\ e[c] = p /\ g[c] = r[p] + 1 /\ p # c
      /\ \A q \in Pids : q # c => e[q] = f[q] /\ g[q] = r[q]
  <2>1. f \in [Pids -> 0 .. MaxPid] /\ r \in [Pids -> Nat] /\ p \in 0 .. MaxPid
    BY <1>2, PidsFacts DEF FamilyOf, TInv
  <2> QED BY <1>1, <1>3, <2>1
<1>5. ASSUME NEW q \in Pids
      PROVE  /\ proc'[q].ppid \in {InitPid, e[q]}
             /\ q \in Stepds => e[q] = InitPid /\ proc'[q].step \in {None, q}
             /\ Born(q)' <=> proc'[q].step # None
             /\ e[q] # InitPid => /\ Born(q)' /\ Born(e[q])'
                                  /\ g[e[q]] < g[q]
                                  /\ proc'[e[q]].step = proc'[q].step
  <2>0. \A z \in Pids :
          /\ proc[z].ppid \in {InitPid, f[z]}
          /\ z \in Stepds => f[z] = InitPid /\ proc[z].step \in {None, z}
          /\ Born(z) <=> proc[z].step # None
          /\ f[z] # InitPid => /\ Born(z) /\ Born(f[z])
                               /\ r[f[z]] < r[z]
                               /\ proc[f[z]].step = proc[z].step
    BY <1>2 DEF FamilyOf
  <2>1. CASE q = c
    <3>1. Born(p) /\ proc[p].step # None /\ proc'[p] = proc[p]
      BY <1>1, <1>4, <2>0 DEF Born
    <3>2. g[p] < g[c]
      <4>1. r[p] \in Nat
        BY <1>2 DEF FamilyOf
      <4> QED BY <1>4, <4>1
    <3> QED BY <1>1, <1>4, <2>1, <3>1, <3>2 DEF Born
  <2>2. CASE q # c
    <3>1. proc'[q] = proc[q] /\ e[q] = f[q] /\ g[q] = r[q]
      BY <1>1, <1>4, <2>2
    <3>2. f[q] # InitPid => f[q] \in Pids /\ f[q] # c
      <4>1. f[q] \in 0 .. MaxPid
        BY <1>2 DEF FamilyOf
      <4> QED BY <1>1, <2>0, <4>1, PidsFacts DEF Born, TInv
    <3>3. f[q] # InitPid => proc'[f[q]] = proc[f[q]] /\ g[f[q]] = r[f[q]]
      BY <1>1, <1>4, <3>2
    <3> QED BY <2>0, <3>1, <3>3 DEF Born
  <2> QED BY <2>1, <2>2
<1>6. FamilyOf(e, g)'
  BY <1>2, <1>4, <1>5 DEF FamilyOf
<1>7. \A q \in Pids : Born(q) => e[q] = f[q]
  BY <1>1, <1>4 DEF Born
<1>8. \A q \in Pids : /\ proc'[q].utime = proc[q].utime /\ proc'[q].cutime = proc[q].cutime
                      /\ Gone(q)' <=> Gone(q)
  BY <1>1 DEF Gone
<1>9. HeldBy(e, h)'
  BY <1>1, <1>2, <1>7, <1>8, HeldKept
<1>10. SeenBy(e, v)' /\ Apart(e, v)'
  BY <1>1, <1>2, <1>7, SeenKept
<1> QED BY <1>6, <1>9, <1>10 DEF Remembered, History

(* What is spent is added to what one process has, and to no other that    *)
(* still counts.                                                           *)
LEMMA SpendHistory ==
  ASSUME TInv, TInv', NEW p \in Pids, Spend(p), NEW f, NEW r, NEW h, NEW v,
         History(f, r, h, v)
  PROVE  History(f, r, h, v)'
<1>1. /\ KernelMoves /\ Kernel /\ proc[p].state = "running"
      /\ proc' = [proc EXCEPT ![p] = [proc[p] EXCEPT !.utime = proc[p].utime + 1]]
  BY SpendMoves DEF Spend
<1>2. FamilyOf(f, r) /\ HeldBy(f, h) /\ SeenBy(f, v) /\ Apart(f, v) /\ setting' = setting
  BY <1>1 DEF History, Kernel
<1>3. /\ proc \in [Pids -> Processes]
      /\ \A q \in Pids : proc[q].utime \in Nat /\ proc[q].cutime \in Nat
  BY DEF TInv, TypeOK, Processes
<1>4. /\ \A q \in Pids : /\ proc'[q].state = proc[q].state /\ proc'[q].ppid = proc[q].ppid
                         /\ proc'[q].step = proc[q].step /\ proc'[q].cutime = proc[q].cutime
                         /\ q # p => proc'[q].utime = proc[q].utime
      /\ proc'[p].utime = proc[p].utime + 1
  BY <1>1, <1>3 DEF Processes
<1>5. FamilyOf(f, r)'
  <2>1. \A q \in Pids : /\ proc'[q].ppid \in {InitPid, proc[q].ppid}
                        /\ Born(q)' <=> proc'[q].step # None
                        /\ q \in Stepds => proc'[q].step \in {None, q}
    BY <1>2, <1>4 DEF FamilyOf, Born
  <2> QED BY <1>1, <1>2, <2>1, FamilyKept
<1>6. h \in [Pids -> SUBSET Pids]
  BY <1>2 DEF HeldBy
<1>7. \A q \in Pids : (Born(q)' <=> Born(q)) /\ (Gone(q)' <=> Gone(q))
  BY <1>4 DEF Born, Gone
<1>8. ASSUME NEW q \in Pids
      PROVE  q \in h[q] /\ Closed(f, q, h[q])' /\ (~Born(q)' => h[q] = {q})
  <2>1. q \in h[q] /\ Closed(f, q, h[q]) /\ (~Born(q) => h[q] = {q})
    BY <1>2 DEF HeldBy
  <2> QED BY <1>4, <1>7, <2>1 DEF Closed
<1>9. \A q, z \in Pids : ~Gone(q)' /\ ~Gone(z)' /\ q # z => h[q] \intersect h[z] = {}
  BY <1>2, <1>7 DEF HeldBy
<1>10. PICK u, w : u = Utime /\ w = Utime'
  OBVIOUS
<1>11. \A q \in Pids : /\ u[q] = proc[q].utime /\ w[q] = proc'[q].utime
                       /\ u[q] \in Nat /\ w[q] \in Nat
  BY <1>3, <1>4, <1>10 DEF Utime
<1>12. ASSUME NEW q \in Pids, ~Gone(q)' PROVE proc'[q].utime + proc'[q].cutime = Total(h[q])'
  <2>1. PICK S : S = h[q]
    OBVIOUS
  <2>2. S \in SUBSET Pids /\ IsFiniteSet(S) /\ q \in S
    BY <1>6, <1>8, <2>1, TotalFacts
  <2>3. proc[q].utime + proc[q].cutime = SumFunctionOnSet(u, S) /\ ~Gone(q)
    BY <1>2, <1>7, <1>10, <1>12, <2>1 DEF HeldBy, Total
  <2>4. proc'[q].utime + proc'[q].cutime = SumFunctionOnSet(w, S)
    <3>1. CASE q # p
      <4>1. p \notin S
        <5>1. ~Gone(p) /\ p \in h[p]
          BY <1>1, <1>8 DEF Gone
        <5> QED BY <1>2, <2>1, <2>3, <3>1, <5>1 DEF HeldBy
      <4>2. SumFunctionOnSet(u, S) = SumFunctionOnSet(w, S)
        <5>1. \A x \in S : u[x] \in Nat /\ u[x] = w[x]
          BY <1>4, <1>11, <2>2, <4>1
        <5> QED BY <2>2, <5>1, SumSame
      <4> QED BY <1>4, <2>3, <3>1, <4>2
    <3>2. CASE q = p
      <4>1. IsFiniteSet(S \ {p})
        BY <2>2, FS_RemoveElement
      <4>2. SumFunctionOnSet(u, S \ {p}) = SumFunctionOnSet(w, S \ {p})
        <5>1. \A x \in S \ {p} : u[x] \in Nat /\ u[x] = w[x]
          BY <1>4, <1>11, <2>2
        <5> QED BY <4>1, <5>1, SumSame
      <4>3. SumSteps(u, S) /\ SumSteps(w, S)
        BY <1>11, <2>2, SumStep
      <4>4. /\ SumFunctionOnSet(u, S) = u[p] + SumFunctionOnSet(u, S \ {p})
            /\ SumFunctionOnSet(w, S) = w[p] + SumFunctionOnSet(w, S \ {p})
        BY <2>2, <3>2, <4>3 DEF SumSteps
      <4>5. SumFunctionOnSet(u, S \ {p}) \in Nat
        BY <1>11, <2>2, <4>1, SumStep DEF SumSteps
      <4>6. w[p] = u[p] + 1 /\ u[p] \in Nat /\ u[p] = proc[p].utime
        BY <1>4, <1>11
      <4>7. SumFunctionOnSet(w, S) = SumFunctionOnSet(u, S) + 1
        BY <4>2, <4>4, <4>5, <4>6
      <4> QED BY <1>3, <1>4, <2>3, <3>2, <4>7
    <3> QED BY <3>1, <3>2
  <2> QED BY <1>10, <2>1, <2>4 DEF Total
<1>13. HeldBy(f, h)'
  BY <1>6, <1>8, <1>9, <1>12 DEF HeldBy
<1>14. SeenBy(f, v)' /\ Apart(f, v)'
  BY <1>1, <1>2, SeenKept
<1> QED BY <1>5, <1>13, <1>14 DEF History

(* Who waits for a child has from then on what the child had.              *)
LEMMA ReapHistory ==
  ASSUME TInv, TInv', NEW c \in Pids, Reap(c), NEW f, NEW r, NEW h, NEW v,
         History(f, r, h, v)
  PROVE  Remembered'
<1>0. PICK x : x = proc[c].ppid
  OBVIOUS
<1>00. Kernel
  BY DEF Reap
<1>1. /\ KernelMoves /\ Kernel
      /\ proc[c].state = "zombie" /\ Gone(c)'
      /\ proc'[c].ppid = InitPid
      /\ \A q \in Pids :
           /\ proc'[q].step = proc[q].step /\ proc'[q].utime = proc[q].utime
           /\ q # c => proc'[q].state = proc[q].state /\ proc'[q].ppid = proc[q].ppid
           /\ q # c => proc'[q].cutime = IF q = x
                                           THEN proc[q].cutime + (proc[c].utime + proc[c].cutime)
                                           ELSE proc[q].cutime
  BY <1>0, <1>00, ReapMoves
<1>2. FamilyOf(f, r) /\ HeldBy(f, h) /\ SeenBy(f, v) /\ Apart(f, v) /\ setting' = setting
  BY <1>1 DEF History, Kernel
<1>3. \A q \in Pids : proc[q].utime \in Nat /\ proc[q].cutime \in Nat
  BY DEF TInv, TypeOK, Processes
<1>4. /\ \A q \in Pids : (Born(q)' <=> Born(q)) /\ (Gone(q)' <=> Gone(q) \/ q = c)
      /\ Born(c) /\ ~Gone(c)
  BY <1>1 DEF Born, Gone
<1>5. FamilyOf(f, r)'
  <2>1. \A q \in Pids : /\ proc'[q].ppid \in {InitPid, proc[q].ppid}
                        /\ Born(q)' <=> proc'[q].step # None
                        /\ q \in Stepds => proc'[q].step \in {None, q}
    BY <1>1, <1>2, <1>4 DEF FamilyOf
  <2> QED BY <1>1, <1>2, <2>1, FamilyKept
<1>6. SeenBy(f, v)' /\ Apart(f, v)'
  BY <1>1, <1>2, SeenKept
<1>7. x # InitPid => x \in Pids /\ x = f[c] /\ x # c /\ Born(x) /\ proc[x].step = proc[c].step
  <2>1. x \in {InitPid, f[c]} /\ f[c] \in 0 .. MaxPid /\ r \in [Pids -> Nat]
    BY <1>0, <1>2 DEF FamilyOf
  <2>2. f[c] # InitPid => Born(f[c]) /\ r[f[c]] < r[c] /\ proc[f[c]].step = proc[c].step
    BY <1>2 DEF FamilyOf
  <2>3. f[c] # InitPid => f[c] \in Pids
    BY <2>1, PidsFacts DEF TInv
  <2>4. r[c] \in Nat
    BY <2>1
  <2> QED BY <2>1, <2>2, <2>3, <2>4
<1>8. /\ h \in [Pids -> SUBSET Pids]
      /\ \A p \in Pids : p \in h[p] /\ Closed(f, p, h[p]) /\ (~Born(p) => h[p] = {p})
      /\ \A p, q \in Pids : ~Gone(p) /\ ~Gone(q) /\ p # q => h[p] \intersect h[q] = {}
      /\ \A p \in Pids : ~Gone(p) => proc[p].utime + proc[p].cutime = Total(h[p])
  BY <1>2 DEF HeldBy
<1>9. PICK g : g = [q \in Pids |-> IF q = x THEN h[q] \union h[c] ELSE h[q]]
  OBVIOUS
<1>10. /\ g \in [Pids -> SUBSET Pids]
       /\ \A q \in Pids : q # x => g[q] = h[q]
       /\ x \in Pids => g[x] = h[x] \union h[c]
  BY <1>8, <1>9
<1>11. \A S : Total(S)' = Total(S)
  <2>1. Utime' = Utime
    BY <1>1 DEF Utime
  <2> QED BY <2>1 DEF Total
<1>12. ASSUME NEW q \in Pids
       PROVE  q \in g[q] /\ Closed(f, q, g[q])' /\ (~Born(q)' => g[q] = {q})
  <2>1. q \in h[q] /\ Closed(f, q, h[q]) /\ (~Born(q) => h[q] = {q})
    BY <1>8
  <2>2. CASE q # x
    BY <1>1, <1>4, <1>10, <2>1, <2>2 DEF Closed
  <2>3. CASE q = x
    <3>1. x # InitPid
      BY <2>3, PidsFacts DEF TInv
    <3>2. g[q] = h[q] \union h[c] /\ g[q] \subseteq Pids
      BY <1>10, <2>3
    <3>3. Closed(f, c, h[c])
      BY <1>8
    <3>4. ASSUME NEW z \in g[q]
          PROVE  proc'[z].step = proc'[q].step /\ (z = q \/ (Gone(z)' /\ f[z] \in g[q]))
      <4>1. CASE z \in h[q]
        <5>1. z \in Pids /\ proc[z].step = proc[q].step /\ (z = q \/ (Gone(z) /\ f[z] \in h[q]))
          BY <2>1, <4>1 DEF Closed
        <5> QED BY <1>1, <1>4, <3>2, <5>1
      <4>2. CASE z \in h[c]
        <5>1. z \in Pids /\ proc[z].step = proc[c].step /\ (z = c \/ (Gone(z) /\ f[z] \in h[c]))
          BY <3>3, <4>2 DEF Closed
        <5>2. proc[z].step = proc[q].step /\ f[c] = q
          BY <1>7, <2>3, <3>1, <5>1
        <5> QED BY <1>1, <1>4, <2>1, <3>2, <5>1, <5>2
      <4> QED BY <3>2, <4>1, <4>2
    <3>5. Closed(f, q, g[q])'
      BY <3>2, <3>4 DEF Closed
    <3>6. Born(q)'
      BY <1>4, <1>7, <2>3, <3>1
    <3> QED BY <2>1, <3>2, <3>5, <3>6
  <2> QED BY <2>2, <2>3
<1>13. ASSUME NEW p \in Pids, NEW q \in Pids, ~Gone(p)', ~Gone(q)', p # q
       PROVE  g[p] \intersect g[q] = {}
  <2>1. ~Gone(p) /\ ~Gone(q) /\ p # c /\ q # c /\ ~Gone(c)
    BY <1>4, <1>13
  <2>2. h[p] \intersect h[q] = {} /\ h[p] \intersect h[c] = {} /\ h[q] \intersect h[c] = {}
    BY <1>8, <1>13, <2>1
  <2> QED BY <1>10, <1>13, <2>2
<1>14. ASSUME NEW q \in Pids, ~Gone(q)' PROVE proc'[q].utime + proc'[q].cutime = Total(g[q])'
  <2>1. q # c /\ ~Gone(q) /\ proc[q].utime + proc[q].cutime = Total(h[q])
    BY <1>4, <1>8, <1>14
  <2>2. CASE q # x
    BY <1>1, <1>10, <1>11, <2>1, <2>2
  <2>3. CASE q = x
    <3>1. g[q] = h[q] \union h[c] /\ h[q] \intersect h[c] = {}
      BY <1>4, <1>8, <1>10, <2>1, <2>3
    <3>2. PICK u, S, R : u = Utime /\ S = h[q] /\ R = h[c]
      OBVIOUS
    <3>3. /\ IsFiniteSet(S) /\ IsFiniteSet(R) /\ S \intersect R = {}
          /\ \A z \in S \union R : u[z] \in Nat
      BY <1>8, <3>1, <3>2, TotalFacts
    <3>4. SumFunctionOnSet(u, S \union R) = SumFunctionOnSet(u, S) + SumFunctionOnSet(u, R)
      BY <3>3, SumUnion
    <3>5. Total(g[q]) = Total(h[q]) + Total(h[c])
      BY <3>1, <3>2, <3>4 DEF Total
    <3>6. proc[c].utime + proc[c].cutime = Total(h[c])
      BY <1>4, <1>8
    <3>7. /\ proc'[q].utime = proc[q].utime
          /\ proc'[q].cutime = proc[q].cutime + (proc[c].utime + proc[c].cutime)
      BY <1>1, <2>1, <2>3
    <3>8. PICK a, b, t : a = proc[q].utime /\ b = proc[q].cutime /\ t = proc[c].utime + proc[c].cutime
      OBVIOUS
    <3>9. a \in Nat /\ b \in Nat /\ t \in Nat /\ a + (b + t) = (a + b) + t
      BY <1>3, <3>8
    <3>10. proc'[q].utime + proc'[q].cutime = Total(g[q])
      BY <2>1, <3>5, <3>6, <3>7, <3>8, <3>9
    <3> QED BY <1>11, <3>10
  <2> QED BY <2>2, <2>3
<1>15. HeldBy(f, g)'
  BY <1>10, <1>12, <1>13, <1>14 DEF HeldBy
<1> QED BY <1>5, <1>6, <1>15 DEF Remembered, History

-----------------------------------------------------------------------------
(* The histories the steps of the scraper leave.                           *)

LEMMA PastKept ==
  ASSUME UNCHANGED <<proc, setting>>, NEW f, NEW r, NEW h, FamilyOf(f, r), HeldBy(f, h)
  PROVE  /\ FamilyOf(f, r)' /\ HeldBy(f, h)'
         /\ \A S : Total(S)' = Total(S)
         /\ \A p : (Born(p)' <=> Born(p)) /\ (Gone(p)' <=> Gone(p))
         /\ \A p, S : Closed(f, p, S)' <=> Closed(f, p, S)
<1>1. Stepds' = Stepds /\ Utime' = Utime
  BY DEF Stepds, Utime
<1>2. \A S : Total(S)' = Total(S)
  BY <1>1 DEF Total
<1>3. \A p : (Born(p)' <=> Born(p)) /\ (Gone(p)' <=> Gone(p))
  BY DEF Born, Gone
<1>4. \A p, S : Closed(f, p, S)' <=> Closed(f, p, S)
  BY <1>3 DEF Closed
<1>5. FamilyOf(f, r)'
  BY <1>1, <1>3 DEF FamilyOf
<1>6. HeldBy(f, h)'
  BY <1>2, <1>3, <1>4 DEF HeldBy
<1> QED BY <1>2, <1>3, <1>4, <1>5, <1>6

(* Before and after a round.                                               *)
LEMMA NoScanHistory ==
  ASSUME UNCHANGED <<proc, setting>>, NEW f, NEW r, NEW h, NEW v, History(f, r, h, v),
         Recorded' = {}, \A p \in Pids : Children(p)' = {}, pc' # "cmdline"
  PROVE  History(f, r, h, v)'
<1>1. FamilyOf(f, r) /\ HeldBy(f, h) /\ SeenBy(f, v)
  BY DEF History
<1>2. /\ FamilyOf(f, r)' /\ HeldBy(f, h)'
      /\ \A p : Born(p)' <=> Born(p)
      /\ \A p, S : Closed(f, p, S)' <=> Closed(f, p, S)
  BY <1>1, PastKept
<1>3. SeenBy(f, v)'
  BY <1>1, <1>2 DEF SeenBy
<1>4. Apart(f, v)'
  BY DEF Apart
<1> QED BY <1>2, <1>3, <1>4 DEF History

(* A process that is listed is in what another had when it was read at no  *)
(* time: nobody has waited for it.                                         *)
LEMMA NotSeen ==
  ASSUME TInv, NEW f, NEW v, SeenBy(f, v), NEW p \in Listed, NEW q \in Pids, p # q
  PROVE  p \notin v[q]
<1>1. ~Gone(p)
  BY DEF Listed, Gone
<1>2. Closed(f, q, v[q])
  BY DEF SeenBy
<1> QED BY <1>1, <1>2 DEF Closed

LEMMA StatHistory ==
  ASSUME TInv, ReadStat, NEW f, NEW r, NEW h, NEW v, History(f, r, h, v)
  PROVE  Remembered'
<1>0. PICK p : p = Min(todo)
  OBVIOUS
<1> DEFINE stat == [pid |-> p, ppid |-> proc[p].ppid,
                    utime |-> proc[p].utime, cutime |-> proc[p].cutime]
<1>1. /\ pc = "readdir" /\ todo # {}
      /\ \/ p \in Listed /\ cur_result' = stat /\ pc' = "cmdline"
         \/ p \notin Listed /\ cur_result' = cur_result /\ pc' = pc
      /\ UNCHANGED <<proc, setting, unchecked, child, result>>
  BY <1>0 DEF ReadStat, kernel
<1>2. FamilyOf(f, r) /\ HeldBy(f, h) /\ SeenBy(f, v) /\ Apart(f, v)
  BY DEF History
<1>3. /\ FamilyOf(f, r)' /\ HeldBy(f, h)'
      /\ \A S : Total(S)' = Total(S)
      /\ \A q : Born(q)' <=> Born(q)
      /\ \A q, S : Closed(f, q, S)' <=> Closed(f, q, S)
  BY <1>1, <1>2, PastKept
<1>4. Recorded' = Recorded /\ \A q : Own(q)' = Own(q) /\ Children(q)' = Children(q)
  BY <1>1 DEF Recorded, Own, Children
<1>5. \A q : Unlooked(q) = {}
  BY <1>1 DEF Unlooked
<1>6. CASE p \notin Listed
  <2>1. cur_result' = cur_result /\ pc' = pc /\ \A q : Unlooked(q)' = Unlooked(q)
    BY <1>1, <1>4, <1>6 DEF Unlooked
  <2>2. SeenBy(f, v)'
    BY <1>2, <1>3, <1>4, <2>1 DEF SeenBy
  <2>3. Apart(f, v)'
    BY <1>1, <1>2, <1>4, <2>1 DEF Apart
  <2> QED BY <1>3, <2>2, <2>3 DEF Remembered, History
<1>7. CASE p \in Listed
  <2>1. PICK g : g = [v EXCEPT ![p] = h[p]]
    OBVIOUS
  <2>2. p \in Pids /\ ~Read(p) /\ Born(p) /\ ~Gone(p)
    <3>1. p \in todo /\ p \in Pids
      BY <1>0, <1>1, FirstTodo
    <3> QED BY <1>7, <3>1 DEF TInv, TodoInv, Listed, Gone
  <2>3. /\ g \in [Pids -> SUBSET Pids] /\ g[p] = h[p]
        /\ \A q \in Pids : q # p => g[q] = v[q]
    <3>1. v \in [Pids -> SUBSET Pids] /\ h[p] \in SUBSET Pids
      BY <1>2, <2>2 DEF SeenBy, HeldBy
    <3> QED BY <2>1, <2>2, <3>1
  <2>4. cur_result' = stat /\ pc' = "cmdline"
    BY <1>1, <1>7
  <2>5. cur_result'.pid = p /\ cur_result'.ppid = proc[p].ppid
        /\ cur_result'.utime = proc[p].utime /\ cur_result'.cutime = proc[p].cutime
    BY <2>4
  <2>6. \A q \in Pids : Closed(f, q, g[q])' /\ (g[q] # {} => Born(q)')
    <3>1. Closed(f, p, h[p])
      BY <1>2, <2>2 DEF HeldBy
    <3> QED BY <1>2, <1>3, <2>2, <2>3, <3>1 DEF SeenBy
  <2>7. \A q \in Recorded' : Own(q)' <= Total(g[q])'
    <3>1. \A q \in Recorded : q \in Pids /\ q # p
      BY <2>2 DEF Recorded, Read
    <3>2. \A q \in Recorded : g[q] = v[q] /\ Own(q) <= Total(v[q])
      BY <1>2, <2>3, <3>1 DEF SeenBy
    <3> QED BY <1>3, <1>4, <3>2
  <2>8. cur_result'.utime + cur_result'.cutime <= Total(g[cur_result.pid])'
    <3>1. proc[p].utime + proc[p].cutime = Total(h[p])
      BY <1>2, <2>2 DEF HeldBy
    <3>2. Total(h[p]) \in Nat
      BY <1>2, <2>2, TotalFacts DEF HeldBy
    <3>3. Total(h[p]) <= Total(h[p])
      BY <3>2
    <3>4. cur_result'.utime + cur_result'.cutime = proc[p].utime + proc[p].cutime
      BY <2>5
    <3>5. Total(g[cur_result.pid])' = Total(h[p])
      BY <1>3, <2>3, <2>5
    <3> QED BY <3>1, <3>3, <3>4, <3>5
  <2>9. \A q \in Pids : q # p => p \notin g[q]
    BY <1>2, <1>7, <2>3, NotSeen
  <2>10. cur_result'.ppid \in {InitPid, f[p]}
    BY <1>2, <2>2, <2>5 DEF FamilyOf
  <2>11. SeenBy(f, g)'
    <3>1. pc' = "cmdline" =>
            /\ cur_result'.utime + cur_result'.cutime <= Total(g[cur_result.pid])'
            /\ \A q \in Pids : q # cur_result'.pid => cur_result'.pid \notin g[q]
            /\ cur_result'.ppid \in {InitPid, f[cur_result'.pid]}
      BY <2>5, <2>8, <2>9, <2>10
    <3> QED BY <2>3, <2>6, <2>7, <3>1 DEF SeenBy
  <2>12. Apart(f, g)'
    <3> SUFFICES ASSUME NEW q \in Pids, NEW i \in Children(q)
                 PROVE  f[child[q][i]] = q /\ (i \in Unlooked(q)' \/ child[q][i] \notin g[q])
      BY <1>1, <1>4 DEF Apart
    <3>1. f[child[q][i]] = q /\ child[q][i] \notin v[q]
      BY <1>2, <1>5 DEF Apart
    <3>2. q = p => i \in Unlooked(q)'
      BY <1>4, <2>4, <2>5 DEF Unlooked
    <3> QED BY <2>3, <3>1, <3>2
  <2> QED BY <1>3, <2>11, <2>12 DEF Remembered, History
<1> QED BY <1>6, <1>7

(* A parent is of an earlier generation.                                   *)
LEMMA ParentBefore ==
  ASSUME TInv, NEW f, NEW r, FamilyOf(f, r), NEW p \in Pids, f[p] # InitPid
  PROVE  f[p] \in Pids /\ f[p] # p /\ r[f[p]] < r[p]
<1>1. f[p] \in Pids /\ r[f[p]] < r[p] /\ r[p] \in Nat
  BY PidsFacts DEF FamilyOf, TInv
<1> QED BY <1>1

LEMMA CmdlineHistory ==
  ASSUME TInv, ReadCmdline, NEW f, NEW r, NEW h, NEW v, History(f, r, h, v)
  PROVE  History(f, r, h, v)'
<1>0. PICK p, y : p = cur_result.pid /\ y = cur_result.ppid
  OBVIOUS
<1> DEFINE n == Len(child[y])
<1>1. /\ p \in Pids /\ y \in 0 .. MaxPid /\ pc = "cmdline" /\ ~Read(p)
      /\ result' = [result EXCEPT ![p] = [utime |-> cur_result.utime, cutime |-> cur_result.cutime]]
      /\ \A q \in Pids : q # p => (Read(q)' <=> Read(q)) /\ result'[q] = result[q]
      /\ \A z \in 0 .. MaxPid : z # y => child'[z] = child[z] /\ Children(z)' = Children(z)
      /\ Children(y)' = Children(y) \union {n + 1}
      /\ \A i \in Children(y) : child'[y][i] = child[y][i]
      /\ child'[y][n + 1] = p
      /\ Recorded' = Recorded \union {p}
  BY <1>0, PutIntoTree
<1>2. /\ unchecked' = [i \in DOMAIN child[p] |-> i]
      /\ pc' = IF child[p] = <<>> THEN "readdir" ELSE "check"
      /\ UNCHANGED <<proc, setting, cur_result>>
  BY <1>0 DEF ReadCmdline, kernel
<1>3. FamilyOf(f, r) /\ HeldBy(f, h) /\ SeenBy(f, v) /\ Apart(f, v)
  BY DEF History
<1>4. /\ FamilyOf(f, r)' /\ HeldBy(f, h)'
      /\ \A S : Total(S)' = Total(S)
      /\ \A q : Born(q)' <=> Born(q)
      /\ \A q, S : Closed(f, q, S)' <=> Closed(f, q, S)
  BY <1>2, <1>3, PastKept
<1>5. /\ cur_result.utime + cur_result.cutime <= Total(v[p])
      /\ \A q \in Pids : q # p => p \notin v[q]
      /\ y \in {InitPid, f[p]}
  BY <1>0, <1>1, <1>3 DEF SeenBy
<1>6. \A q \in Recorded' : Own(q)' <= Total(v[q])'
  <2> SUFFICES ASSUME NEW q \in Recorded' PROVE Own(q)' <= Total(v[q])
    BY <1>4
  <2>1. CASE q = p
    <3>1. result \in [Pids -> Times \union {None}]
      BY DEF TInv, TypeOK
    <3>2. Own(p)' = cur_result.utime + cur_result.cutime
      BY <1>1, <3>1 DEF Own
    <3> QED BY <1>5, <2>1, <3>2
  <2>2. CASE q # p
    <3>1. q \in Recorded /\ q \in Pids
      BY <1>1, <2>2 DEF Recorded
    <3>2. Own(q)' = Own(q)
      BY <1>1, <2>2, <3>1 DEF Own
    <3> QED BY <1>3, <3>1, <3>2 DEF SeenBy
  <2> QED BY <2>1, <2>2
<1>7. SeenBy(f, v)'
  <2>1. pc' # "cmdline"
    BY <1>2
  <2> QED BY <1>3, <1>4, <1>6, <2>1 DEF SeenBy
<1>8. Apart(f, v)'
  <2> SUFFICES ASSUME NEW z \in Pids, NEW i \in Children(z)'
               PROVE  f[child'[z][i]] = z /\ (i \in Unlooked(z)' \/ child'[z][i] \notin v[z])
    BY DEF Apart
  <2>0. z \in 0 .. MaxPid /\ z # InitPid
    BY PidsFacts DEF TInv
  <2>1. CASE i \in Children(z)
    <3>1. child'[z][i] = child[z][i]
      BY <1>1, <2>0, <2>1
    <3>2. f[child[z][i]] = z /\ (i \in Unlooked(z) \/ child[z][i] \notin v[z])
      BY <1>3, <2>1 DEF Apart
    <3>3. i \in Unlooked(z) => i \in Unlooked(z)'
      <4> SUFFICES ASSUME i \in Unlooked(z) PROVE i \in Unlooked(z)'
        OBVIOUS
      <4>1. z = p /\ i \in DOMAIN child[p] /\ child[p] # <<>>
        <5>1. z = p /\ i \in DOMAIN child[p]
          BY <1>0, <2>1 DEF Unlooked, Children
        <5>2. child[p] \in Seq(0 .. MaxPid)
          BY <2>0, <5>1 DEF TInv, ChildInv
        <5> QED BY <5>1, <5>2, EmptySeq, LenProperties
      <4>2. pc' = "check" /\ i \in Range(unchecked') /\ cur_result'.pid = p
        BY <1>0, <1>2, <4>1 DEF Range
      <4> QED BY <4>1, <4>2 DEF Unlooked
    <3> QED BY <3>1, <3>2, <3>3
  <2>2. CASE i \notin Children(z)
    <3>1. z = y /\ i = n + 1 /\ child'[z][i] = p
      BY <1>1, <2>0, <2>2
    <3>2. f[p] = z /\ f[p] # InitPid
      BY <1>5, <2>0, <3>1
    <3>3. z # p
      BY <1>1, <1>3, <3>2, ParentBefore
    <3> QED BY <1>5, <3>1, <3>2, <3>3
  <2> QED BY <2>1, <2>2
<1> QED BY <1>4, <1>7, <1>8 DEF History

LEMMA CheckHistory ==
  ASSUME TInv, CheckChild, NEW f, NEW r, NEW h, NEW v, History(f, r, h, v)
  PROVE  History(f, r, h, v)'
<1>0. PICK p, i : p = cur_result.pid /\ i = Head(unchecked)
  OBVIOUS
<1>00. PICK c : c = child[p][i]
  OBVIOUS
<1>1. /\ pc = "check" /\ p \in Pids
      /\ pc' = IF unchecked' = <<>> THEN "readdir" ELSE "check"
      /\ unchecked' \in Seq(DOMAIN child[p])
      /\ Range(unchecked) \subseteq Range(unchecked') \union {i}
      /\ \/ Stays /\ (c \in Listed \/ c = 0)
         \/ Dropped(p, i, c)
  BY <1>0, <1>00, CheckMoves
<1>2. UNCHANGED <<proc, setting, cur_result>>
  BY DEF CheckChild, kernel
<1>3. FamilyOf(f, r) /\ HeldBy(f, h) /\ SeenBy(f, v) /\ Apart(f, v)
  BY DEF History
<1>4. /\ FamilyOf(f, r)' /\ HeldBy(f, h)'
      /\ \A S : Total(S)' = Total(S)
      /\ \A q : Born(q)' <=> Born(q)
      /\ \A q, S : Closed(f, q, S)' <=> Closed(f, q, S)
  BY <1>2, <1>3, PastKept
<1>5. \A q \in Recorded' : q \in Recorded /\ Own(q)' = Own(q)
  <2>1. CASE Stays
    BY <2>1 DEF Stays, Recorded, Own
  <2>2. CASE Dropped(p, i, c)
    BY <2>2 DEF Dropped, Recorded, Own, Read
  <2> QED BY <1>1, <2>1, <2>2
<1>6. SeenBy(f, v)'
  <2>1. pc' # "cmdline"
    BY <1>1
  <2>2. \A q \in Recorded' : Own(q)' <= Total(v[q])'
    BY <1>3, <1>4, <1>5 DEF SeenBy
  <2> QED BY <1>3, <1>4, <2>1, <2>2 DEF SeenBy
<1>7. Apart(f, v)'
  <2> SUFFICES ASSUME NEW z \in Pids, NEW j \in Children(z)'
               PROVE  f[child'[z][j]] = z /\ (j \in Unlooked(z)' \/ child'[z][j] \notin v[z])
    BY DEF Apart
  <2>0. z \in 0 .. MaxPid /\ z # InitPid
    BY PidsFacts DEF TInv
  <2>1. /\ j \in Children(z) /\ child'[z][j] = child[z][j]
        /\ z = p /\ j = i => c \in Listed /\ c = child[z][j]
    <3>1. CASE Stays /\ (c \in Listed \/ c = 0)
      <4>1. j \in Children(z) /\ child'[z][j] = child[z][j]
        BY <3>1 DEF Stays, Children
      <4>2. child[z][j] # 0
        BY <4>1 DEF Children
      <4> QED BY <1>00, <3>1, <4>1, <4>2
    <3>2. CASE Dropped(p, i, c)
      BY <2>0, <3>2 DEF Dropped
    <3> QED BY <1>1, <3>1, <3>2
  <2>2. f[child[z][j]] = z /\ (j \in Unlooked(z) \/ child[z][j] \notin v[z])
    BY <1>3, <2>1 DEF Apart
  <2>3. CASE z = p /\ j = i
    <3>1. c \in Listed /\ c \in Pids /\ f[c] = z
      BY <2>1, <2>2, <2>3 DEF Listed
    <3>2. c # z
      BY <1>3, <2>0, <3>1, ParentBefore
    <3>3. c \notin v[z]
      BY <1>3, <3>1, <3>2, NotSeen
    <3> QED BY <2>1, <2>2, <2>3, <3>3
  <2>4. CASE ~(z = p /\ j = i) /\ j \in Unlooked(z)
    <3>1. z = p /\ j \in Range(unchecked)
      BY <1>0, <1>1, <2>4 DEF Unlooked
    <3>2. j \in Range(unchecked')
      BY <1>1, <2>4, <3>1
    <3>3. unchecked' # <<>>
      BY <3>2, EmptySeq DEF Range
    <3>4. pc' = "check" /\ cur_result'.pid = p
      BY <1>0, <1>1, <1>2, <3>3
    <3>5. j \in Unlooked(z)'
      BY <3>1, <3>2, <3>4 DEF Unlooked
    <3> QED BY <2>1, <2>2, <3>5
  <2>5. CASE j \notin Unlooked(z)
    BY <2>1, <2>2, <2>5
  <2> QED BY <2>3, <2>4, <2>5
<1> QED BY <1>4, <1>6, <1>7 DEF History

LEMMA HistoryStep ==
  ASSUME TInv, TInv', Remembered, [Next]_vars
  PROVE  Remembered'
<1>0. PICK f, r, h, v : History(f, r, h, v)
  BY DEF Remembered
<1>1. CASE KernelNext
  <2>1. ASSUME NEW s \in Stepds, StepStarts(s) PROVE Remembered'
    <3>1. History(f, r, h, v)'
      BY <1>0, <2>1, StartsHistory
    <3> QED BY <3>1 DEF Remembered
  <2>2. ASSUME NEW p \in Pids, NEW c \in Pids, Fork(p, c) PROVE Remembered'
    BY <1>0, <2>2, ForkHistory
  <2>3. ASSUME NEW p \in Pids, Spend(p) PROVE Remembered'
    <3>1. History(f, r, h, v)'
      BY <1>0, <2>3, SpendHistory
    <3> QED BY <3>1 DEF Remembered
  <2>4. ASSUME NEW p \in Pids, Exit(p) PROVE Remembered'
    <3>1. History(f, r, h, v)'
      BY <1>0, <2>4, ExitHistory
    <3> QED BY <3>1 DEF Remembered
  <2>5. ASSUME NEW c \in Pids, Reap(c) PROVE Remembered'
    BY <1>0, <2>5, ReapHistory
  <2> QED BY <1>1, <2>1, <2>2, <2>3, <2>4, <2>5 DEF KernelNext
<1>2. CASE StartRound \/ EndRound \/ Stage
  <2>1. /\ UNCHANGED <<proc, setting>> /\ pc' # "cmdline"
        /\ \/ pc \in {"wait", "stage"} /\ UNCHANGED <<result, child>>
           \/ result' = [p \in Pids |-> None] /\ child' = [p \in 0 .. MaxPid |-> <<>>]
    BY <1>2 DEF StartRound, EndRound, Stage, NoScan, kernel, scan
  <2>2. Recorded' = {} /\ \A p \in Pids : Children(p)' = {}
    <3>1. CASE pc \in {"wait", "stage"} /\ UNCHANGED <<result, child>>
      <4>1. Recorded = {} /\ child = [p \in 0 .. MaxPid |-> <<>>]
        BY <3>1 DEF TInv, IdleInv
      <4>2. \A p \in Pids : child'[p] = <<>>
        BY <3>1, <4>1, PidsFacts DEF TInv
      <4>3. \A p \in Pids : Children(p)' = {}
        BY <4>2 DEF Children
      <4>4. Recorded' = {}
        BY <3>1, <4>1 DEF Recorded
      <4> QED BY <4>3, <4>4
    <3>2. CASE result' = [p \in Pids |-> None] /\ child' = [p \in 0 .. MaxPid |-> <<>>]
      <4>1. \A p \in Pids : child'[p] = <<>>
        BY <3>2, PidsFacts DEF TInv
      <4>2. \A p \in Pids : Children(p)' = {}
        BY <4>1 DEF Children
      <4>3. Recorded' = {}
        BY <3>2 DEF Recorded
      <4> QED BY <4>2, <4>3
    <3> QED BY <2>1, <3>1, <3>2
  <2>3. History(f, r, h, v)'
    BY <1>0, <2>1, <2>2, NoScanHistory
  <2> QED BY <2>3 DEF Remembered
<1>3. CASE ReadStat
  BY <1>0, <1>3, StatHistory
<1>4. CASE ReadCmdline \/ CheckChild
  <2>1. History(f, r, h, v)'
    BY <1>0, <1>4, CmdlineHistory, CheckHistory
  <2> QED BY <2>1 DEF Remembered
<1>5. CASE UNCHANGED vars
  <2>1. UNCHANGED <<proc, setting, pc, cur_result, unchecked, child, result>>
    BY <1>5 DEF vars, kernel, scan
  <2>2. FamilyOf(f, r) /\ HeldBy(f, h) /\ SeenBy(f, v) /\ Apart(f, v)
    BY <1>0 DEF History
  <2>3. /\ FamilyOf(f, r)' /\ HeldBy(f, h)'
        /\ \A S : Total(S)' = Total(S)
        /\ \A p : Born(p)' <=> Born(p)
        /\ \A p, S : Closed(f, p, S)' <=> Closed(f, p, S)
    BY <2>1, <2>2, PastKept
  <2>4. /\ Recorded' = Recorded /\ \A p : Own(p)' = Own(p) /\ Children(p)' = Children(p)
        /\ \A p : Unlooked(p)' = Unlooked(p)
    BY <2>1 DEF Recorded, Own, Children, Unlooked
  <2>5. SeenBy(f, v)'
    BY <2>1, <2>2, <2>3, <2>4 DEF SeenBy
  <2>6. Apart(f, v)'
    BY <2>1, <2>2, <2>4 DEF Apart
  <2> QED BY <2>3, <2>5, <2>6 DEF Remembered, History
<1> QED BY <1>1, <1>2, <1>3, <1>4, <1>5 DEF Next, ScraperNext

LEMMA HistoryInit ==
  ASSUME Init, TInv
  PROVE  Remembered
<1>1. /\ proc = [p \in Pids |-> [state |-> "unborn", ppid |-> InitPid, step |-> None,
                                 utime |-> 0, cutime |-> 0]]
      /\ pc = "wait" /\ child = [p \in 0 .. MaxPid |-> <<>>] /\ Recorded = {}
  BY DEF Init, Recorded
<1>2. PICK f, r, h, v : /\ f = [p \in Pids |-> InitPid] /\ r = [p \in Pids |-> 0]
                        /\ h = [p \in Pids |-> {p}] /\ v = [p \in Pids |-> {}]
  OBVIOUS
<1>3. \A p \in Pids : ~Born(p) /\ ~Gone(p) /\ proc[p].step = None /\ proc[p].ppid = InitPid
  BY <1>1 DEF Born, Gone
<1>4. FamilyOf(f, r)
  BY <1>2, <1>3, PidsFacts DEF FamilyOf, TInv
<1>5. HeldBy(f, h)
  <2>1. \A p \in Pids : p \in h[p] /\ Closed(f, p, h[p]) /\ h[p] = {p}
    BY <1>2 DEF Closed
  <2>2. ASSUME NEW p \in Pids PROVE proc[p].utime + proc[p].cutime = Total(h[p])
    <3>1. PICK u, S : u = Utime /\ S = {p}
      OBVIOUS
    <3>2. IsFiniteSet(S) /\ \A x \in S : u[x] = 0
      BY <1>1, <3>1, TotalFacts DEF Utime
    <3>3. SumFunctionOnSet(u, S) = 0
      BY <3>2, SumNone
    <3>4. Total(h[p]) = 0
      BY <2>1, <3>1, <3>3 DEF Total
    <3> QED BY <1>1, <3>4
  <2>3. h \in [Pids -> SUBSET Pids]
    BY <1>2
  <2> QED BY <1>2, <2>1, <2>2, <2>3 DEF HeldBy
<1>6. SeenBy(f, v)
  <2>1. \A p \in Pids : Closed(f, p, v[p])
    BY <1>2 DEF Closed
  <2> QED BY <1>1, <1>2, <2>1 DEF SeenBy
<1>7. Apart(f, v)
  <2>1. \A p \in Pids : child[p] = <<>>
    BY <1>1, PidsFacts DEF TInv
  <2> QED BY <2>1 DEF Apart, Children
<1> QED BY <1>4, <1>5, <1>6, <1>7 DEF Remembered, History

-----------------------------------------------------------------------------
(* What is added up of a step at the end of a round.                       *)

LEMMA EarliestOf ==
  ASSUME NEW r \in [Pids -> Nat], NEW T \in SUBSET Pids, T # {}
  PROVE  \E m \in T : \A k \in T : r[m] <= r[k]
<1> DEFINE R == {r[x] : x \in T}
<1>1. R \in SUBSET Nat /\ R # {}
  OBVIOUS
<1>2. PICK y \in R : \A k \in R : y <= k
  <2> HIDE DEF R
  <2> QED BY <1>1, NatLeast
<1> QED BY <1>2

(* A part of the tree: everyone in it but its root has its parent there,   *)
(* which had not waited for it when it was read.                           *)
UpTo(f, v, q, S) ==
  /\ q \in S
  /\ \A z \in S : z = q \/ (f[z] \in S /\ z \notin v[f[z]])

LEMMA RootFirst ==
  ASSUME TInv, NEW f, NEW r, FamilyOf(f, r), NEW v, NEW q,
         NEW S \in SUBSET Pids, UpTo(f, v, q, S)
  PROVE  \A z \in S : r[q] <= r[z] /\ proc[z].step = proc[q].step
<1>0. r \in [Pids -> Nat] /\ q \in S
  BY DEF FamilyOf, UpTo
<1>1. ASSUME NEW z \in S, z # q
      PROVE  f[z] \in S /\ r[f[z]] < r[z] /\ proc[f[z]].step = proc[z].step
  <2>1. f[z] \in S /\ f[z] \in Pids
    BY <1>1 DEF UpTo
  <2>2. f[z] # InitPid
    BY <2>1, PidsFacts DEF TInv
  <2> QED BY <2>1, <2>2 DEF FamilyOf
<1>2. \A z \in S : r[q] <= r[z]
  <2>1. PICK m \in S : \A k \in S : r[m] <= r[k]
    BY <1>0, EarliestOf
  <2>2. m = q
    <3> SUFFICES ASSUME m # q PROVE FALSE
      OBVIOUS
    <3>1. f[m] \in S /\ r[f[m]] < r[m] /\ r[m] <= r[f[m]]
      BY <1>1, <2>1
    <3>2. r[m] \in Nat /\ r[f[m]] \in Nat
      BY <1>0, <3>1
    <3> QED BY <3>1, <3>2
  <2> QED BY <2>1, <2>2
<1>3. \A z \in S : proc[z].step = proc[q].step
  <2> DEFINE T == {z \in S : proc[z].step # proc[q].step}
  <2> SUFFICES ASSUME T # {} PROVE FALSE
    OBVIOUS
  <2>1. T \in SUBSET Pids
    OBVIOUS
  <2>2. PICK m \in T : \A k \in T : r[m] <= r[k]
    <3> HIDE DEF T
    <3> QED BY <1>0, <2>1, EarliestOf
  <2>3. m \in S /\ m # q /\ proc[m].step # proc[q].step
    BY <2>2
  <2>4. f[m] \in S /\ r[f[m]] < r[m] /\ proc[f[m]].step = proc[m].step
    BY <1>1, <2>3
  <2>5. f[m] \in T
    BY <2>3, <2>4
  <2>6. r[m] \in Nat /\ r[f[m]] \in Nat
    BY <1>0, <2>3, <2>4
  <2> QED BY <2>2, <2>4, <2>5, <2>6
<1> QED BY <1>2, <1>3

(* What is below one child is not below another, and the parent is in      *)
(* neither.                                                                *)
LEMMA PartsApart ==
  ASSUME TInv, NEW f, NEW r, FamilyOf(f, r), NEW v, NEW p \in Pids
  PROVE  \A a, b \in Pids, S, R \in SUBSET Pids :
           f[a] = p /\ UpTo(f, v, a, S) =>
             p \notin S /\ (a # b /\ f[b] = p /\ UpTo(f, v, b, R) => S \intersect R = {})
<1>0. r \in [Pids -> Nat] /\ p # InitPid
  BY PidsFacts DEF FamilyOf, TInv
<1>1. \A b \in Pids : f[b] = p => r[p] < r[b]
  BY <1>0 DEF FamilyOf
<1>2. ASSUME NEW b \in Pids, f[b] = p, NEW R \in SUBSET Pids, UpTo(f, v, b, R)
      PROVE  p \notin R
  <2> SUFFICES ASSUME p \in R PROVE FALSE
    OBVIOUS
  <2>1. r[b] <= r[p]
    BY <1>2, RootFirst
  <2>2. r[p] < r[b] /\ r[p] \in Nat /\ r[b] \in Nat
    BY <1>0, <1>1, <1>2
  <2> QED BY <2>1, <2>2
<1>3. ASSUME NEW a \in Pids, f[a] = p, NEW S \in SUBSET Pids, UpTo(f, v, a, S),
             NEW b \in Pids, b # a, f[b] = p, NEW R \in SUBSET Pids, UpTo(f, v, b, R),
             S \intersect R # {}
      PROVE  FALSE
  <2>1. PICK T : T = S \intersect R
    OBVIOUS
  <2>2. PICK m \in T : \A k \in T : r[m] <= r[k]
    <3>1. T \in SUBSET Pids /\ T # {}
      BY <1>3, <2>1
    <3> QED BY <1>0, <3>1, EarliestOf
  <2>3. m \in S /\ m \in R /\ m \in Pids
    BY <2>1, <2>2
  <2>4. m # a
    <3> SUFFICES ASSUME m = a PROVE FALSE
      OBVIOUS
    <3>1. p \in R
      BY <1>3, <2>3 DEF UpTo
    <3> QED BY <1>2, <1>3, <3>1
  <2>5. m # b
    <3> SUFFICES ASSUME m = b PROVE FALSE
      OBVIOUS
    <3>1. p \in S
      BY <1>3, <2>3 DEF UpTo
    <3> QED BY <1>2, <1>3, <3>1
  <2>6. f[m] \in S /\ f[m] \in R
    BY <1>3, <2>3, <2>4, <2>5 DEF UpTo
  <2>7. f[m] \in Pids /\ f[m] # InitPid
    BY <2>6, PidsFacts DEF TInv
  <2>8. r[f[m]] < r[m] /\ r[m] <= r[f[m]] /\ r[m] \in Nat /\ r[f[m]] \in Nat
    BY <1>0, <2>1, <2>2, <2>3, <2>6, <2>7 DEF FamilyOf
  <2> QED BY <2>8
<1>4. ASSUME NEW a \in Pids, NEW b \in Pids, NEW S \in SUBSET Pids, NEW R \in SUBSET Pids,
             f[a] = p, UpTo(f, v, a, S)
      PROVE  p \notin S /\ (a # b /\ f[b] = p /\ UpTo(f, v, b, R) => S \intersect R = {})
  <2>1. p \notin S
    BY <1>2, <1>4
  <2>2. ASSUME a # b, f[b] = p, UpTo(f, v, b, R) PROVE S \intersect R = {}
    BY <1>3, <1>4, <2>2
  <2> QED BY <2>1, <2>2
<1> QED BY <1>4

(* What those in such a part had when they were read is nobody else's.     *)
LEMMA SeenApart ==
  ASSUME TInv, NEW f, NEW r, FamilyOf(f, r), NEW v, SeenBy(f, v), NEW q,
         NEW S \in SUBSET Pids, UpTo(f, v, q, S)
  PROVE  \A a, b \in S : a # b => v[a] \intersect v[b] = {}
<1>0. r \in [Pids -> Nat] /\ v \in [Pids -> SUBSET Pids]
  BY DEF FamilyOf, SeenBy
<1>1. ASSUME NEW z \in Pids, NEW x \in v[z], x # z
      PROVE  x \in Pids /\ f[x] \in v[z] /\ f[x] \in Pids /\ r[f[x]] < r[x]
  <2>1. Closed(f, z, v[z])
    BY DEF SeenBy
  <2>2. x \in Pids /\ f[x] \in v[z] /\ f[x] \in Pids
    BY <1>1, <2>1 DEF Closed
  <2>3. f[x] # InitPid
    BY <2>2, PidsFacts DEF TInv
  <2> QED BY <2>2, <2>3 DEF FamilyOf
<1>2. ASSUME NEW z \in Pids, NEW x \in v[z] PROVE r[z] <= r[x]
  <2>1. PICK T : T = v[z]
    OBVIOUS
  <2>2. T \in SUBSET Pids /\ T # {}
    BY <1>0, <1>2, <2>1
  <2>3. PICK m \in T : \A k \in T : r[m] <= r[k]
    BY <1>0, <2>2, EarliestOf
  <2>4. m = z
    <3> SUFFICES ASSUME m # z PROVE FALSE
      OBVIOUS
    <3>1. f[m] \in T /\ f[m] \in Pids /\ m \in Pids /\ r[f[m]] < r[m]
      BY <1>1, <2>1, <2>3
    <3>2. r[m] <= r[f[m]] /\ r[m] \in Nat /\ r[f[m]] \in Nat
      BY <1>0, <2>3, <3>1
    <3> QED BY <3>1, <3>2
  <2> QED BY <1>2, <2>1, <2>3, <2>4
<1>3. ASSUME NEW a \in S, NEW b \in S, a # b, a \in v[b] PROVE FALSE
  <2> DEFINE T == {z \in S : \E x \in S : x # z /\ z \in v[x]}
  <2>1. T \in SUBSET Pids /\ T # {}
    BY <1>3
  <2>2. PICK m \in T : \A k \in T : r[m] <= r[k]
    <3> HIDE DEF T
    <3> QED BY <1>0, <2>1, EarliestOf
  <2>3. PICK x \in S : x # m /\ m \in v[x]
    BY <2>2
  <2>4. m \in S /\ m \in Pids /\ x \in Pids
    BY <2>2
  <2>5. f[m] \in v[x] /\ f[m] \in Pids /\ r[f[m]] < r[m] /\ r[x] <= r[f[m]]
    BY <1>1, <1>2, <2>3, <2>4
  <2>6. r[m] \in Nat /\ r[x] \in Nat /\ r[f[m]] \in Nat
    BY <1>0, <2>4, <2>5
  <2>7. m # q
    <3>1. r[q] <= r[x] /\ r[q] \in Nat
      BY <1>0, RootFirst DEF UpTo
    <3> QED BY <2>5, <2>6, <3>1
  <2>8. f[m] \in S /\ m \notin v[f[m]]
    BY <2>4, <2>7 DEF UpTo
  <2>9. f[m] \in T
    BY <2>3, <2>5, <2>8
  <2> QED BY <2>2, <2>5, <2>6, <2>9
<1>4. ASSUME NEW a \in S, NEW b \in S, a # b, v[a] \intersect v[b] # {} PROVE FALSE
  <2>1. PICK T : T = v[a] \intersect v[b]
    OBVIOUS
  <2>2. a \in Pids /\ b \in Pids /\ T \in SUBSET Pids /\ T # {}
    BY <1>0, <1>4, <2>1
  <2>3. PICK m \in T : \A k \in T : r[m] <= r[k]
    BY <1>0, <2>2, EarliestOf
  <2>4. m \in v[a] /\ m \in v[b]
    BY <2>1
  <2>5. m # a /\ m # b
    BY <1>3, <1>4, <2>4
  <2>6. f[m] \in v[a] /\ f[m] \in v[b] /\ f[m] \in Pids /\ m \in Pids /\ r[f[m]] < r[m]
    BY <1>1, <2>2, <2>4, <2>5
  <2>7. r[m] <= r[f[m]] /\ r[m] \in Nat /\ r[f[m]] \in Nat
    BY <1>0, <2>1, <2>3, <2>6
  <2> QED BY <2>6, <2>7
<1> QED BY <1>4

(* The times the scan has of each process it recorded.                     *)
OwnTimes == [q \in Recorded |-> Own(q)]
OwnTotal(S) == SumFunctionOnSet(OwnTimes, S)

LEMMA OwnTotals ==
  ASSUME TInv, NEW S \in SUBSET Recorded
  PROVE  /\ IsFiniteSet(S) /\ SumSteps(OwnTimes, S) /\ OwnTotal(S) \in Nat
         /\ \A x \in S : OwnTimes[x] = Own(x) /\ OwnTimes[x] \in Nat
<1>1. IsFiniteSet(S)
  BY TreeFacts, FS_Subset
<1>2. \A x \in S : OwnTimes[x] = Own(x) /\ OwnTimes[x] \in Nat
  BY TreeFacts DEF OwnTimes
<1>3. SumSteps(OwnTimes, S)
  BY <1>1, <1>2, SumStep
<1> QED BY <1>1, <1>2, <1>3 DEF SumSteps, OwnTotal

(* When every child has been looked for.                                   *)
AllLooked(f, v) ==
  \A p \in Pids : \A i \in Children(p) : f[child[p][i]] = p /\ child[p][i] \notin v[p]

(* What the walk finds n levels down is a part of the tree, each process   *)
(* with its own times once.                                                *)
Counted(f, v, q, found) ==
  /\ found.apps \in SUBSET Recorded
  /\ UpTo(f, v, q, found.apps)
  /\ found.time = OwnTotal(found.apps)

LEMMA CountedNext ==
  ASSUME TInv, NEW f, NEW r, FamilyOf(f, r), NEW v, AllLooked(f, v), NEW readings,
         NEW w \in [0 .. MaxPid -> [Recorded -> Found]], w = Walking(w, readings),
         NEW n \in 0 .. MaxPid,
         n > 0 => \A q \in Recorded : Counted(f, v, q, w[n - 1][q]),
         NEW q \in Recorded
  PROVE  Counted(f, v, q, w[n][q])
<1>01. q \in Pids
  BY DEF Recorded
<1>02. \A a, b \in Pids, S, R \in SUBSET Pids :
         f[a] = q /\ UpTo(f, v, a, S) =>
           q \notin S /\ (a # b /\ f[b] = q /\ UpTo(f, v, b, R) => S \intersect R = {})
  BY <1>01, PartsApart
<1>1. PICK D, t, g : Level(w, n, q, D, t, g, readings)
  BY WalkLevel
<1>2. /\ D = {j \in Children(q) : n > 0}
      /\ t \in [D -> Nat] /\ \A i \in D : t[i] = w[n - 1][child[q][i]].time
      /\ w[n][q].time = Own(q) + SumFunctionOnSet(t, D)
      /\ w[n][q].apps = {q} \union UNION {w[n - 1][child[q][i]].apps : i \in D}
  BY <1>1 DEF Level
<1>3. /\ q \in Pids /\ q \in 0 .. MaxPid /\ Recorded \subseteq Pids
      /\ IsFiniteSet(D) /\ Own(q) \in Nat
  <2>1. IsFiniteSet(Children(q)) /\ D \subseteq Children(q)
    BY <1>2, TreeFacts
  <2> QED BY <2>1, TreeFacts, PidsFacts, FS_Subset DEF TInv
<1>4. ASSUME NEW i \in D
      PROVE  /\ child[q][i] \in Recorded /\ child[q][i] \in Pids
             /\ f[child[q][i]] = q /\ child[q][i] \notin v[q]
             /\ Counted(f, v, child[q][i], w[n - 1][child[q][i]])
             /\ i \in Children(q)
  <2>1. i \in Children(q) /\ n > 0
    BY <1>2
  <2>2. child[q][i] \in Recorded
    BY <2>1, TreeFacts
  <2> QED BY <1>3, <2>1, <2>2 DEF AllLooked
<1>5. PICK P : P = [i \in D |-> w[n - 1][child[q][i]].apps]
  OBVIOUS
<1>6. ASSUME NEW i \in D
      PROVE  /\ P[i] \in SUBSET Recorded /\ P[i] \in SUBSET Pids
             /\ UpTo(f, v, child[q][i], P[i]) /\ t[i] = OwnTotal(P[i])
  <2>1. P[i] = w[n - 1][child[q][i]].apps
    BY <1>5
  <2> QED BY <1>2, <1>3, <1>4, <2>1 DEF Counted
<1>7. PICK U : U = UNION {P[i] : i \in D}
  OBVIOUS
<1>8. w[n][q].apps = {q} \union U /\ U \in SUBSET Recorded
  <2>1. U = UNION {w[n - 1][child[q][i]].apps : i \in D}
    BY <1>5, <1>7
  <2>2. w[n][q].apps = {q} \union UNION {w[n - 1][child[q][i]].apps : i \in D}
    BY <1>2
  <2>3. w[n][q].apps = {q} \union U
    BY <2>1, <2>2, Zenon
  <2>4. \A i \in D : P[i] \in SUBSET Recorded
    BY <1>6
  <2>5. U \in SUBSET Recorded
    BY <1>7, <2>4
  <2> QED BY <2>3, <2>5
<1>9. \A i, j \in D : i # j => P[i] \intersect P[j] = {}
  <2> SUFFICES ASSUME NEW i \in D, NEW j \in D, i # j PROVE P[i] \intersect P[j] = {}
    OBVIOUS
  <2>1. PICK a, b : a = child[q][i] /\ b = child[q][j]
    OBVIOUS
  <2>2. a # b
    BY <1>3, <1>4, <2>1 DEF TInv, ChildInv
  <2>3. PICK A, B : A = P[i] /\ B = P[j]
    OBVIOUS
  <2>4. /\ q \in Pids /\ A \in SUBSET Pids /\ B \in SUBSET Pids
        /\ a \in Pids /\ f[a] = q /\ UpTo(f, v, a, A)
        /\ b \in Pids /\ f[b] = q /\ UpTo(f, v, b, B)
    <3>1. /\ P[i] \in SUBSET Pids /\ child[q][i] \in Pids /\ f[child[q][i]] = q
          /\ UpTo(f, v, child[q][i], P[i])
      BY <1>4, <1>6
    <3>2. /\ P[j] \in SUBSET Pids /\ child[q][j] \in Pids /\ f[child[q][j]] = q
          /\ UpTo(f, v, child[q][j], P[j])
      BY <1>4, <1>6
    <3>3. /\ A \in SUBSET Pids /\ a \in Pids /\ f[a] = q /\ UpTo(f, v, a, A)
      BY <2>1, <2>3, <3>1, Zenon
    <3>4. /\ B \in SUBSET Pids /\ b \in Pids /\ f[b] = q /\ UpTo(f, v, b, B)
      BY <2>1, <2>3, <3>2, Zenon
    <3> QED BY <1>3, <3>3, <3>4
  <2>5. A \intersect B = {}
    BY <1>02, <2>2, <2>4
  <2> QED BY <2>3, <2>5
<1>10. q \notin U
  <2> SUFFICES ASSUME NEW i \in D PROVE q \notin P[i]
    BY <1>7
  <2>1. PICK a : a = child[q][i]
    OBVIOUS
  <2>2. PICK A : A = P[i]
    OBVIOUS
  <2>3. q \in Pids /\ A \in SUBSET Pids /\ a \in Pids /\ f[a] = q /\ UpTo(f, v, a, A)
    BY <1>3, <1>4, <1>6, <2>1, <2>2
  <2>4. q \notin A
    BY <1>02, <2>3
  <2> QED BY <2>2, <2>4
<1>11. UpTo(f, v, q, {q} \union U)
  <2> SUFFICES ASSUME NEW z \in U PROVE f[z] \in {q} \union U /\ z \notin v[f[z]]
    BY DEF UpTo
  <2>1. PICK i \in D : z \in P[i]
    BY <1>7
  <2>2. z = child[q][i] \/ (f[z] \in P[i] /\ z \notin v[f[z]])
    BY <1>6, <2>1 DEF UpTo
  <2> QED BY <1>4, <1>7, <2>1, <2>2
<1>12. PICK o : o = OwnTimes
  OBVIOUS
<1>13. SumFunctionOnSet(o, U) = SumFunctionOnSet(t, D)
  <2>1. IsFiniteSet(U) /\ \A x \in U : o[x] \in Nat
    BY <1>8, <1>12, OwnTotals
  <2>2. P \in [D -> SUBSET U]
    BY <1>5, <1>7
  <2>3. PICK sums : sums = [i \in D |-> SumFunctionOnSet(o, P[i])]
    OBVIOUS
  <2>4. SumFunctionOnSet(o, UNION {P[i] : i \in D}) = SumFunctionOnSet(sums, D)
    BY <1>3, <1>9, <2>1, <2>2, <2>3, SumCover
  <2>5. \A i \in D : t[i] \in Nat /\ t[i] = sums[i]
    BY <1>2, <1>6, <1>12, <2>3 DEF OwnTotal
  <2>6. SumFunctionOnSet(t, D) = SumFunctionOnSet(sums, D)
    BY <1>3, <2>5, SumSame
  <2> QED BY <1>7, <2>4, <2>6
<1>14. w[n][q].time = OwnTotal({q} \union U)
  <2>1. PICK S : S = {q} \union U
    OBVIOUS
  <2>2. S \in SUBSET Recorded /\ q \in S /\ S \ {q} = U
    BY <1>8, <1>10, <2>1
  <2>3. SumSteps(o, S) /\ o[q] = Own(q)
    BY <1>12, <2>2, OwnTotals
  <2>4. SumFunctionOnSet(o, S) = o[q] + SumFunctionOnSet(o, S \ {q})
    BY <2>2, <2>3 DEF SumSteps
  <2> QED BY <1>2, <1>12, <1>13, <2>1, <2>2, <2>3, <2>4 DEF OwnTotal
<1> QED BY <1>3, <1>8, <1>11, <1>14 DEF Counted

LEMMA CountedAll ==
  ASSUME TInv, NEW f, NEW r, FamilyOf(f, r), NEW v, AllLooked(f, v), NEW readings,
         NEW w \in [0 .. MaxPid -> [Recorded -> Found]], w = Walking(w, readings)
  PROVE  \A n \in 0 .. MaxPid : \A q \in Recorded : Counted(f, v, q, w[n][q])
<1> DEFINE T == {n \in 0 .. MaxPid : \A q \in Recorded : Counted(f, v, q, w[n][q])}
<1>0. MaxPid \in Nat
  BY SettingFacts DEF TInv
<1>1. 0 \in T
  <2>1. 0 \in 0 .. MaxPid /\ ~(0 > 0)
    BY <1>0
  <2> QED BY <2>1, CountedNext
<1>2. ASSUME NEW n \in 1 .. MaxPid, n - 1 \in T PROVE n \in T
  <2>1. n \in 0 .. MaxPid /\ \A q \in Recorded : Counted(f, v, q, w[n - 1][q])
    BY <1>2
  <2> QED BY <2>1, CountedNext
<1> HIDE DEF T
<1>3. 0 .. MaxPid \subseteq T
  BY <1>0, <1>1, <1>2, StepsTo
<1> QED BY <1>3 DEF T

(* A step is given no more than what its processes have spent.             *)
LEMMA StepBounded ==
  ASSUME TInv, Remembered, pc = "readdir", NEW readings, NEW s \in Stepds, s \in Recorded
  PROVE  Walk(s, readings).time <= Total(InStep(s))
<1>1. PICK f, r, h, v : FamilyOf(f, r) /\ SeenBy(f, v) /\ Apart(f, v)
  BY DEF Remembered, History
<1>2. AllLooked(f, v)
  BY <1>1 DEF Apart, Unlooked, AllLooked
<1>3. PICK w \in [0 .. MaxPid -> [Recorded -> Found]] :
        w = Walking(w, readings) /\ \A p : Walk(p, readings) = w[MaxPid][p]
  BY WalkParts
<1>4. MaxPid \in 0 .. MaxPid
  BY SettingFacts DEF TInv
<1>5. PICK S : S = Walk(s, readings).apps
  OBVIOUS
<1>6. /\ S \in SUBSET Recorded /\ S \in SUBSET Pids
      /\ UpTo(f, v, s, S) /\ Walk(s, readings).time = OwnTotal(S)
  <2>1. Counted(f, v, s, w[MaxPid][s])
    BY <1>1, <1>2, <1>3, <1>4, CountedAll
  <2> QED BY <1>3, <1>5, <2>1, TreeFacts DEF Counted
<1>7. v \in [Pids -> SUBSET Pids] /\ IsFiniteSet(S) /\ IsFiniteSet(Pids)
  BY <1>1, <1>6, OwnTotals, PidsFacts DEF SeenBy, TInv
<1>8. PICK o, u : o = OwnTimes /\ u = Utime
  OBVIOUS
<1>9. PICK P : P = [z \in S |-> v[z]]
  OBVIOUS
<1>90. PICK sums : sums = [z \in S |-> SumFunctionOnSet(u, P[z])]
  OBVIOUS
<1>10. \A x \in Pids : u[x] \in Nat
  BY <1>8, TotalFacts
<1>11. SumFunctionOnSet(o, S) <= SumFunctionOnSet(sums, S)
  <2>1. ASSUME NEW z \in S PROVE o[z] \in Nat /\ sums[z] \in Nat /\ o[z] <= sums[z]
    <3>1. o[z] \in Nat /\ o[z] = Own(z)
      BY <1>6, <1>8, OwnTotals
    <3>2. sums[z] = Total(v[z]) /\ v[z] \in SUBSET Pids /\ z \in Recorded
      BY <1>6, <1>7, <1>8, <1>9, <1>90 DEF Total
    <3>3. Total(v[z]) \in Nat
      BY <3>2, TotalFacts
    <3>4. Own(z) <= Total(v[z])
      BY <1>1, <3>2 DEF SeenBy
    <3> QED BY <3>1, <3>2, <3>3, <3>4
  <2> QED BY <1>7, <2>1, SumMono
<1>12. SumFunctionOnSet(u, UNION {P[z] : z \in S}) = SumFunctionOnSet(sums, S)
  <2>1. P \in [S -> SUBSET Pids]
    BY <1>6, <1>7, <1>9
  <2>2. \A a, b \in S : a # b => P[a] \intersect P[b] = {}
    BY <1>1, <1>6, <1>9, SeenApart
  <2> QED BY <1>7, <1>90, <1>10, <2>1, <2>2, SumCover
<1>13. PICK R, I : R = UNION {P[z] : z \in S} /\ I = InStep(s)
  OBVIOUS
<1>14. R \in SUBSET I /\ I \in SUBSET Pids /\ IsFiniteSet(I)
  <2>1. proc[s].step = s
    <3>1. Born(s) /\ s \in Pids
      BY SettingFacts DEF TInv, TodoInv
    <3> QED BY <1>1, <3>1 DEF FamilyOf
  <2>2. ASSUME NEW z \in S, NEW x \in v[z] PROVE x \in I
    <3>1. proc[z].step = proc[s].step
      BY <1>1, <1>6, RootFirst
    <3>2. Closed(f, z, v[z]) /\ x \in Pids
      BY <1>1, <1>6, <1>7 DEF SeenBy
    <3>3. proc[x].step = proc[z].step
      BY <3>2 DEF Closed
    <3> QED BY <1>13, <2>1, <3>1, <3>2, <3>3 DEF InStep
  <2>3. I \in SUBSET Pids
    BY <1>13 DEF InStep
  <2> QED BY <1>7, <1>9, <1>13, <2>2, <2>3, FS_Subset
<1>15. SumFunctionOnSet(u, R) <= SumFunctionOnSet(u, I)
  BY <1>10, <1>14, SumSubset
<1>16. /\ SumFunctionOnSet(o, S) \in Nat /\ SumFunctionOnSet(sums, S) \in Nat
       /\ SumFunctionOnSet(u, I) \in Nat
  <2>1. SumFunctionOnSet(o, S) \in Nat
    BY <1>6, <1>8, OwnTotals DEF OwnTotal
  <2>2. SumFunctionOnSet(u, I) \in Nat /\ SumFunctionOnSet(u, R) \in Nat
    <3>1. R \in SUBSET Pids
      BY <1>14
    <3> QED BY <1>8, <1>14, <3>1, TotalFacts DEF Total
  <2> QED BY <1>12, <1>13, <2>1, <2>2
<1> QED BY <1>6, <1>8, <1>11, <1>12, <1>13, <1>15, <1>16 DEF OwnTotal, Total

LEMMA StepGrows ==
  ASSUME TInv, TInv', KernelMoves, Remembered, NEW s \in Stepds
  PROVE  /\ Total(InStep(s)) \in Nat /\ Total(InStep(s))' \in Nat
         /\ Total(InStep(s)) <= Total(InStep(s))'
<1>1. PICK I, J : I = InStep(s) /\ J = InStep(s)'
  OBVIOUS
<1>2. I \in SUBSET Pids /\ J \in SUBSET Pids /\ IsFiniteSet(J)
  <2>1. I \in SUBSET Pids /\ J \in SUBSET Pids
    BY <1>1 DEF InStep
  <2> QED BY <2>1, TotalFacts
<1>3. I \in SUBSET J
  <2> SUFFICES ASSUME NEW p \in I PROVE p \in J
    OBVIOUS
  <2>1. p \in Pids /\ proc[p].step = s /\ s # None
    BY <1>1, SettingFacts DEF InStep, TInv
  <2>2. Born(p)
    BY <2>1 DEF Remembered, History, FamilyOf
  <2>3. proc'[p].step = s
    BY <2>1, <2>2 DEF KernelMoves
  <2> QED BY <1>1, <2>1, <2>3 DEF InStep
<1>4. PICK w : w = Utime'
  OBVIOUS
<1>5. \A p \in Pids : w[p] \in Nat
  BY <1>4 DEF TInv, TypeOK, Processes, Utime
<1>6. SumFunctionOnSet(w, I) <= SumFunctionOnSet(w, J)
  BY <1>2, <1>3, <1>5, SumSubset
<1>7. Total(I) <= SumFunctionOnSet(w, I) /\ Total(I) \in Nat
  <2>1. Total(I) <= Total(I)'
    BY <1>2, TotalGrows DEF KernelMoves
  <2>2. Total(I)' = SumFunctionOnSet(w, I)
    BY <1>4 DEF Total
  <2> QED BY <1>2, <2>1, <2>2, TotalFacts
<1>8. SumFunctionOnSet(w, I) \in Nat /\ SumFunctionOnSet(w, J) \in Nat
  BY <1>2, <1>3, <1>5, SumStep, FS_Subset DEF SumSteps
<1>9. Total(InStep(s)) = Total(I) /\ Total(InStep(s))' = SumFunctionOnSet(w, J)
  BY <1>1, <1>4 DEF Total
<1> QED BY <1>6, <1>7, <1>8, <1>9

(* Spelled with the sum the proofs use.                                    *)
Bounded == \A i \in DOMAIN stats : stats[i].time <= Total(InStep(stats[i].pid))

LEMMA BoundedStep ==
  ASSUME ScrapeInv, ScrapeInv', Remembered, Bounded, [Next]_vars
  PROVE  Bounded'
<1>0. TInv /\ TInv' /\ stats \in Seq(Entries) /\ Len(stats) \in Nat /\ DOMAIN stats = 1 .. Len(stats)
  BY LenProperties DEF ScrapeInv, StagedInv
<1>1. ASSUME NEW i \in DOMAIN stats
      PROVE  /\ stats[i].pid \in Stepds /\ stats[i].time \in Nat
             /\ stats[i].time <= Total(InStep(stats[i].pid))
  <2>1. stats[i] \in Entries
    <3>1. PICK A : A = Entries
      OBVIOUS
    <3>2. stats[i] \in A
      BY <1>0, <3>1, ElementOfSeq
    <3> QED BY <3>1, <3>2
  <2> QED BY <2>1 DEF Entries, Bounded
<1>2. CASE KernelNext
  <2>1. KernelMoves /\ Kernel
    BY <1>0, <1>2, KernelStep
  <2>2. stats' = stats
    BY <2>1 DEF Kernel, staged
  <2>3. ASSUME NEW i \in DOMAIN stats PROVE stats[i].time <= Total(InStep(stats[i].pid))'
    <3>1. PICK s, t : s = stats[i].pid /\ t = stats[i].time
      OBVIOUS
    <3>2. s \in Stepds /\ t \in Nat /\ t <= Total(InStep(s))
      BY <1>1, <3>1
    <3>3. /\ Total(InStep(s)) \in Nat /\ Total(InStep(s))' \in Nat
          /\ Total(InStep(s)) <= Total(InStep(s))'
      BY <1>0, <2>1, <3>2, StepGrows
    <3>4. t <= Total(InStep(s))'
      BY <3>2, <3>3
    <3> QED BY <2>2, <3>1, <3>4
  <2> QED BY <2>2, <2>3 DEF Bounded
<1>3. CASE EndRound
  <2>1. PICK m \in Measured : stats' = stats \o NewEntries(m[1], m[2])
    BY <1>3 DEF EndRound, NewEntries
  <2>2. pc = "readdir" /\ proc' = proc
    BY <1>3 DEF EndRound, kernel
  <2>3. \A s : Total(InStep(s))' = Total(InStep(s))
    <3>1. Utime' = Utime /\ \A s : InStep(s)' = InStep(s)
      BY <2>2 DEF Utime, InStep
    <3> QED BY <3>1 DEF Total
  <2>4. PICK new : new = NewEntries(m[1], m[2])
    OBVIOUS
  <2>5. /\ new \in Seq(Entries) /\ Len(new) = Len(Steps)
        /\ \A i \in 1 .. Len(Steps) :
             new[i].pid = Steps[i] /\ new[i].time = Walk(Steps[i], m[1]).time
    <3>1. /\ NewEntries(m[1], m[2]) \in Seq(Entries)
          /\ Len(NewEntries(m[1], m[2])) = Len(Steps)
          /\ \A i \in 1 .. Len(Steps) :
               /\ NewEntries(m[1], m[2])[i] = Entry(i, m[1], m[2])
               /\ Entry(i, m[1], m[2]).time = Walk(Steps[i], m[1]).time
               /\ Entry(i, m[1], m[2]).pid = Steps[i]
      BY <1>0, EntriesTyped
    <3> QED BY <2>4, <3>1
  <2>6. /\ DOMAIN Steps = 1 .. Len(Steps) /\ Len(Steps) \in Nat
        /\ \A i \in DOMAIN Steps : Steps[i] \in Recorded /\ Steps[i] \in Stepds
    BY <1>0, StepsTyped
  <2>7. /\ Len(stats') = Len(stats) + Len(new) /\ DOMAIN stats' = 1 .. Len(stats) + Len(new)
        /\ \A i \in 1 .. Len(stats) + Len(new) :
             stats'[i] = IF i <= Len(stats) THEN stats[i] ELSE new[i - Len(stats)]
    <3>1. PICK A : A = Entries
      OBVIOUS
    <3>2. stats \in Seq(A) /\ new \in Seq(A) /\ stats' = stats \o new
      BY <1>0, <2>1, <2>4, <2>5, <3>1
    <3> QED BY <3>2, ConcatProperties, LenProperties
  <2>8. ASSUME NEW i \in DOMAIN stats' PROVE stats'[i].time <= Total(InStep(stats'[i].pid))
    <3>1. CASE i <= Len(stats)
      <4>1. i \in DOMAIN stats /\ stats'[i] = stats[i]
        BY <1>0, <2>5, <2>6, <2>7, <3>1
      <4> QED BY <1>1, <4>1
    <3>2. CASE ~(i <= Len(stats))
      <4>1. PICK j : j = i - Len(stats)
        OBVIOUS
      <4>2. j \in 1 .. Len(Steps) /\ stats'[i] = new[j]
        BY <1>0, <2>5, <2>6, <2>7, <3>2, <4>1
      <4>3. PICK s : s = Steps[j]
        OBVIOUS
      <4>4. s \in Recorded /\ s \in Stepds
        BY <2>6, <4>2, <4>3
      <4>5. PICK readings : readings = m[1]
        OBVIOUS
      <4>6. Walk(s, readings).time <= Total(InStep(s))
        BY <1>0, <2>2, <4>4, StepBounded
      <4>7. new[j].pid = s /\ new[j].time = Walk(s, readings).time
        BY <2>5, <4>2, <4>3, <4>5
      <4> QED BY <4>2, <4>6, <4>7
    <3> QED BY <3>1, <3>2
  <2> QED BY <2>3, <2>8 DEF Bounded
<1>4. CASE UNCHANGED <<proc, stats>>
  <2>1. \A s : Total(InStep(s))' = Total(InStep(s))
    <3>1. Utime' = Utime /\ \A s : InStep(s)' = InStep(s)
      BY <1>4 DEF Utime, InStep
    <3> QED BY <3>1 DEF Total
  <2> QED BY <1>1, <1>4, <2>1 DEF Bounded
<1>5. StartRound \/ ReadStat \/ ReadCmdline \/ CheckChild \/ Stage \/ UNCHANGED vars
        => UNCHANGED <<proc, stats>>
  BY DEF StartRound, ReadStat, ReadCmdline, CheckChild, Stage, vars, kernel, staged
<1> QED BY <1>2, <1>3, <1>4, <1>5 DEF Next, ScraperNext

LEMMA Remembering == Spec => [](Remembered /\ Bounded)
<1>1. Init => Remembered /\ Bounded
  <2> SUFFICES ASSUME Init PROVE Remembered /\ Bounded
    OBVIOUS
  <2>1. TInv
    BY ScrapeInit DEF ScrapeInv
  <2>2. DOMAIN stats = {}
    BY DEF Init
  <2> QED BY <2>1, <2>2, HistoryInit DEF Bounded
<1>2. /\ ScrapeInv /\ ScrapeInv' /\ Remembered /\ Bounded /\ [Next]_vars
      => Remembered' /\ Bounded'
  BY HistoryStep, BoundedStep DEF ScrapeInv
<1> QED BY <1>1, <1>2, Scraping, PTL DEF Spec

(* No result claims more CPU time than the processes of its step have      *)
(* used, whatever ends, is reaped or forked between the reading of two     *)
(* files: a child that was waited for after its own record was read is     *)
(* found missing when its parent is read (worker.cpp:763-776).             *)
THEOREM NothingTwice == Spec => []NeverOvercounts
<1>1. Bounded => NeverOvercounts
  BY DEF Bounded, NeverOvercounts, Total, Utime
<1> QED BY <1>1, Remembering, PTL

-----------------------------------------------------------------------------
(* A round in which nothing happened.  What the scan has then is what the  *)
(* kernel has.                                                             *)

Scanning == pc \in {"readdir", "cmdline", "check"}
Hearing == IF pc = "cmdline" THEN {cur_result.pid} ELSE {}

Spent(p) == proc[p].utime + proc[p].cutime

(* Each record is in the list of its parent.                               *)
Faithful ==
  /\ todo \union Hearing \union Recorded = Listed
  /\ \A p \in Recorded : Own(p) = Spent(p)
  /\ pc = "cmdline" => /\ cur_result.ppid = proc[cur_result.pid].ppid
                       /\ cur_result.utime + cur_result.cutime = Spent(cur_result.pid)
  /\ \A p \in 0 .. MaxPid : \A i \in Children(p) : proc[child[p][i]].ppid = p
  /\ \A p \in Recorded : \E i \in Children(proc[p].ppid) : child[proc[p].ppid][i] = p

Generation(g, s) ==
  [n \in 0 .. MaxPid |->
     IF n = 0 THEN {s} ELSE {p \in Pids : Alive(p) /\ proc[p].ppid \in g[n - 1]}]

LEMMA GenerationParts ==
  ASSUME MaxPid \in Nat, NEW s
  PROVE  \E g : /\ g = Generation(g, s) /\ Descendants(s) = UNION {g[n] : n \in 0 .. MaxPid}
<1> DEFINE At(g, n) == IF n = 0 THEN {s} ELSE {p \in Pids : Alive(p) /\ proc[p].ppid \in g[n - 1]}
           T == {k \in 0 .. MaxPid :
                   \E g : g = [n \in 0 .. MaxPid |-> g[n]] /\ \A n \in 0 .. k : g[n] = At(g, n)}
<1>1. ASSUME NEW g, NEW h, NEW n \in 0 .. MaxPid, n > 0 => g[n - 1] = h[n - 1]
      PROVE  At(g, n) = At(h, n)
  <2>1. CASE n = 0
    BY <2>1
  <2>2. CASE n # 0
    BY <1>1, <2>2
  <2> QED BY <2>1, <2>2
<1>2. 0 \in T
  <2> DEFINE g == [n \in 0 .. MaxPid |-> {s}]
  <2>1. g = [n \in 0 .. MaxPid |-> g[n]] /\ g[0] = At(g, 0) /\ 0 \in 0 .. MaxPid
    OBVIOUS
  <2>2. \A n \in 0 .. 0 : n = 0
    OBVIOUS
  <2> HIDE DEF g, At
  <2>3. \A n \in 0 .. 0 : g[n] = At(g, n)
    BY <2>1, <2>2
  <2> QED BY <2>1, <2>3
<1> HIDE DEF At
<1>3. ASSUME NEW k \in 1 .. MaxPid, k - 1 \in T PROVE k \in T
  <2>1. PICK g : g = [n \in 0 .. MaxPid |-> g[n]] /\ \A n \in 0 .. k - 1 : g[n] = At(g, n)
    BY <1>3
  <2>2. PICK next : next = At(g, k)
    OBVIOUS
  <2>3. PICK h : h = [n \in 0 .. MaxPid |-> IF n = k THEN next ELSE g[n]]
    OBVIOUS
  <2>4. \A n \in 0 .. MaxPid : h[n] = IF n = k THEN next ELSE g[n]
    BY <2>3
  <2>5. h = [n \in 0 .. MaxPid |-> h[n]]
    BY <2>3
  <2>6. ASSUME NEW n \in 0 .. k PROVE h[n] = At(h, n)
    <3>1. n \in 0 .. MaxPid /\ (n > 0 => g[n - 1] = h[n - 1])
      BY <2>4
    <3>2. At(g, n) = At(h, n)
      BY <1>1, <3>1
    <3>3. CASE n = k
      BY <2>2, <2>4, <3>1, <3>2, <3>3
    <3>4. CASE n # k
      <4>1. n \in 0 .. k - 1
        BY <3>4
      <4> QED BY <2>1, <2>4, <3>1, <3>2, <3>4, <4>1
    <3> QED BY <3>3, <3>4
  <2>7. k \in 0 .. MaxPid
    OBVIOUS
  <2> QED BY <2>5, <2>6, <2>7
<1> HIDE DEF T
<1>4. MaxPid \in T
  BY <1>2, <1>3, StepsTo
<1>5. PICK g : g = [n \in 0 .. MaxPid |-> g[n]] /\ \A n \in 0 .. MaxPid : g[n] = At(g, n)
  BY <1>4 DEF T
<1>6. g = Generation(g, s)
  BY <1>5 DEF Generation, At
<1>7. PICK d : d = (CHOOSE e : e = Generation(e, s))
  OBVIOUS
<1>8. d = Generation(d, s)
  BY <1>6, <1>7
<1>9. Descendants(s) = UNION {d[n] : n \in 0 .. MaxPid}
  BY <1>7 DEF Descendants, Generation
<1> QED BY <1>8, <1>9

(* The walk goes down as far as there are children.                        *)
Reaches(w, n) ==
  \A q \in Recorded : \A x \in w[n - 1][q].apps :
    x \in w[n][q].apps /\ \A i \in Children(x) : child[x][i] \in w[n][q].apps

Spreads(w) ==
  /\ \A n \in 1 .. MaxPid : Reaches(w, n)
  /\ \A n \in 0 .. MaxPid : \A q \in Recorded :
       w[n][q].apps = {q} \union UNION {w[n - 1][child[q][i]].apps : i \in {j \in Children(q) : n > 0}}

LEMMA WalkReaches ==
  ASSUME TInv, NEW readings, NEW w \in [0 .. MaxPid -> [Recorded -> Found]],
         w = Walking(w, readings)
  PROVE  Spreads(w)
<1> DEFINE A(n, q) == w[n][q].apps
           T == {n \in 0 .. MaxPid : n > 0 => Reaches(w, n)}
<1>0. MaxPid \in Nat /\ \A q \in Recorded : \A i \in Children(q) : child[q][i] \in Recorded
  BY SettingFacts, TreeFacts DEF TInv
<1>1. ASSUME NEW n \in 0 .. MaxPid, NEW q \in Recorded
      PROVE  A(n, q) = {q} \union UNION {A(n - 1, child[q][i]) : i \in {j \in Children(q) : n > 0}}
  <2>1. PICK D, f, g : Level(w, n, q, D, f, g, readings)
    BY WalkLevel
  <2> QED BY <2>1 DEF Level
<1>2. ASSUME NEW n \in 0 .. MaxPid, NEW q \in Recorded PROVE q \in A(n, q)
  BY <1>1
<1>3. ASSUME NEW n \in 0 .. MaxPid, n > 0, NEW q \in Recorded, NEW i \in Children(q)
      PROVE  A(n - 1, child[q][i]) \subseteq A(n, q)
  BY <1>1, <1>3
<1>4. ASSUME NEW n \in 0 .. MaxPid, NEW q \in Recorded, NEW x \in A(n, q), x # q
      PROVE  n > 0 /\ \E i \in Children(q) : x \in A(n - 1, child[q][i])
  BY <1>1, <1>4
<1> HIDE DEF A
<1>5. 0 \in T
  BY <1>0
<1>6. ASSUME NEW n \in 1 .. MaxPid, n - 1 \in T PROVE n \in T
  <2>0. n \in 0 .. MaxPid /\ n > 0 /\ n - 1 \in 0 .. MaxPid
    BY <1>0
  <2>1. ASSUME NEW q \in Recorded, NEW x \in A(n - 1, q)
        PROVE  x \in A(n, q) /\ \A i \in Children(x) : child[x][i] \in A(n, q)
    <3>1. CASE x = q
      <4>1. \A i \in Children(q) : child[q][i] \in A(n - 1, child[q][i])
        BY <1>0, <1>2, <2>0
      <4> QED BY <1>2, <1>3, <2>0, <3>1, <4>1
    <3>2. CASE x # q
      <4>1. n - 1 > 0 /\ \E i \in Children(q) : x \in A((n - 1) - 1, child[q][i])
        BY <1>4, <2>0, <3>2
      <4>2. PICK i \in Children(q) : x \in A((n - 1) - 1, child[q][i])
        BY <4>1
      <4>3. Reaches(w, n - 1) /\ child[q][i] \in Recorded
        BY <1>0, <1>6, <4>1
      <4>4. x \in A(n - 1, child[q][i]) /\ \A j \in Children(x) : child[x][j] \in A(n - 1, child[q][i])
        BY <4>2, <4>3 DEF Reaches, A
      <4>5. A(n - 1, child[q][i]) \subseteq A(n, q)
        BY <1>3, <2>0
      <4> QED BY <4>4, <4>5
    <3> QED BY <3>1, <3>2
  <2>2. Reaches(w, n)
    BY <2>1 DEF Reaches, A
  <2> QED BY <2>0, <2>2
<1> HIDE DEF T
<1>7. 0 .. MaxPid \subseteq T
  BY <1>0, <1>5, <1>6, StepsTo
<1>8. \A n \in 1 .. MaxPid : n \in 0 .. MaxPid /\ n > 0
  BY <1>0
<1> QED BY <1>1, <1>7, <1>8 DEF T, A, Spreads

(* It then finds the descendants of a step.                                *)
LEMMA WalkExact ==
  ASSUME TInv, pc = "readdir", todo = {}, Faithful, NEW s \in Recorded, NEW readings,
         NEW w \in [0 .. MaxPid -> [Recorded -> Found]], w = Walking(w, readings)
  PROVE  w[MaxPid][s].apps = Descendants(s)
<1> DEFINE A(n, q) == w[n][q].apps
<1>0. /\ MaxPid \in Nat /\ Recorded \subseteq Pids
      /\ \A p \in Pids : Alive(p) <=> p \in Recorded
      /\ \A p \in 0 .. MaxPid : \A i \in Children(p) : proc[child[p][i]].ppid = p
      /\ \A p \in Recorded : \E i \in Children(proc[p].ppid) : child[proc[p].ppid][i] = p
  <2>1. Recorded = Listed
    BY DEF Faithful, Hearing
  <2> QED BY <2>1, SettingFacts, TreeFacts DEF TInv, Faithful, Listed, Alive
<1>1. PICK g : g = Generation(g, s) /\ Descendants(s) = UNION {g[n] : n \in 0 .. MaxPid}
  BY <1>0, GenerationParts
<1>2. /\ g[0] = {s}
      /\ \A n \in 1 .. MaxPid : g[n] = {p \in Recorded : proc[p].ppid \in g[n - 1]}
  <2>1. \A n \in 0 .. MaxPid :
          g[n] = IF n = 0 THEN {s} ELSE {p \in Pids : Alive(p) /\ proc[p].ppid \in g[n - 1]}
    BY <1>1 DEF Generation
  <2>2. 0 \in 0 .. MaxPid /\ \A n \in 1 .. MaxPid : n \in 0 .. MaxPid /\ n # 0
    BY <1>0
  <2>3. ASSUME NEW n \in 1 .. MaxPid PROVE g[n] = {p \in Recorded : proc[p].ppid \in g[n - 1]}
    <3>1. g[n] = {p \in Pids : Alive(p) /\ proc[p].ppid \in g[n - 1]}
      BY <2>1, <2>2
    <3> QED BY <1>0, <3>1
  <2> QED BY <2>1, <2>2, <2>3
<1>3. \A n \in 0 .. MaxPid : g[n] \subseteq Recorded
  <2> SUFFICES ASSUME NEW n \in 0 .. MaxPid PROVE g[n] \subseteq Recorded
    OBVIOUS
  <2>1. n = 0 \/ n \in 1 .. MaxPid
    BY <1>0
  <2> QED BY <1>2, <2>1
<1>4. /\ \A n \in 1 .. MaxPid : Reaches(w, n)
      /\ \A n \in 0 .. MaxPid : \A q \in Recorded :
           A(n, q) = {q} \union UNION {A(n - 1, child[q][i]) : i \in {j \in Children(q) : n > 0}}
  <2>1. Spreads(w)
    BY WalkReaches
  <2> QED BY <2>1 DEF Spreads
<1> HIDE DEF A
<1>5. A(MaxPid, s) \subseteq Descendants(s)
  <2> DEFINE T == {n \in 0 .. MaxPid : \A m \in 0 .. MaxPid : \A q \in g[m] :
                     m + n <= MaxPid => A(n, q) \subseteq Descendants(s)}
  <2>1. 0 \in T
    <3> SUFFICES ASSUME NEW m \in 0 .. MaxPid, NEW q \in g[m] PROVE A(0, q) \subseteq Descendants(s)
      BY <1>0
    <3>1. q \in Descendants(s)
      BY <1>1
    <3>2. A(0, q) = {q}
      <4>1. q \in Recorded /\ 0 \in 0 .. MaxPid /\ ~(0 > 0)
        BY <1>0, <1>3
      <4> QED BY <1>4, <4>1
    <3> QED BY <3>1, <3>2
  <2>2. ASSUME NEW n \in 1 .. MaxPid, n - 1 \in T PROVE n \in T
    <3> SUFFICES ASSUME NEW m \in 0 .. MaxPid, NEW q \in g[m], m + n <= MaxPid,
                        NEW x \in A(n, q)
                 PROVE  x \in Descendants(s)
      BY <1>0
    <3>1. n \in 0 .. MaxPid /\ q \in Recorded /\ q \in Descendants(s)
      BY <1>0, <1>1, <1>3
    <3>2. CASE x = q
      BY <3>1, <3>2
    <3>3. CASE x # q
      <4>1. PICK i \in Children(q) : x \in A(n - 1, child[q][i])
        BY <1>4, <3>1, <3>3
      <4>2. PICK c, k : c = child[q][i] /\ k = m + 1
        OBVIOUS
      <4>3. k \in 1 .. MaxPid /\ k \in 0 .. MaxPid /\ k - 1 = m /\ k + (n - 1) <= MaxPid
        BY <1>0, <4>2
      <4>4. c \in Recorded /\ proc[c].ppid = q
        BY <1>0, <3>1, <4>2, TreeFacts, PidsFacts DEF TInv
      <4>5. c \in g[k]
        BY <1>2, <4>3, <4>4
      <4>6. A(n - 1, c) \subseteq Descendants(s)
        BY <2>2, <4>3, <4>5
      <4> QED BY <4>1, <4>2, <4>6
    <3> QED BY <3>2, <3>3
  <2> HIDE DEF T
  <2>3. 0 .. MaxPid \subseteq T
    BY <1>0, <2>1, <2>2, StepsTo
  <2>4. MaxPid \in T /\ 0 \in 0 .. MaxPid /\ MaxPid + 0 <= MaxPid /\ s \in g[0]
    BY <1>0, <1>2, <2>3
  <2> QED BY <1>0, <2>4 DEF T
<1>6. ASSUME NEW n \in 0 .. MaxPid PROVE g[n] \subseteq A(n, s)
  <2> DEFINE T == {k \in 0 .. MaxPid : g[k] \subseteq A(k, s)}
  <2>1. 0 \in T
    BY <1>0, <1>2, <1>4
  <2>2. ASSUME NEW k \in 1 .. MaxPid, k - 1 \in T PROVE k \in T
    <3>1. ASSUME NEW p \in g[k] PROVE p \in A(k, s)
      <4>1. p \in Recorded /\ proc[p].ppid \in A(k - 1, s)
        BY <1>2, <2>2, <3>1
      <4>2. PICK i \in Children(proc[p].ppid) : child[proc[p].ppid][i] = p
        BY <1>0, <4>1
      <4> QED BY <1>4, <4>1, <4>2 DEF Reaches, A
    <3> QED BY <1>0, <3>1
  <2> HIDE DEF T
  <2>3. 0 .. MaxPid \subseteq T
    BY <1>0, <2>1, <2>2, StepsTo
  <2> QED BY <2>3 DEF T
<1>7. ASSUME NEW n \in 0 .. MaxPid PROVE A(n, s) \subseteq A(MaxPid, s)
  <2> DEFINE T == {k \in 0 .. MaxPid : n <= k => A(n, s) \subseteq A(k, s)}
  <2>1. 0 \in T
    <3>1. n <= 0 => n = 0
      BY <1>0
    <3> QED BY <1>0, <3>1
  <2>2. ASSUME NEW k \in 1 .. MaxPid, k - 1 \in T PROVE k \in T
    <3>1. n <= k => n = k \/ n <= k - 1
      BY <1>0
    <3>2. A(k - 1, s) \subseteq A(k, s)
      BY <1>4 DEF Reaches, A
    <3> QED BY <1>0, <2>2, <3>1, <3>2
  <2> HIDE DEF T
  <2>3. 0 .. MaxPid \subseteq T
    BY <1>0, <2>1, <2>2, StepsTo
  <2>4. MaxPid \in T /\ n <= MaxPid
    BY <1>0, <2>3
  <2> QED BY <2>4 DEF T
<1> QED BY <1>1, <1>5, <1>6, <1>7 DEF A

(* The steps of a round.                                                   *)
Rounds ==
  \A i \in DOMAIN stats : stats[i].round <= round /\ (Scanning => stats[i].round < round)

LEMMA StartFaithful ==
  ASSUME TInv, StartRound
  PROVE  Faithful'
<1>1. /\ pc = "wait" /\ pc' = "readdir" /\ todo' = Listed
      /\ UNCHANGED <<proc, child, result>>
  BY DEF StartRound
<1>2. Recorded' = {} /\ \A p \in 0 .. MaxPid : Children(p)' = {}
  <2>1. Recorded = {} /\ child = [p \in 0 .. MaxPid |-> <<>>]
    BY <1>1 DEF TInv, IdleInv
  <2>2. \A p \in 0 .. MaxPid : child'[p] = <<>>
    BY <1>1, <2>1
  <2>3. Recorded' = {}
    BY <1>1, <2>1 DEF Recorded
  <2> QED BY <2>2, <2>3 DEF Children
<1>3. Listed' = Listed
  BY <1>1 DEF Listed
<1> QED BY <1>1, <1>2, <1>3 DEF Faithful, Hearing

LEMMA StatFaithful ==
  ASSUME TInv, ReadStat, Faithful
  PROVE  Faithful'
<1>0. PICK p : p = Min(todo)
  OBVIOUS
<1> DEFINE stat == [pid |-> p, ppid |-> proc[p].ppid,
                    utime |-> proc[p].utime, cutime |-> proc[p].cutime]
<1>1. /\ pc = "readdir" /\ todo # {} /\ todo' = todo \ {p}
      /\ p \in Listed => cur_result' = stat /\ pc' = "cmdline"
      /\ UNCHANGED <<proc, child, result>>
  BY <1>0 DEF ReadStat, kernel
<1>2. p \in todo /\ p \in Listed
  BY <1>0, <1>1, FirstTodo DEF Faithful
<1>3. /\ pc' = "cmdline" /\ cur_result'.pid = p /\ cur_result'.ppid = proc[p].ppid
      /\ cur_result'.utime + cur_result'.cutime = Spent(p)
  BY <1>1, <1>2 DEF Spent
<1>4. /\ Recorded' = Recorded /\ Listed' = Listed
      /\ \A q : Own(q)' = Own(q) /\ Children(q)' = Children(q) /\ Spent(q)' = Spent(q)
  BY <1>1 DEF Recorded, Listed, Own, Children, Spent
<1>5. Hearing = {} /\ Hearing' = {p}
  BY <1>1, <1>3 DEF Hearing
<1>6. Spent(cur_result.pid)' = Spent(p)
  BY <1>1, <1>3 DEF Spent
<1> QED BY <1>1, <1>2, <1>3, <1>4, <1>5, <1>6 DEF Faithful

LEMMA CmdlineFaithful ==
  ASSUME TInv, ReadCmdline, Faithful
  PROVE  Faithful'
<1>0. PICK p, y : p = cur_result.pid /\ y = cur_result.ppid
  OBVIOUS
<1> DEFINE n == Len(child[y])
<1>1. /\ p \in Pids /\ y \in 0 .. MaxPid /\ pc = "cmdline"
      /\ result' = [result EXCEPT ![p] = [utime |-> cur_result.utime, cutime |-> cur_result.cutime]]
      /\ \A q \in Pids : q # p => result'[q] = result[q]
      /\ \A z \in 0 .. MaxPid : z # y => child'[z] = child[z] /\ Children(z)' = Children(z)
      /\ Children(y)' = Children(y) \union {n + 1}
      /\ \A i \in Children(y) : child'[y][i] = child[y][i]
      /\ child'[y][n + 1] = p
      /\ Recorded' = Recorded \union {p}
  BY <1>0, PutIntoTree
<1>2. pc' \in {"readdir", "check"} /\ UNCHANGED <<proc, todo>>
  BY DEF ReadCmdline, kernel
<1>3. Listed' = Listed /\ \A q : Spent(q)' = Spent(q)
  BY <1>2 DEF Listed, Spent
<1>4. Hearing = {p} /\ Hearing' = {}
  BY <1>0, <1>1, <1>2 DEF Hearing
<1>5. y = proc[p].ppid /\ cur_result.utime + cur_result.cutime = Spent(p)
  BY <1>0, <1>1 DEF Faithful
<1>6. \A q \in Recorded' : Own(q)' = Spent(q)'
  <2> SUFFICES ASSUME NEW q \in Recorded' PROVE Own(q)' = Spent(q)
    BY <1>3
  <2>1. CASE q = p
    <3>1. result \in [Pids -> Times \union {None}]
      BY DEF TInv, TypeOK
    <3>2. Own(p)' = cur_result.utime + cur_result.cutime
      BY <1>1, <3>1 DEF Own
    <3> QED BY <1>5, <2>1, <3>2
  <2>2. CASE q # p
    <3>1. q \in Recorded /\ q \in Pids
      BY <1>1, <2>2 DEF Recorded
    <3>2. Own(q)' = Own(q)
      BY <1>1, <2>2, <3>1 DEF Own
    <3> QED BY <3>1, <3>2 DEF Faithful
  <2> QED BY <2>1, <2>2
<1>7. ASSUME NEW z \in 0 .. MaxPid, NEW i \in Children(z)' PROVE proc'[child'[z][i]].ppid = z
  <2>1. CASE z = y /\ i = n + 1
    BY <1>1, <1>2, <1>5, <2>1
  <2>2. CASE ~(z = y /\ i = n + 1)
    <3>1. i \in Children(z) /\ child'[z][i] = child[z][i]
      BY <1>1, <2>2
    <3> QED BY <1>2, <3>1 DEF Faithful
  <2> QED BY <2>1, <2>2
<1>8. ASSUME NEW q \in Recorded'
      PROVE  \E i \in Children(proc[q].ppid)' : child'[proc[q].ppid][i] = q
  <2>1. CASE q = p
    <3>1. Children(proc[q].ppid)' = Children(y)'
      BY <1>2, <1>5, <2>1
    <3> QED BY <1>1, <1>5, <2>1, <3>1
  <2>2. CASE q # p
    <3>1. q \in Recorded /\ proc[q].ppid \in 0 .. MaxPid
      BY <1>1, <2>2 DEF TInv, TypeOK, Recorded, Processes
    <3>2. PICK i \in Children(proc[q].ppid) : child[proc[q].ppid][i] = q
      BY <3>1 DEF Faithful
    <3>3. PICK x : x = proc[q].ppid
      OBVIOUS
    <3>4. i \in Children(x)' /\ child'[x][i] = child[x][i]
      BY <1>1, <3>1, <3>2, <3>3
    <3>5. Children(proc[q].ppid)' = Children(x)'
      BY <1>2, <3>3
    <3> QED BY <3>2, <3>3, <3>4, <3>5
  <2> QED BY <2>1, <2>2
<1>9. pc' # "cmdline" /\ todo' \union Hearing' \union Recorded' = Listed'
  BY <1>1, <1>2, <1>3, <1>4 DEF Faithful
<1> QED BY <1>2, <1>6, <1>7, <1>8, <1>9 DEF Faithful

(* Each child is there.                                                    *)
LEMMA CheckFaithful ==
  ASSUME TInv, CheckChild, Faithful
  PROVE  Faithful'
<1>0. PICK p, i : p = cur_result.pid /\ i = Head(unchecked)
  OBVIOUS
<1>00. PICK c : c = child[p][i]
  OBVIOUS
<1>1. /\ pc = "check" /\ p \in Pids
      /\ pc' = IF unchecked' = <<>> THEN "readdir" ELSE "check"
      /\ (Stays \/ Dropped(p, i, c))
  BY <1>0, <1>00, CheckMoves
<1>2. UNCHANGED <<proc, todo>>
  BY DEF CheckChild, kernel
<1>3. ~Dropped(p, i, c)
  <2> SUFFICES ASSUME Dropped(p, i, c) PROVE FALSE
    OBVIOUS
  <2>1. i \in Children(p) /\ c = child[p][i] /\ c \in Pids /\ c \notin Listed
    BY DEF Dropped
  <2>2. c \in Recorded
    BY <1>1, <2>1, PidsFacts DEF TInv, ChildInv, Read, Recorded
  <2> QED BY <2>1, <2>2 DEF Faithful
<1>4. child' = child /\ result' = result
  BY <1>1, <1>3 DEF Stays
<1>5. /\ Recorded' = Recorded /\ Listed' = Listed
      /\ \A q : Own(q)' = Own(q) /\ Children(q)' = Children(q) /\ Spent(q)' = Spent(q)
  BY <1>2, <1>4 DEF Recorded, Listed, Own, Children, Spent
<1>6. Hearing = {} /\ Hearing' = {} /\ pc' # "cmdline"
  BY <1>1 DEF Hearing
<1> QED BY <1>2, <1>4, <1>5, <1>6 DEF Faithful

(* The result of such a round.                                             *)
LEMMA StepExact ==
  ASSUME TInv, Remembered, pc = "readdir", todo = {}, Faithful,
         NEW s \in Stepds, s \in Recorded, NEW readings
  PROVE  Walk(s, readings).time
           = SumFunctionOnSet([p \in Pids |-> proc[p].utime + proc[p].cutime], Descendants(s))
<1>1. PICK f, r, h, v : FamilyOf(f, r) /\ SeenBy(f, v) /\ Apart(f, v)
  BY DEF Remembered, History
<1>2. AllLooked(f, v)
  BY <1>1 DEF Apart, Unlooked, AllLooked
<1>3. PICK w \in [0 .. MaxPid -> [Recorded -> Found]] :
        w = Walking(w, readings) /\ \A p : Walk(p, readings) = w[MaxPid][p]
  BY WalkParts
<1>4. MaxPid \in 0 .. MaxPid
  BY SettingFacts DEF TInv
<1>5. Counted(f, v, s, w[MaxPid][s])
  BY <1>1, <1>2, <1>3, <1>4, CountedAll
<1>6. w[MaxPid][s].apps = Descendants(s)
  BY <1>3, WalkExact
<1>7. PICK S : S = Descendants(s)
  OBVIOUS
<1>8. S \in SUBSET Recorded /\ Walk(s, readings).time = OwnTotal(S)
  BY <1>3, <1>5, <1>6, <1>7 DEF Counted
<1>9. PICK o, t : o = OwnTimes /\ t = [p \in Pids |-> proc[p].utime + proc[p].cutime]
  OBVIOUS
<1>10. IsFiniteSet(S) /\ \A x \in S : o[x] \in Nat /\ o[x] = Own(x)
  BY <1>8, <1>9, OwnTotals
<1>11. \A x \in S : o[x] = t[x]
  BY <1>8, <1>9, <1>10, TreeFacts DEF Faithful, Spent
<1>12. SumFunctionOnSet(o, S) = SumFunctionOnSet(t, S)
  BY <1>10, <1>11, SumSame
<1> QED BY <1>7, <1>8, <1>9, <1>12 DEF OwnTotal

QuietInv ==
  /\ quiet /\ Scanning => Faithful
  /\ Rounds
  /\ QuietExact

LEMMA QuietStep ==
  ASSUME ScrapeInv, ScrapeInv', Remembered, QuietInv, [Next]_vars
  PROVE  QuietInv'
<1>0. /\ TInv /\ stats \in Seq(Entries) /\ Len(stats) \in Nat /\ DOMAIN stats = 1 .. Len(stats)
      /\ round \in Nat
  <2>1. round \in Nat
    BY SettingFacts DEF ScrapeInv, TInv, TypeOK
  <2> QED BY <2>1, LenProperties DEF ScrapeInv, StagedInv
<1>1. ASSUME NEW i \in DOMAIN stats
      PROVE  stats[i].round \in Nat /\ stats[i].round <= round
  <2>1. PICK A : A = Entries
    OBVIOUS
  <2>2. stats[i] \in A
    BY <1>0, <2>1, ElementOfSeq
  <2> QED BY <2>1, <2>2 DEF Entries, QuietInv, Rounds
<1>2. CASE KernelNext
  <2>1. KernelMoves /\ Kernel
    BY <1>0, <1>2, KernelStep
  <2>2. quiet' = FALSE
    BY <2>1 DEF Kernel
  <2>3. UNCHANGED <<pc, round, stats>>
    BY <2>1 DEF Kernel, staged
  <2>4. Rounds'
    BY <2>3 DEF QuietInv, Rounds, Scanning
  <2> QED BY <2>2, <2>4 DEF QuietInv, QuietExact
<1>3. CASE StartRound
  <2>1. pc' = "readdir" /\ round' = round + 1 /\ stats' = stats
    BY <1>3 DEF StartRound, staged
  <2>2. Faithful'
    BY <1>0, <1>3, StartFaithful
  <2>3. Rounds'
    BY <1>0, <1>1, <2>1 DEF Rounds
  <2> QED BY <2>1, <2>2, <2>3 DEF QuietInv, QuietExact
<1>4. CASE ReadStat \/ ReadCmdline \/ CheckChild
  <2>1. /\ pc \in {"readdir", "cmdline", "check"} /\ pc' \in {"readdir", "cmdline", "check"}
        /\ UNCHANGED <<quiet, round, stats>>
    BY <1>4 DEF ReadStat, ReadCmdline, CheckChild, kernel, staged
  <2>2. quiet => Faithful'
    BY <1>0, <1>4, <2>1, StatFaithful, CmdlineFaithful, CheckFaithful DEF QuietInv, Scanning
  <2>3. Rounds'
    BY <2>1 DEF QuietInv, Rounds, Scanning
  <2> QED BY <2>1, <2>2, <2>3 DEF QuietInv, QuietExact
<1>5. CASE EndRound
  <2>1. PICK m \in Measured : stats' = stats \o NewEntries(m[1], m[2])
    BY <1>5 DEF EndRound, NewEntries
  <2>2. pc = "readdir" /\ todo = {} /\ pc' \in {"wait", "stage"}
        /\ proc' = proc /\ round' = round /\ quiet' = quiet
    BY <1>5 DEF EndRound, kernel
  <2>3. PICK new : new = NewEntries(m[1], m[2])
    OBVIOUS
  <2>4. /\ new \in Seq(Entries) /\ Len(new) = Len(Steps)
        /\ \A i \in 1 .. Len(Steps) :
             /\ new[i].pid = Steps[i] /\ new[i].time = Walk(Steps[i], m[1]).time
             /\ new[i].round = round
    <3>1. /\ NewEntries(m[1], m[2]) \in Seq(Entries)
          /\ Len(NewEntries(m[1], m[2])) = Len(Steps)
          /\ \A i \in 1 .. Len(Steps) :
               /\ NewEntries(m[1], m[2])[i] = Entry(i, m[1], m[2])
               /\ Entry(i, m[1], m[2]).time = Walk(Steps[i], m[1]).time
               /\ Entry(i, m[1], m[2]).pid = Steps[i] /\ Entry(i, m[1], m[2]).round = round
      BY <1>0, EntriesTyped
    <3> QED BY <2>3, <3>1
  <2>5. /\ DOMAIN Steps = 1 .. Len(Steps) /\ Len(Steps) \in Nat
        /\ \A i \in DOMAIN Steps : Steps[i] \in Recorded /\ Steps[i] \in Stepds
    BY <1>0, StepsTyped
  <2>6. /\ Len(stats') = Len(stats) + Len(new) /\ DOMAIN stats' = 1 .. Len(stats) + Len(new)
        /\ \A i \in 1 .. Len(stats) + Len(new) :
             stats'[i] = IF i <= Len(stats) THEN stats[i] ELSE new[i - Len(stats)]
    <3>1. PICK A : A = Entries
      OBVIOUS
    <3>2. stats \in Seq(A) /\ new \in Seq(A) /\ stats' = stats \o new
      BY <1>0, <2>1, <2>3, <2>4, <3>1
    <3> QED BY <3>2, ConcatProperties, LenProperties
  <2>7. ASSUME NEW i \in DOMAIN stats'
        PROVE  \/ i \in DOMAIN stats /\ stats'[i] = stats[i]
               \/ \E j \in 1 .. Len(Steps) : stats'[i] = new[j]
    <3>1. CASE i <= Len(stats)
      BY <1>0, <2>4, <2>5, <2>6, <3>1
    <3>2. CASE ~(i <= Len(stats))
      <4>1. i - Len(stats) \in 1 .. Len(Steps) /\ stats'[i] = new[i - Len(stats)]
        BY <1>0, <2>4, <2>5, <2>6, <3>2
      <4> QED BY <4>1
    <3> QED BY <3>1, <3>2
  <2>8. Rounds'
    <3>1. ASSUME NEW i \in DOMAIN stats' PROVE stats'[i].round <= round
      BY <1>0, <1>1, <2>4, <2>7
    <3>2. ~Scanning'
      BY <2>2 DEF Scanning
    <3> QED BY <2>2, <3>1, <3>2 DEF Rounds
  <2>9. ASSUME quiet, NEW i \in DOMAIN stats', stats'[i].round = round
        PROVE  stats'[i].time = SumFunctionOnSet([p \in Pids |-> proc[p].utime + proc[p].cutime],
                                                 Descendants(stats'[i].pid))
    <3>1. ~(i \in DOMAIN stats /\ stats'[i] = stats[i])
      <4>1. \A k \in DOMAIN stats : stats[k].round < round
        BY <2>2 DEF QuietInv, Rounds, Scanning
      <4> QED BY <1>0, <2>9, <4>1
    <3>2. PICK j \in 1 .. Len(Steps) : stats'[i] = new[j]
      BY <2>7, <3>1
    <3>3. PICK s, readings : s = Steps[j] /\ readings = m[1]
      OBVIOUS
    <3>4. stats'[i].pid = s /\ stats'[i].time = Walk(s, readings).time
      BY <2>4, <3>2, <3>3
    <3>5. s \in Recorded /\ s \in Stepds /\ Faithful
      BY <2>2, <2>5, <2>9, <3>3 DEF QuietInv, Scanning
    <3>6. Walk(s, readings).time
            = SumFunctionOnSet([p \in Pids |-> proc[p].utime + proc[p].cutime], Descendants(s))
      BY <1>0, <2>2, <3>5, StepExact
    <3> QED BY <3>4, <3>6
  <2>10. QuietExact'
    <3>1. \A s : Descendants(s)' = Descendants(s)
      BY <2>2 DEF Descendants, Alive
    <3> QED BY <2>2, <2>9, <3>1 DEF QuietExact
  <2>11. ~Scanning'
    BY <2>2 DEF Scanning
  <2> QED BY <2>8, <2>10, <2>11 DEF QuietInv
<1>6. CASE Stage
  <2>1. pc' = "sent" /\ UNCHANGED <<round, stats>>
    BY <1>6 DEF Stage
  <2>2. Rounds'
    BY <1>1, <2>1 DEF Rounds, Scanning
  <2> QED BY <2>1, <2>2 DEF QuietInv, QuietExact, Scanning
<1>7. CASE UNCHANGED vars
  <2>1. UNCHANGED <<proc, quiet, pc, round, todo, cur_result, child, result, stats>>
    BY <1>7 DEF vars, kernel, scan, staged
  <2>2. /\ Recorded' = Recorded /\ Listed' = Listed /\ Hearing' = Hearing
        /\ \A q : Own(q)' = Own(q) /\ Children(q)' = Children(q) /\ Spent(q)' = Spent(q)
    BY <2>1 DEF Recorded, Listed, Own, Children, Spent, Hearing
  <2>3. Faithful => Faithful'
    <3>1. Spent(cur_result.pid)' = Spent(cur_result.pid)
      BY <2>1 DEF Spent
    <3>2. \A q : Children(proc[q].ppid)' = Children(proc[q].ppid)
      BY <2>1 DEF Children
    <3> QED BY <2>1, <2>2, <3>1, <3>2 DEF Faithful
  <2>4. \A s : Descendants(s)' = Descendants(s)
    BY <2>1 DEF Descendants, Alive
  <2>5. QuietExact'
    BY <2>1, <2>4 DEF QuietInv, QuietExact
  <2>6. Rounds'
    BY <2>1 DEF QuietInv, Rounds, Scanning
  <2> QED BY <2>1, <2>3, <2>5, <2>6 DEF QuietInv, Scanning
<1> QED BY <1>2, <1>3, <1>4, <1>5, <1>6, <1>7 DEF Next, ScraperNext

(* A round in which nothing happens counts every process below a           *)
(* slurmstepd, and all it waited for, once (worker.cpp:779-830).           *)
THEOREM QuietRoundExact == Spec => []QuietExact
<1>1. Init => QuietInv
  <2> SUFFICES ASSUME Init PROVE QuietInv
    OBVIOUS
  <2>1. quiet = FALSE /\ DOMAIN stats = {}
    BY DEF Init
  <2> QED BY <2>1 DEF QuietInv, Rounds, QuietExact
<1>2. ScrapeInv /\ ScrapeInv' /\ Remembered /\ QuietInv /\ [Next]_vars => QuietInv'
  BY QuietStep
<1>3. QuietInv => QuietExact
  BY DEF QuietInv
<1> QED BY <1>1, <1>2, <1>3, Scraping, Remembering, PTL DEF Spec
=============================================================================
