------------------------------ MODULE Accounting ------------------------------
(***************************************************************************)
(* The rounds of the watcher server (watcher/src/worker.cpp, main.cpp) and *)
(* the database they feed (watcher/sql): every round renews its time       *)
(* window, imports the jobs slurmdbd reports for it, stores the groups of  *)
(* scraper messages that were frozen in the previous round, and freezes    *)
(* the next batch.  The message queues are those of MessageBuffer, which   *)
(* module Messaging implements.                                            *)
(*                                                                         *)
(* A job stands for a job and its only step; it uses one unit of CPU time  *)
(* per unit of time while it runs.                                         *)
(***************************************************************************)
EXTENDS Naturals, Sequences, FiniteSets

CONSTANTS
  Jobs,
  Scrapers,     (* scraper processes, each measures one job and sends once *)
  Nodes,
  Node,         (* Node[s]: the target_node of s                           *)
  Roles,        (* sources a server may write as: "sacct", or "privileged" *)
                (* when it is run by root or by the SLURM user             *)
  Nobody,
  MaxTime,      (* bound: the clock stops here                             *)
  Faults,       (* what goes wrong, each at most once: "crash" (killed),   *)
                (* "exit" (exit(1)), "busy" (the renewal fails)            *)
  MaxFaults     (* bound: how many of them                                 *)

ASSUME AccountingAssumption ==
  /\ Nobody \notin Scrapers
  /\ Node \in [Scrapers -> Nodes]
  /\ Roles \subseteq {"sacct", "privileged"}
  /\ {"sacct", "privileged"} \intersect Nodes = {}
  /\ MaxTime \in Nat /\ MaxFaults \in Nat
  /\ Faults \subseteq {"crash", "exit", "busy"}

VARIABLES
  now,          (* the clock of the cluster and of the database            *)
  job,          (* what slurmdbd knows of each job                         *)
  probe,        (* the scrapers                                            *)
  log, batch, taken,                        (* the queues, in memory       *)
  wpc,          (* what the watcher process does next                      *)
  role,         (* the source of the row watcher_id refers to              *)
  window,       (* time_range_start and time_range_end                     *)
  lastfetch,    (* watcher.lastfetch, by source                            *)
  jobinfo,      (* the table, by job                                       *)
  measurements, (* the table, by job, in the order of recordid             *)
  lost,         (* windows renewed and never imported, for the properties  *)
  faults        (* what went wrong so far                                  *)

cluster == <<now, job>>
queues  == <<log, batch, taken>>
process == <<wpc, role, window>>
tables  == <<lastfetch, jobinfo, measurements>>
vars    == <<cluster, probe, queues, process, tables, lost, faults>>

Buffer == INSTANCE MessageBuffer

-----------------------------------------------------------------------------

Times  == 0 .. MaxTime
Spans  == [start : Times, end : Times]
States == {"pending", "running", "ended"}
Sources == Roles \union Nodes
Rows   == [source : Sources, tot : Times]
Known  == {"none", "running", "ended"}
Steps  == {"down", "import", "collect", "sleep", "final"}
Probes == [st : {"idle", "measured", "accepted", "straddling", "sent", "lost"},
           job : Jobs, tot : Times]

TypeOK ==
  /\ now \in Times
  /\ job \in [Jobs -> [st : States, start : Times, end : Times]]
  /\ probe \in [Scrapers -> Probes]
  /\ Buffer!TypeOK
  /\ wpc \in Steps
  /\ role \in Roles
  /\ window \in Spans
  /\ lastfetch \in [Sources -> Times]
  /\ jobinfo \in [Jobs -> Known]
  /\ measurements \in [Jobs -> Seq(Rows)]
  /\ lost \subseteq Spans
  /\ faults \subseteq Faults

(* A fresh database: the default of prev_lastfetch, 28 days ago, is before *)
(* everything that matters here.                                           *)
Init ==
  /\ now = 0
  /\ job = [j \in Jobs |-> [st |-> "pending", start |-> 0, end |-> 0]]
  /\ probe \in [Scrapers -> {[st |-> "idle", job |-> j, tot |-> 0] : j \in Jobs}]
  /\ Buffer!Init
  /\ wpc = "down"
  /\ role \in Roles
  /\ window = [start |-> 0, end |-> 0]
  /\ lastfetch = [w \in Sources |-> 0]
  /\ jobinfo = [j \in Jobs |-> "none"]
  /\ measurements = [j \in Jobs |-> <<>>]
  /\ lost = {}
  /\ faults = {}

-----------------------------------------------------------------------------
(* The cluster.                                                            *)

Tick ==
  /\ now < MaxTime
  /\ now' = now + 1
  /\ UNCHANGED <<job, probe, queues, process, tables, lost, faults>>

JobStarts(j) ==
  /\ job[j].st = "pending"
  /\ job' = [job EXCEPT ![j] = [st |-> "running", start |-> now, end |-> 0]]
  /\ UNCHANGED <<now, probe, queues, process, tables, lost, faults>>

JobEnds(j) ==
  /\ job[j].st = "running"
  /\ job' = [job EXCEPT ![j].st = "ended", ![j].end = now]
  /\ UNCHANGED <<now, probe, queues, process, tables, lost, faults>>

(* A scraper reads /proc while the job runs.                               *)
Measure(s) ==
  /\ probe[s].st = "idle"
  /\ job[probe[s].job].st = "running"
  /\ probe' = [probe EXCEPT ![s].st = "measured",
                            ![s].tot = now - job[probe[s].job].start]
  /\ UNCHANGED <<cluster, queues, process, tables, lost, faults>>

-----------------------------------------------------------------------------
(* The connection manager, through MessageBuffer.                          *)

Open == {s \in Scrapers : probe[s].st \in {"accepted", "straddling"}}

(* One connection at a time, until the socket is closed.  A scraper that   *)
(* cannot connect is one that stays "measured".                            *)
Accept(s) ==
  /\ wpc \notin {"down", "final"}
  /\ probe[s].st = "measured"
  /\ Open = {}
  /\ probe' = [probe EXCEPT ![s].st = "accepted"]
  /\ UNCHANGED <<cluster, queues, process, tables, lost, faults>>

(* The connection ends; its group belongs to the batch it was accepted in. *)
TakenIn(s) ==
  /\ s \in Open
  /\ Buffer!Deliver(s)
  /\ batch' = IF probe[s].st = "straddling" THEN batch + 1 ELSE batch
  /\ probe' = [probe EXCEPT ![s].st = "sent"]
  /\ UNCHANGED <<cluster, process, tables, lost, faults>>

-----------------------------------------------------------------------------
(* The tables.                                                             *)

(* A scraper never finds out whether it is privileged, so its readings are *)
(* "raw_readings" whoever runs it.                                         *)
Accuracy(source) ==
  CASE source = "privileged" -> 2
    [] source = "sacct"      -> 1
    [] OTHER                 -> 0

(* Mutant: target_node = target_node, which is not true of NULL.           *)
EqualNode(a, b) == a = b /\ a \in Nodes

(* target_node IS target_node: the row of a server has none.               *)
SameNode(a, b) == a = b \/ {a, b} \subseteq Roles

(* The trigger measurement_quality_ensurance: nothing without CPU time,    *)
(* nothing less accurate than what is there, nothing that adds nothing.    *)
Ignored(row, rows) ==
  \/ row.tot = 0
  \/ \E i \in DOMAIN rows :
       \/ Accuracy(rows[i].source) > Accuracy(row.source)
       \/ /\ Accuracy(rows[i].source) = Accuracy(row.source)
          /\ rows[i].tot = row.tot
          /\ SameNode(rows[i].source, row.source)

Insert(rows, row) == IF Ignored(row, rows) THEN rows ELSE Append(rows, row)

-----------------------------------------------------------------------------
(* The watcher thread.                                                     *)

(* renew_watcher: one statement inserts or updates the row of the source,  *)
(* and returns the previous and the new lastfetch.                         *)
Renew(source) ==
  /\ window' = [start |-> lastfetch[source], end |-> now]
  /\ lastfetch' = [lastfetch EXCEPT ![source] = now]

Goes(fault) ==
  /\ fault \in Faults \ faults
  /\ Cardinality(faults) < MaxFaults
  /\ faults' = faults \union {fault}

(* A new process registers; what an earlier one had in memory is gone.     *)
Start ==
  /\ wpc = "down"
  /\ role' \in Roles
  /\ Renew(role')
  /\ wpc' = "import"
  /\ UNCHANGED <<cluster, probe, queues, jobinfo, measurements, lost, faults>>

(* The next round.  The return value of renew_watcher is not looked at:    *)
(* when it fails, the round goes on with the window it finds.              *)
RenewWatcher ==
  /\ wpc = "sleep"
  /\ \/ Renew(role) /\ faults' = faults
     \/ Goes("busy") /\ UNCHANGED <<window, lastfetch>>
  /\ wpc' = "import"
  /\ UNCHANGED <<cluster, probe, queues, role, jobinfo, measurements, lost>>

(* Mutant: the start belongs to the window before.                         *)
EndsAfter(j) == job[j].end > window.start

EndsIn(j) == job[j].end >= window.start

(* slurmdb_jobs_get: the jobs that ran at some time of the window, but not *)
(* the pending ones.                                                       *)
Reported(j) ==
  /\ job[j].st # "pending"
  /\ job[j].start <= window.end
  /\ job[j].st = "ended" => EndsIn(j)

(* Mutant: the elapsed time of a running job counts.                       *)
TotalOfRunning(j) == now - job[j].start + 1

(* A step has no CPU time in the accounting before it ends.                *)
Total(j) == IF job[j].st = "ended" THEN job[j].end - job[j].start ELSE 0

(* The answer of slurmdbd, stored in one transaction: jobinfo is inserted  *)
(* or replaced, then the measurement.  Connections accepted before the     *)
(* last freeze have ended by then (Prompt in module Messaging).            *)
Import ==
  /\ wpc = "import"
  /\ \A s \in Scrapers : probe[s].st # "straddling"
  /\ jobinfo' = [j \in Jobs |-> IF Reported(j) THEN job[j].st ELSE jobinfo[j]]
  /\ measurements' =
       [j \in Jobs |->
          IF Reported(j)
          THEN Insert(measurements[j], [source |-> role, tot |-> Total(j)])
          ELSE measurements[j]]
  /\ wpc' = "collect"
  /\ UNCHANGED <<cluster, probe, queues, role, window, lastfetch, lost, faults>>

(* The sender of the group that is collected next.                         *)
Sender == log[taken + 1]

StoreMeasurement ==
  LET p == probe[Sender]
  IN measurements' =
       [measurements EXCEPT ![p.job] =
          Insert(@, [source |-> Node[Sender], tot |-> p.tot])]

(* collect_msg_queue renews the row of the scraper's node and inserts its  *)
(* measurement, in one transaction.  watcher_id is put back afterwards,    *)
(* time_range_start and time_range_end are not.                            *)
CollectMsg ==
  /\ wpc = "collect"
  /\ Buffer!Collect
  /\ Renew(Node[Sender])
  /\ StoreMeasurement
  /\ UNCHANGED <<cluster, probe, wpc, role, jobinfo, lost, faults>>

(* Mutant: PROCESS_ALL_MSG_BEFORE_NEXT_ROUND, what was just frozen is      *)
(* collected at once.                                                      *)
FreezeThenCollect == "collect"

(* do_analyze, and the rest of ACCOUNTING_RPC_INTERVAL.                    *)
AfterFreeze == "sleep"

FreezeBatch ==
  /\ Buffer!Freeze
  /\ probe' = [s \in Scrapers |->
                 IF probe[s].st = "accepted"
                 THEN [probe[s] EXCEPT !.st = "straddling"] ELSE probe[s]]

(* collect_msg_queue is over, and there is nothing for it in the first run *)
(* of the loop.                                                            *)
FreezeQueue ==
  /\ wpc = "collect"
  /\ FreezeBatch
  /\ wpc' = AfterFreeze
  /\ UNCHANGED <<cluster, role, window, tables, lost, faults>>

-----------------------------------------------------------------------------
(* The end of the process.                                                 *)

(* A window that was renewed is not imported any more.                     *)
Abandon == lost' = IF wpc = "import" THEN lost \union {window}
                   ELSE lost

(* The queues and the connections are gone with the process.               *)
Down ==
  /\ wpc' = "down"
  /\ log' = <<>> /\ batch' = 0 /\ taken' = 0
  /\ probe' = [s \in Scrapers |-> IF s \in Open
                                  THEN [probe[s] EXCEPT !.st = "lost"]
                                  ELSE probe[s]]
  /\ role' = role
  /\ window' = [start |-> 0, end |-> 0]

Crash ==
  /\ wpc # "down"
  /\ Goes("crash")
  /\ Abandon
  /\ Down
  /\ UNCHANGED <<cluster, tables>>

(* exit(1): slurmdbd is out of reach, the import cannot be committed, or   *)
(* the analysis fails.                                                     *)
Exit ==
  /\ wpc \in {"import", "sleep"}
  /\ Goes("exit")
  /\ Abandon
  /\ wpc' = "final"
  /\ UNCHANGED <<cluster, probe, queues, role, window, tables>>

(* worker_finalize has finalized the statements collect_msg_queue inserts  *)
(* with: the row is stored or not, or the process dies (Die).              *)
FinalCollect ==
  /\ wpc = "final"
  /\ Buffer!Collect
  /\ Renew(Node[Sender])
  /\ UNCHANGED measurements \/ StoreMeasurement
  /\ UNCHANGED <<cluster, probe, wpc, role, jobinfo, lost, faults>>

FinalFreeze ==
  /\ wpc = "final"
  /\ batch < Len(log)
  /\ FreezeBatch
  /\ UNCHANGED <<cluster, process, tables, lost, faults>>

(* The two rounds are over, or an undefined access ended them.             *)
Die ==
  /\ wpc = "final"
  /\ Down
  /\ UNCHANGED <<cluster, tables, lost, faults>>

-----------------------------------------------------------------------------

Server ==
  \/ Start
  \/ RenewWatcher
  \/ Import
  \/ CollectMsg
  \/ FreezeQueue
  \/ FinalCollect
  \/ FinalFreeze
  \/ Die

Next ==
  \/ Tick
  \/ \E j \in Jobs : JobStarts(j) \/ JobEnds(j)
  \/ \E s \in Scrapers : Measure(s) \/ Accept(s) \/ TakenIn(s)
  \/ Server
  \/ Crash
  \/ Exit

Spec == Init /\ [][Next]_vars

(* The process keeps running and is started again; a connection ends.      *)
Fairness ==
  /\ WF_vars(Server)
  /\ \A s \in Scrapers : WF_vars(TakenIn(s))

FairSpec == Spec /\ Fairness

-----------------------------------------------------------------------------
(* Properties.                                                             *)

(* The only jobs an import may miss: they ended in a window that was       *)
(* renewed by a process that did not get to commit its import.             *)
Lost(j) ==
  /\ job[j].st = "ended"
  /\ \E w \in lost : job[j].end \in w.start .. w.end

(* The job and its final CPU time are stored.                              *)
Accounted(j) ==
  /\ jobinfo[j] = "ended"
  /\ Total(j) > 0 =>
       \E i \in DOMAIN measurements[j], r \in Roles :
         measurements[j][i] = [source |-> r, tot |-> Total(j)]

(* The windows leave no gap: after a round's import every job that ended   *)
(* before the window did is accounted, whatever processes imported before  *)
(* and whoever ran them.                                                   *)
WindowImported ==
  wpc # "import" =>
    \A j \in Jobs : \A r \in Roles :
      job[j].st = "ended" /\ job[j].end < lastfetch[r] => Accounted(j) \/ Lost(j)

(* A measurement of a scraper is stored only when its job is known: its    *)
(* batch is held back until the next import.  (worker.h:12 names this as   *)
(* what the debug option PROCESS_ALL_MSG_BEFORE_NEXT_ROUND gives up.)      *)
JobinfoFirst ==
  faults \intersect {"exit", "busy"} = {} =>
    \A j \in Jobs : measurements[j] # <<>> => jobinfo[j] # "none" \/ Lost(j)

(* Windows overlap at their ends and processes start anew, yet the same    *)
(* reading is never stored twice in a table no row is ever deleted from.   *)
NoDuplicate ==
  \A j \in Jobs : \A i, k \in DOMAIN measurements[j] :
    measurements[j][i] = measurements[j][k] => i = k

(* Every job that ended is accounted some time, by this process or by the  *)
(* next one.                                                               *)
EndedImported ==
  \A j \in Jobs : job[j].st = "ended" ~> Accounted(j) \/ Lost(j)
=============================================================================
