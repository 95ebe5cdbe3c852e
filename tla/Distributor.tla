----------------------------- MODULE Distributor -----------------------------
(* node_watcher_distributor (worker.cpp) of turingwatch: in every round it    *)
(* counts the nodes running jobs use and asks SLURM, partition by partition,  *)
(* for allocations in which scrapers run, some nodes at a time.               *)
(*                                                                            *)
(* Partitions and jobs are what SLURM reports; the names of nodes reach the   *)
(* distributor as lists that NodeString reads.  A list is a record of its     *)
(* text and of the hosts it stands for: the code sees the text only.          *)
EXTENDS NodeString, Integers, FiniteSets, FiniteSetsExt

CONSTANTS
  None, Nobody, \* absent from a map, the partition ""
  Hosts,        \* names of nodes
  Partitions,
  Unlimited,    \* INFINITE, as max_nodes or max_time
  Tables,       \* sequence of what slurm_load_partitions may report, in time
  JobLists,     \* lists of nodes of running jobs or steps
  Written,      \* the list with which SLURM writes a set of nodes
  Assocs,       \* <<account, qos>> the watcher may use
  Concurrent,   \* SCRAPE_CONCURRENT_NODES
  MaxRounds     \* rounds before the process is no longer followed

ASSUME DistributorAssumption ==
  /\ IsFiniteSet(Hosts) /\ IsFiniteSet(JobLists)
  /\ Partitions \intersect {None, Nobody} = {}
  /\ MaxRounds \in Nat
  /\ Unlimited \in Nat /\ Concurrent \in Nat
  /\ Len(Tables) \in Nat \ {0}
  /\ \A t \in 1..Len(Tables), p \in Partitions : Tables[t][p].max_nodes \in Nat

VARIABLES
  pc,         \* where the thread is
  cause,      \* why it ended
  runOnce,    \* run_once
  first,      \* timeout is 0
  round,
  table,      \* index of SLURM's current table
  fresh,      \* the table changed after timeout
  nodeset,
  home,       \* node_partition: None when absent, Nobody for ""
  info,       \* partition_info, where partition_account has an entry
  usage,      \* node_usage_map
  todo,       \* partitions of this round still to visit
  part,       \* the partition visited
  conc,       \* concurrency
  pending,    \* tasks from cur on
  q,          \* q[0] and q[1]
  idx,
  nodemix,
  excl,       \* excl_set of the mixset
  asked,      \* nodes the last request asked for
  ranOn,      \* history: how often jobs used a node
  given,      \* history: allocations of a node in this round
  offered     \* history: requests of this round that offered a node in vain

slurm   == <<table, fresh>>
known   == <<nodeset, home, info>>
visit   == <<part, conc, pending, q, idx, nodemix, excl, asked>>
history == <<given, offered>>
vars == <<pc, cause, runOnce, first, round, slurm, known, usage, todo, visit, ranOn, history>>

NoQueue == [i \in {0, 1} |-> {}]

Init ==
  /\ pc = "load" /\ cause = None /\ first = TRUE /\ round = 0
  /\ runOnce \in BOOLEAN
  /\ table = 1 /\ fresh = TRUE
  /\ nodeset = {}
  /\ home = [n \in Hosts |-> None]
  /\ info = [p \in Partitions |-> None]
  /\ usage = [n \in Hosts |-> 0] /\ ranOn = usage
  /\ todo = {} /\ part = None /\ conc = 0 /\ pending = {} /\ q = NoQueue /\ idx = 0
  /\ nodemix = {} /\ excl = {} /\ asked = 0
  /\ given = [n \in Hosts |-> 0] /\ offered = given

(* The locals of a visit, and the history of a round, at their end.          *)
NoVisit ==
  /\ part' = None /\ conc' = 0 /\ pending' = {} /\ q' = NoQueue /\ idx' = 0
  /\ nodemix' = {} /\ excl' = {} /\ asked' = 0
NoHistory == given' = [n \in Hosts |-> 0] /\ offered' = given'

Die(why) == pc' = "dead" /\ cause' = why
Go(where) == pc' = where /\ UNCHANGED cause

(* Every list SLURM may write, read by split_node_string.                    *)
Lists == JobLists \union {t[p].nodes : t \in Range(Tables), p \in Partitions}
                  \union {Written[s] : s \in (SUBSET Hosts) \ {{}}}

(* Lists name hosts; that of an allocation names what was allocated.          *)
ASSUME ListsAssumption ==
  /\ \A l \in Lists : l.hosts \in Seq(Hosts)
  /\ \A s \in (SUBSET Hosts) \ {{}} : Range(Written[s].hosts) = s

Reading == [text \in {l.text : l \in Lists} |-> SplitNodeString(text, TRUE)]

Verdict(list)  == Reading[list.text].verdict
NamesIn(list)  == Reading[list.text].names
Mentions(n, s) == Cardinality({i \in DOMAIN s : s[i] = n})

(* What split_node_string is for: a list that does not end the process is     *)
(* read as the hosts it stands for.                                           *)
ListsRead == \A l \in Lists : Verdict(l) = "throws" \/ NamesIn(l) = l.hosts

-----------------------------------------------------------------------------
(* Partitions.                                                               *)

(* calc_deny: everything but what is listed, nothing without a list.  What   *)
(* a partition allows is the set of its lists, of which there is at most one. *)
Denied(allowed, all) == IF allowed = {} THEN {} ELSE all \ UNION allowed

(* The lists of denied accounts and qos do not count: ins_deny inserts what  *)
(* is there already.                                                         *)
Usable(p) ==
  \E a \in Assocs : /\ a[1] \notin Denied(p.allow_accounts, {b[1] : b \in Assocs})
                    /\ a[2] \notin Denied(p.allow_qos, {b[2] : b \in Assocs})

(* operator <, which does not settle the order of equals.                    *)
Before(a, b) ==
  IF a.max_nodes # b.max_nodes
  THEN a.max_nodes = 0 \/ (b.max_nodes # 0 /\ a.max_nodes > b.max_nodes)
  ELSE a.max_time # b.max_time /\ a.max_time # Unlimited
       /\ (b.max_time = Unlimited \/ a.max_time < b.max_time)

Orders == [t \in DOMAIN Tables |->
  {o \in SetToSeqs({p \in Partitions : Usable(Tables[t][p])}) :
     \A i, j \in DOMAIN o : i < j => ~Before(Tables[t][o[j]], Tables[t][o[i]])}]

(* try_emplace: the first partition that lists a node keeps it.              *)
Adopt(reported, order) ==
  LET listed == [p \in Range(order) |-> Range(NamesIn(reported[p].nodes))]
  IN  /\ info' = [p \in Partitions |-> IF p \in Range(order) THEN reported[p] ELSE info[p]]
      /\ nodeset' = nodeset \union UNION Range(listed)
      /\ home' = [n \in Hosts |->
           LET at == {i \in DOMAIN order : n \in listed[order[i]]}
           IN  IF home[n] # None \/ at = {} THEN home[n] ELSE order[Min(at)]]

(* slurm_load_partitions fails, or reports a table younger than timeout.     *)
Load ==
  /\ pc = "load" /\ round < MaxRounds
  /\ round' = round + 1
  /\ \/ Go("jobs") /\ UNCHANGED known
     \/ /\ first \/ fresh
        /\ \E order \in Orders[table] :
             IF \E p \in Range(order) : Verdict(Tables[table][p].nodes) = "throws"
             THEN Die("list") /\ UNCHANGED known
             ELSE Go("jobs") /\ Adopt(Tables[table], order)
  /\ UNCHANGED <<runOnce, first, slurm, usage, todo, visit, ranOn, history>>

(* A partition changes, before the deadline of the next round or after it.   *)
Reconfigure ==
  /\ table < Len(Tables)
  /\ table' = table + 1 /\ fresh' \in {fresh, TRUE}
  /\ UNCHANGED <<pc, cause, runOnce, first, round, known, usage, todo, visit, ranOn, history>>

-----------------------------------------------------------------------------
(* The nodes of running jobs.                                                *)

(* node_usage_map starts empty in every round. *)
CountedAfresh(jobs) ==
  [n \in Hosts |-> MapThenSumSet(LAMBDA j : Mentions(n, NamesIn(j)), jobs)]

(* watcher_distributor_count_nodes for every job or step.                    *)
Counted(jobs) ==
  [n \in Hosts |-> usage[n] + MapThenSumSet(LAMBDA j : Mentions(n, NamesIn(j)), jobs)]

(* The loop over node_usage_map: a node without a partition gets "", which   *)
(* starts the round over, and belongs to "" from then on.                    *)
Assign(counted) ==
  LET used    == {n \in Hosts : counted[n] > 0}
      unknown == {n \in used : home[n] = None}
  IN  /\ usage' = counted
      /\ home' = [n \in Hosts |-> IF n \in unknown THEN Nobody ELSE home[n]]
      /\ IF unknown = {}
         THEN Go("visit") /\ todo' = {p \in Partitions : info[p] # None /\ \E n \in used : home[n] = p}
         ELSE Go(IF runOnce THEN "done" ELSE "load") /\ todo' = {}

(* timeout becomes the present: what changed so far is not reported again.   *)
CountJobs ==
  /\ pc = "jobs"
  /\ first' = FALSE /\ fresh' = FALSE
  /\ \E jobs \in SUBSET JobLists :
       /\ ranOn' = [n \in Hosts |-> ranOn[n] + MapThenSumSet(LAMBDA j : Mentions(n, j.hosts), jobs)]
       /\ IF \E j \in jobs : Verdict(j) = "throws"
          THEN Die("list") /\ UNCHANGED <<usage, home, todo>>
          ELSE Assign(Counted(jobs))
  /\ UNCHANGED <<runOnce, round, table, nodeset, info, visit, history>>

-----------------------------------------------------------------------------
(* The allocations of one partition.                                         *)
Least(a, b) == IF a < b THEN a ELSE b

Concurrency(max_nodes) ==
  IF max_nodes \in {0, Unlimited} THEN Concurrent ELSE Least(Concurrent, max_nodes \div 2)

Tasks(p) == {n \in Hosts : usage[n] > 0 /\ home[n] = p}

(* The frequency limit divides by concurrency * 2.                           *)
Visit ==
  /\ pc = "visit"
  /\ \E p \in todo :
       /\ todo' = todo \ {p} /\ part' = p
       /\ conc' = Concurrency(info[p].max_nodes)
       /\ IF conc' = 0 THEN Die("division") ELSE Go("alloc")
       /\ pending' = Tasks(p)
  /\ q' = NoQueue /\ idx' = 0 /\ nodemix' = {} /\ excl' = {} /\ asked' = 0
  /\ UNCHANGED <<runOnce, first, round, slurm, known, usage, ranOn, history>>

(* The next k tasks by usage.                                                *)
Heads(k) ==
  {s \in SUBSET pending : /\ Cardinality(s) = Least(k, Cardinality(pending))
                         /\ \A n \in s, m \in pending \ s : usage[n] >= usage[m]}

(* What SLURM may allocate: at most max nodes of the partition that are not  *)
(* excluded, or none until ALLOCATION_TIMEOUT.                               *)
Allocations(excluded, max) ==
  {s \in SUBSET (Range(Tables[table][part].nodes.hosts) \ excluded) : Cardinality(s) <= max}

Bumped(f, s) == [n \in Hosts |-> IF n \in s THEN Least(f[n] + 1, 2) ELSE f[n]]

(* send_job: the scraper job runs on what was allocated, the distributor      *)
(* goes by what it reads in the list.                                        *)
Asked(max, offer, got) ==
  /\ asked' = max
  /\ given' = Bumped(given, got)
  /\ offered' = Bumped(offered, offer \ got)

(* missing                                                                   *)
MissingAll == 2 * conc
Missing == 2 * conc - Cardinality(q[idx])

FlipByCounting == idx + 1
Flip == 1 - idx

(* Nodes refused a second time, or with no request to come.                  *)
MixedSecond(refused, new) == {n \in refused : n \in q[idx]}
MixedLast(refused, new) == {n \in refused : new = pending}
Mixed(refused, new) == {n \in refused : n \in q[idx] \/ new = pending}

(* excl_set of the mixset.                                                   *)
MixTasks == nodeset \ Tasks(part)
MixFirst == nodeset \ nodemix

Returned(got) == IF got = {} THEN {} ELSE Range(NamesIn(Written[got]))
Unreadable(got) == got # {} /\ Verdict(Written[got]) = "throws"

(* One request: what q[idx] kept from the request before and as many new      *)
(* tasks as fit.  What is refused goes to the mixset or to the next request.  *)
Request ==
  /\ pc = "alloc" /\ pending # {}
  /\ \E new \in Heads(Missing) :
       LET offer == q[0] \union q[1] \union new
       IN  \E got \in Allocations(nodeset \ offer, Cardinality(offer)) :
             LET refused == offer \ Returned(got)
                 mixed   == Mixed(refused, new)
             IN  /\ Asked(Cardinality(offer), offer, got)
                 /\ IF Unreadable(got) THEN Die("list") ELSE Go("alloc")
                 /\ pending' = pending \ new
                 /\ nodemix' = nodemix \union mixed
                 /\ q' = [q EXCEPT ![idx] = {}, ![Flip] = refused \ mixed]
                 /\ idx' = Flip
  /\ UNCHANGED <<runOnce, first, round, slurm, known, usage, todo, part, conc, excl, ranOn>>

StartMix ==
  /\ pc = "alloc" /\ pending = {}
  /\ Go("mix")
  /\ excl' = MixFirst /\ nodemix' = {}
  /\ UNCHANGED <<runOnce, first, round, slurm, known, usage, todo, part, conc, pending, q, idx, asked,
                 ranOn, history>>

(* The mixset is requested until SLURM gives nothing.                        *)
RequestMix ==
  /\ pc = "mix"
  /\ \E got \in Allocations(excl, 2 * conc) :
       /\ Asked(2 * conc, Tasks(part) \ excl, got)
       /\ IF Unreadable(got) THEN Die("list")
          ELSE Go(IF Returned(got) = {} THEN "visit" ELSE "mix")
       /\ excl' = excl \union Returned(got)
  /\ UNCHANGED <<runOnce, first, round, slurm, known, usage, todo, part, conc, pending, q, idx, nodemix,
                 ranOn>>

-----------------------------------------------------------------------------
EndRound ==
  /\ pc = "visit" /\ todo = {}
  /\ Go(IF runOnce THEN "done" ELSE "load")
  /\ NoVisit /\ NoHistory
  /\ UNCHANGED <<runOnce, first, round, slurm, known, usage, todo, ranOn>>

(* build_slurmdb_conn or close_slurmdb_conn fails, which is exit(1).         *)
LoseConn ==
  /\ \/ pc = "load" /\ ~first
     \/ pc = "visit" /\ todo = {}
  /\ Die("connection")
  /\ UNCHANGED <<runOnce, first, round, slurm, known, usage, todo, visit, ranOn, history>>

Run == Load \/ CountJobs \/ Visit \/ Request \/ StartMix \/ RequestMix \/ EndRound

Next == Run \/ Reconfigure \/ LoseConn

Spec == Init /\ [][Next]_vars

(* The thread runs whenever it can: no request waits longer than             *)
(* ALLOCATION_TIMEOUT.                                                       *)
FairSpec == Spec /\ WF_vars(Run)

-----------------------------------------------------------------------------
TypeOK ==
  /\ pc \in {"load", "jobs", "visit", "alloc", "mix", "done", "dead"}
  /\ cause \in {None, "list", "division", "connection"}
  /\ runOnce \in BOOLEAN /\ first \in BOOLEAN /\ fresh \in BOOLEAN
  /\ round \in 0..MaxRounds /\ table \in 1..Len(Tables)
  /\ nodeset \subseteq Hosts
  /\ home \in [Hosts -> Partitions \union {None, Nobody}]
  /\ \A p \in Partitions : info[p] # None => \E t \in DOMAIN Tables : info[p] = Tables[t][p]
  /\ usage \in [Hosts -> Nat] /\ ranOn \in [Hosts -> Nat]
  /\ todo \subseteq Partitions /\ part \in Partitions \union {None}
  /\ conc \in 0..Concurrent /\ asked \in Nat
  /\ pending \subseteq Hosts /\ nodemix \subseteq Hosts /\ excl \subseteq Hosts
  /\ q \in [{0, 1} -> SUBSET Hosts] /\ idx \in {0, 1}
  /\ given \in [Hosts -> 0..2] /\ offered \in [Hosts -> 0..2]

(* The usage of a node is how often running jobs named it, however the list   *)
(* was written: nothing is lost or made up between the text and the map.      *)
CountsHosts == cause # "list" => usage = ranOn

(* A request asks for no more than double SCRAPE_CONCURRENT_NODES, as the     *)
(* README promises, nor for more than the partition allows.                   *)
AtMostDouble ==
  pc \in {"alloc", "mix"} =>
    /\ asked <= 2 * Concurrent
    /\ info[part].max_nodes \notin {0, Unlimited} => asked <= info[part].max_nodes

(* No node gets a second scraper job in one round, through all requests of    *)
(* its partition, the mixset and the other partitions that list it.           *)
OncePerRound == \A n \in nodeset : given[n] <= 1

(* When a partition is done, every node of its tasks was allocated or was     *)
(* offered in at least two requests, in vain.                                 *)
AllTried ==
  pc = "visit" /\ part # None => \A n \in Tasks(part) : given[n] > 0 \/ offered[n] >= 2

(* Every round ends, but for a lost connection, a list that cannot be read or *)
(* a partition of a single node.                                              *)
RoundEnds ==
  pc = "jobs" ~> \/ pc \in {"load", "done"}
                 \/ cause \in {"connection", "list"}
                 \/ cause = "division" /\ info[part].max_nodes = 1

(* "scontrol show hostnames node[1-3,01,1-03,01-03,001-03,001-13,999-1000]":  *)
(* the lists the comment in split_node_string names do not end the process.   *)
ListsExpand == cause # "list"
=============================================================================
