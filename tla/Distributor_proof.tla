-------------------------- MODULE Distributor_proof --------------------------
(* For any cluster, any lists and whatever SLURM allocates: requests keep to   *)
(* the limits of the README and of the partition; and when the lists are read  *)
(* as what they stand for, counts are those of the jobs and every task of a    *)
(* round is allocated once or refused twice.                                   *)
EXTENDS Distributor, Folds_proof

Limited == \A p \in Partitions : info[p] # None => info[p].max_nodes \in Nat

(* The queue of the request to come holds no more than it may ask for; the     *)
(* other one is empty.                                                         *)
Queued ==
  /\ idx \in {0, 1}
  /\ q \in [{0, 1} -> SUBSET Hosts]
  /\ q[1 - idx] = {}
  /\ Cardinality(q[idx]) <= 2 * conc
  /\ pending \subseteq Hosts

Visiting ==
  /\ part \in Partitions /\ info[part] # None
  /\ conc = Concurrency(info[part].max_nodes)
  /\ asked \in Nat /\ asked <= 2 * conc
  /\ Queued

LimitInv ==
  /\ table \in 1..Len(Tables)
  /\ Limited
  /\ pc \in {"load", "jobs"} => todo = {}
  /\ pc = "visit" => todo \subseteq {p \in Partitions : info[p] # None}
  /\ pc \in {"alloc", "mix"} => Visiting /\ todo \subseteq {p \in Partitions : info[p] # None}

LEMMA ConcurrencyBound ==
  ASSUME NEW max \in Nat
  PROVE  /\ Concurrency(max) \in Nat
         /\ Concurrency(max) <= Concurrent
         /\ max \notin {0, Unlimited} => 2 * Concurrency(max) <= max
BY DistributorAssumption DEF Concurrency, Least

(* Of the offer, what is kept for the next request is new.                     *)
LEMMA RequestKeepsQueue ==
  ASSUME Visiting, Limited, Request
  PROVE  /\ asked' \in Nat /\ asked' <= 2 * conc
         /\ Queued'
<1>1. PICK new \in Heads(Missing) :
        \E got \in Allocations(nodeset \ (q[0] \union q[1] \union new),
                               Cardinality(q[0] \union q[1] \union new)) :
          LET offer   == q[0] \union q[1] \union new
              refused == offer \ Returned(got)
              mixed   == Mixed(refused, new)
          IN  /\ Asked(Cardinality(offer), offer, got)
              /\ pending' = pending \ new
              /\ q' = [q EXCEPT ![idx] = {}, ![Flip] = refused \ mixed]
              /\ idx' = Flip
  BY DEF Request
<1> DEFINE offer == q[0] \union q[1] \union new
<1>2. PICK got :
        LET refused == offer \ Returned(got)
            mixed   == Mixed(refused, new)
        IN  /\ asked' = Cardinality(offer)
            /\ pending' = pending \ new
            /\ q' = [q EXCEPT ![idx] = {}, ![Flip] = refused \ mixed]
            /\ idx' = Flip
  BY <1>1 DEF Asked
<1>3. conc \in Nat /\ conc' = conc
  BY ConcurrencyBound DEF Visiting, Limited, Request
<1>4. /\ q[idx] \subseteq Hosts /\ new \subseteq Hosts /\ offer = q[idx] \union new
      /\ IsFiniteSet(q[idx]) /\ IsFiniteSet(new) /\ IsFiniteSet(pending)
  <2>1. q[idx] \subseteq Hosts /\ pending \subseteq Hosts /\ new \subseteq pending
    BY DEF Visiting, Queued, Heads
  <2>2. offer = q[idx] \union new
    BY DEF Visiting, Queued
  <2> QED BY <2>1, <2>2, FS_Subset, DistributorAssumption
<1>5. /\ Cardinality(q[idx]) \in Nat /\ Cardinality(new) \in Nat
      /\ Cardinality(new) <= 2 * conc - Cardinality(q[idx])
  <2>1. Cardinality(q[idx]) \in Nat /\ Cardinality(new) \in Nat /\ Cardinality(pending) \in Nat
    BY <1>4, FS_CardinalityType
  <2>2. Cardinality(new) = Least(2 * conc - Cardinality(q[idx]), Cardinality(pending))
    BY DEF Heads, Missing
  <2> QED BY <1>3, <2>1, <2>2 DEF Least
<1>6. Cardinality(offer) \in Nat /\ Cardinality(offer) <= 2 * conc
  <2>1. /\ Cardinality(q[idx] \intersect new) \in Nat /\ IsFiniteSet(offer)
        /\ Cardinality(offer) = Cardinality(q[idx]) + Cardinality(new)
                                  - Cardinality(q[idx] \intersect new)
    BY <1>4, FS_Union, FS_Intersection, FS_CardinalityType
  <2> QED BY <1>3, <1>5, <2>1, FS_CardinalityType
<1>7. Flip \in {0, 1} /\ Flip # idx /\ 1 - Flip = idx
  BY DEF Flip, Visiting, Queued
<1>8. /\ q' \in [{0, 1} -> SUBSET Hosts]
      /\ q'[idx] = {} /\ q'[Flip] \subseteq new
  <2> DEFINE refused == offer \ Returned(got)
             mixed   == Mixed(refused, new)
  <2>1. refused \ mixed \subseteq new
    BY <1>4 DEF Mixed
  <2>2. q' = [q EXCEPT ![idx] = {}, ![Flip] = refused \ mixed]
    BY <1>2
  <2>3. q \in [{0, 1} -> SUBSET Hosts] /\ idx \in {0, 1}
    BY DEF Visiting, Queued
  <2> HIDE DEF refused, mixed, offer
  <2>4. refused \ mixed \subseteq Hosts
    BY <1>4, <2>1
  <2> QED BY <1>7, <2>1, <2>2, <2>3, <2>4
<1>9. Cardinality(q'[Flip]) <= 2 * conc
  <2>1. Cardinality(q'[Flip]) \in Nat /\ Cardinality(q'[Flip]) <= Cardinality(new)
    BY <1>4, <1>8, FS_Subset, FS_CardinalityType
  <2> QED BY <1>3, <1>5, <2>1
<1>10. pending' \subseteq Hosts
  BY <1>2 DEF Visiting, Queued
<1> QED BY <1>2, <1>3, <1>6, <1>7, <1>8, <1>9, <1>10 DEF Queued

LEMMA StepLimitInv == ASSUME LimitInv, [Next]_vars PROVE LimitInv'
<1>0. CASE UNCHANGED vars
  BY <1>0 DEF vars, slurm, known, visit, LimitInv, Limited, Visiting, Queued
<1>1. CASE Load
  <2>1. CASE UNCHANGED known /\ pc' # "visit" /\ pc' \notin {"alloc", "mix"}
    BY <1>1, <2>1 DEF Load, slurm, known, visit, LimitInv, Limited
  <2>2. CASE \E order \in Orders[table] : Go("jobs") /\ Adopt(Tables[table], order)
    <3>1. PICK order : Adopt(Tables[table], order)
      BY <2>2
    <3>2. info' = [p \in Partitions |-> IF p \in Range(order) THEN Tables[table][p] ELSE info[p]]
      BY <3>1 DEF Adopt
    <3>3. Limited'
      BY <3>2, DistributorAssumption DEF LimitInv, Limited
    <3>4. pc' = "jobs" /\ todo' = todo /\ table' = table /\ pc = "load"
      BY <1>1, <2>2 DEF Go, Load, slurm
    <3> QED BY <3>3, <3>4 DEF LimitInv
  <2> QED BY <1>1, <2>1, <2>2 DEF Load, Go, Die
<1>2. CASE CountJobs
  <2>1. table' = table /\ info' = info
    BY <1>2 DEF CountJobs, Assign
  <2>2. \/ pc' \in {"load", "done", "dead"} /\ todo' \in {{}, todo}
        \/ pc' = "visit" /\ todo' \subseteq {p \in Partitions : info[p] # None}
    BY <1>2 DEF CountJobs, Assign, Go, Die
  <2>3. todo = {}
    BY <1>2 DEF CountJobs, LimitInv
  <2> QED BY <2>1, <2>2, <2>3 DEF LimitInv, Limited
<1>3. CASE Visit
  <2>1. PICK p \in todo :
          /\ todo' = todo \ {p} /\ part' = p
          /\ conc' = Concurrency(info[p].max_nodes)
          /\ IF conc' = 0 THEN Die("division") ELSE Go("alloc")
          /\ pending' = Tasks(p)
    BY <1>3 DEF Visit
  <2>2. /\ q' = NoQueue /\ idx' = 0 /\ asked' = 0 /\ info' = info /\ table' = table
        /\ pc = "visit"
    BY <1>3 DEF Visit, slurm, known
  <2>3. p \in Partitions /\ info[p] # None /\ info[p].max_nodes \in Nat
    BY <2>1, <2>2 DEF LimitInv, Limited
  <2>4. conc' \in Nat
    BY <2>1, <2>3, ConcurrencyBound
  <2>5. Queued'
    <3>1. pending' \subseteq Hosts
      BY <2>1 DEF Tasks
    <3>2. q' = [i \in {0, 1} |-> {}]
      BY <2>2 DEF NoQueue
    <3> QED BY <2>2, <2>4, <3>1, <3>2, FS_EmptySet DEF Queued
  <2>6. Visiting'
    BY <2>1, <2>2, <2>3, <2>4, <2>5 DEF Visiting
  <2>7. pc' \in {"alloc", "dead"}
    BY <2>1 DEF Die, Go
  <2> QED BY <2>1, <2>2, <2>6, <2>7 DEF LimitInv, Limited
<1>4. CASE Request
  <2>1. /\ part' = part /\ conc' = conc /\ info' = info /\ table' = table /\ todo' = todo
        /\ pc = "alloc"
    BY <1>4 DEF Request, slurm, known
  <2>2. pc' \in {"alloc", "dead"}
    BY <1>4 DEF Request, Die, Go
  <2>3. asked' \in Nat /\ asked' <= 2 * conc /\ Queued'
    BY <1>4, <2>1, RequestKeepsQueue DEF LimitInv
  <2> QED BY <2>1, <2>2, <2>3 DEF LimitInv, Limited, Visiting
<1>5. CASE StartMix
  BY <1>5 DEF StartMix, Go, slurm, known, LimitInv, Limited, Visiting, Queued
<1>6. CASE RequestMix
  <2>1. /\ part' = part /\ conc' = conc /\ info' = info /\ table' = table /\ todo' = todo
        /\ pc = "mix" /\ asked' = 2 * conc
        /\ q' = q /\ idx' = idx /\ pending' = pending
    BY <1>6 DEF RequestMix, Asked, slurm, known
  <2>2. pc' \in {"visit", "mix", "dead"}
    BY <1>6 DEF RequestMix, Die, Go
  <2>3. conc \in Nat
    BY <2>1, ConcurrencyBound DEF LimitInv, Visiting, Limited
  <2> QED BY <2>1, <2>2, <2>3 DEF LimitInv, Limited, Visiting, Queued
<1>7. CASE EndRound
  BY <1>7 DEF EndRound, Go, slurm, known, LimitInv, Limited
<1>8. CASE Reconfigure
  <2>1. table' \in 1..Len(Tables)
    BY <1>8, DistributorAssumption DEF Reconfigure, LimitInv
  <2> QED BY <1>8, <2>1 DEF Reconfigure, known, visit, LimitInv, Limited, Visiting, Queued
<1>9. CASE LoseConn
  BY <1>9 DEF LoseConn, Die, slurm, known, LimitInv, Limited
<1> QED BY <1>0, <1>1, <1>2, <1>3, <1>4, <1>5, <1>6, <1>7, <1>8, <1>9 DEF Next, Run

(* No request asks for more than double the concurrency, nor for more than its *)
(* partition allows to one job (worker.cpp:1485-1560, README.md on the         *)
(* distributor).                                                               *)
THEOREM RequestsLimited == Spec => []AtMostDouble
<1>1. Init => LimitInv
  BY DistributorAssumption DEF Init, LimitInv, Limited
<1>2. LimitInv /\ [Next]_vars => LimitInv'
  BY StepLimitInv
<1>3. LimitInv => AtMostDouble
  <2> SUFFICES ASSUME LimitInv, pc \in {"alloc", "mix"}
               PROVE  /\ asked <= 2 * Concurrent
                      /\ info[part].max_nodes \notin {0, Unlimited} =>
                           asked <= info[part].max_nodes
    BY DEF AtMostDouble
  <2>1. info[part].max_nodes \in Nat /\ conc = Concurrency(info[part].max_nodes)
        /\ asked \in Nat /\ asked <= 2 * conc
    BY DEF LimitInv, Limited, Visiting
  <2>2. /\ conc \in Nat /\ conc <= Concurrent
        /\ info[part].max_nodes \notin {0, Unlimited} => 2 * conc <= info[part].max_nodes
    BY <2>1, ConcurrencyBound
  <2> QED BY <2>1, <2>2, DistributorAssumption
<1> QED BY <1>1, <1>2, <1>3, PTL DEF Spec
-----------------------------------------------------------------------------
(* Lists.                                                                      *)

LEMMA NamesType ==
  ASSUME ListsRead, NEW l \in Lists
  PROVE  NamesIn(l) \in Seq(Hosts) /\ Range(NamesIn(l)) \subseteq Hosts
<1> DEFINE split == SplitNodeString(l.text, TRUE)
<1>1. l.hosts \in Seq(Hosts)
  BY ListsAssumption
<1>2. Verdict(l) = split.verdict /\ NamesIn(l) = split.names
  BY DEF Verdict, NamesIn, Reading
<1>3. split.verdict = "throws" => split.names = <<>>
  BY DEF SplitNodeString
<1>4. NamesIn(l) \in Seq(Hosts)
  <2>1. Verdict(l) = "throws" => NamesIn(l) = <<>>
    BY <1>2, <1>3
  <2>2. Verdict(l) # "throws" => NamesIn(l) = l.hosts
    BY DEF ListsRead
  <2>3. <<>> \in Seq(Hosts)
    OBVIOUS
  <2> HIDE DEF split
  <2> QED BY <1>1, <2>1, <2>2, <2>3
<1> QED BY <1>4 DEF Range

LEMMA PartitionList ==
  ASSUME NEW t \in 1..Len(Tables), NEW p \in Partitions
  PROVE  Tables[t][p].nodes \in Lists /\ Range(Tables[t][p].nodes.hosts) \subseteq Hosts
<1>1. Tables[t][p].nodes \in Lists
  BY DEF Lists, Range
<1>2. Tables[t][p].nodes.hosts \in Seq(Hosts)
  BY <1>1, ListsAssumption
<1> QED BY <1>1, <1>2 DEF Range

LEMMA ReturnedType ==
  ASSUME ListsRead, NEW got \in SUBSET Hosts
  PROVE  Returned(got) \subseteq Hosts /\ (~Unreadable(got) => Returned(got) = got)
<1>1. CASE got = {}
  BY <1>1 DEF Returned
<1>2. CASE got # {}
  <2>1. Written[got] \in Lists /\ Range(Written[got].hosts) = got
    BY <1>2, ListsAssumption DEF Lists
  <2>2. Range(NamesIn(Written[got])) \subseteq Hosts
    BY <2>1, NamesType
  <2>3. Verdict(Written[got]) # "throws" => NamesIn(Written[got]) = Written[got].hosts
    BY <2>1 DEF ListsRead
  <2> QED BY <1>2, <2>1, <2>2, <2>3 DEF Returned, Unreadable
<1> QED BY <1>1, <1>2

LEMMA MentionsType ==
  ASSUME NEW n, NEW seq \in Seq(Hosts)
  PROVE  Mentions(n, seq) \in Nat
<1> DEFINE at == {i \in DOMAIN seq : seq[i] = n}
<1>1. DOMAIN seq = 1..Len(seq) /\ Len(seq) \in Nat
  OBVIOUS
<1>2. IsFiniteSet(1..Len(seq)) /\ at \in SUBSET (1..Len(seq))
  BY <1>1, FS_Interval
<1>3. IsFiniteSet(at)
  BY <1>2, FS_Subset
<1> QED BY <1>3, FS_CardinalityType DEF Mentions

-----------------------------------------------------------------------------
(* What jobs use.                                                              *)

ByNames(n, jobs, g) ==
  [s \in SUBSET jobs |-> IF s = {} THEN 0
                         ELSE Mentions(n, NamesIn(Member(s))) + g[s \ {Member(s)}]]
ByHosts(n, jobs, g) ==
  [s \in SUBSET jobs |-> IF s = {} THEN 0
                         ELSE Mentions(n, Member(s).hosts) + g[s \ {Member(s)}]]

LEMMA HostsSum ==
  ASSUME NEW n \in Hosts, NEW jobs \in SUBSET JobLists
  PROVE  MapThenSumSet(LAMBDA j : Mentions(n, j.hosts), jobs) \in Nat
<1> DEFINE f == [j \in jobs |-> Mentions(n, j.hosts)]
           r == CHOOSE g : g = ByHosts(n, jobs, g)
<1>1. \A j \in jobs : j \in Lists /\ Mentions(n, j.hosts) \in Nat
  BY ListsAssumption, MentionsType DEF Lists
<1>2. IsFiniteSet(jobs)
  BY DistributorAssumption, FS_Subset
<1>3. \A g : ByHosts(n, jobs, g) = Adding(f, jobs, g)
  BY MemberOf DEF ByHosts, Adding
<1>4. PICK g \in [SUBSET jobs -> Nat] : g = Adding(f, jobs, g)
  <2> HIDE DEF f
  <2>1. \A x \in jobs : f[x] \in Nat
    BY <1>1 DEF f
  <2> QED BY <1>2, <2>1, SumsExist
<1>5. r = Adding(f, jobs, r)
  <2>1. g = ByHosts(n, jobs, g)
    BY <1>3, <1>4
  <2>2. r = ByHosts(n, jobs, r)
    BY <2>1
  <2> QED BY <1>3, <2>2
<1>6. r = g
  <2> HIDE DEF f, r
  <2> QED BY <1>2, <1>4, <1>5, SumsAgree
<1>7. MapThenSumSet(LAMBDA j : Mentions(n, j.hosts), jobs) = r[jobs]
  BY DEF MapThenSumSet, MapThenFoldSet, ByHosts, Member
<1> QED BY <1>4, <1>6, <1>7

LEMMA NamesSum ==
  ASSUME ListsRead, NEW n \in Hosts, NEW jobs \in SUBSET JobLists,
         \A j \in jobs : Verdict(j) # "throws"
  PROVE  MapThenSumSet(LAMBDA j : Mentions(n, NamesIn(j)), jobs)
           = MapThenSumSet(LAMBDA j : Mentions(n, j.hosts), jobs)
<1>1. \A j \in jobs : NamesIn(j) = j.hosts
  BY DEF ListsRead, Lists
<1>2. \A g : ByNames(n, jobs, g) = ByHosts(n, jobs, g)
  BY <1>1, MemberOf DEF ByNames, ByHosts
<1>3. (CHOOSE g : g = ByNames(n, jobs, g)) = (CHOOSE g : g = ByHosts(n, jobs, g))
  BY <1>2
<1>4. MapThenSumSet(LAMBDA j : Mentions(n, NamesIn(j)), jobs)
        = (CHOOSE g : g = ByNames(n, jobs, g))[jobs]
  BY DEF MapThenSumSet, MapThenFoldSet, ByNames, Member
<1>5. MapThenSumSet(LAMBDA j : Mentions(n, j.hosts), jobs)
        = (CHOOSE g : g = ByHosts(n, jobs, g))[jobs]
  BY DEF MapThenSumSet, MapThenFoldSet, ByHosts, Member
<1> QED BY <1>3, <1>4, <1>5
-----------------------------------------------------------------------------
(* Types.                                                                      *)

LEMMA BumpedType ==
  ASSUME NEW f \in [Hosts -> 0..2], NEW s
  PROVE  /\ Bumped(f, s) \in [Hosts -> 0..2]
         /\ \A n \in Hosts \ s : Bumped(f, s)[n] = f[n]
         /\ \A n \in Hosts \intersect s : Bumped(f, s)[n] = IF f[n] = 2 THEN 2 ELSE f[n] + 1
<1>1. \A n \in Hosts : f[n] \in 0..2
  OBVIOUS
<1> QED BY <1>1 DEF Bumped, Least

LEMMA ConcurrencyType ==
  ASSUME LimitInv, NEW p \in todo, pc = "visit"
  PROVE  p \in Partitions /\ Concurrency(info[p].max_nodes) \in 0..Concurrent
<1>1. p \in Partitions /\ info[p] # None
  BY DEF LimitInv
<1>2. info[p].max_nodes \in Nat
  BY <1>1 DEF LimitInv, Limited
<1>3. Concurrency(info[p].max_nodes) \in Nat /\ Concurrency(info[p].max_nodes) <= Concurrent
  BY <1>2, ConcurrencyBound
<1> QED BY <1>1, <1>3, DistributorAssumption

LEMMA AllocationType ==
  ASSUME LimitInv, pc \in {"alloc", "mix"}, NEW excluded, NEW max,
         NEW got \in Allocations(excluded, max)
  PROVE  got \in SUBSET Hosts /\ got \intersect excluded = {}
<1>1. part \in Partitions /\ table \in 1..Len(Tables)
  BY DEF LimitInv, Visiting
<1> QED BY <1>1, PartitionList DEF Allocations

LEMMA LoadType ==
  ASSUME ListsRead, TypeOK, LimitInv, Load
  PROVE  TypeOK'
<1>1. round' \in 0..MaxRounds
  BY DistributorAssumption DEF Load, TypeOK
<1>2. CASE UNCHANGED known
  BY <1>1, <1>2 DEF Load, TypeOK, Go, Die, slurm, known, visit, history
<1>3. CASE \E order \in Orders[table] : Go("jobs") /\ Adopt(Tables[table], order)
  <2>1. PICK order \in Orders[table] : Go("jobs") /\ Adopt(Tables[table], order)
    BY <1>3
  <2>2. table \in DOMAIN Tables /\ table \in 1..Len(Tables)
    BY DistributorAssumption DEF TypeOK
  <2>3. order \in [1..Cardinality({p \in Partitions : Usable(Tables[table][p])}) -> Partitions]
    BY <2>1, <2>2 DEF Orders, SetToSeqs
  <2> DEFINE listed == [p \in Range(order) |-> Range(NamesIn(Tables[table][p].nodes))]
  <2>4. Range(order) \subseteq Partitions
    BY <2>3 DEF Range
  <2>5. \A p \in Range(order) : listed[p] \subseteq Hosts
    BY <2>2, <2>4, PartitionList, NamesType
  <2>6. nodeset' \subseteq Hosts
    <3>1. nodeset' = nodeset \union UNION Range(listed)
      BY <2>1 DEF Adopt
    <3>2. UNION Range(listed) \subseteq Hosts
      BY <2>5 DEF Range
    <3> QED BY <3>1, <3>2 DEF TypeOK
  <2>7. home' \in [Hosts -> Partitions \union {None, Nobody}]
    <3> DEFINE at(n) == {i \in DOMAIN order : n \in listed[order[i]]}
    <3>1. home' = [n \in Hosts |-> IF home[n] # None \/ at(n) = {} THEN home[n]
                                   ELSE order[Min(at(n))]]
      BY <2>1 DEF Adopt
    <3>2. ASSUME NEW n \in Hosts, at(n) # {} PROVE order[Min(at(n))] \in Partitions
      <4>1. at(n) \in SUBSET Nat
        BY <2>3
      <4> HIDE DEF at
      <4>2. Min(at(n)) \in at(n)
        BY <3>2, <4>1, MinOf
      <4> QED BY <2>3, <4>2 DEF at
    <3>3. \A n \in Hosts : home[n] \in Partitions \union {None, Nobody}
      BY DEF TypeOK
    <3> HIDE DEF at
    <3> QED BY <3>1, <3>2, <3>3
  <2>8. \A p \in Partitions : info'[p] # None => \E t \in DOMAIN Tables : info'[p] = Tables[t][p]
    <3>1. info' = [p \in Partitions |-> IF p \in Range(order) THEN Tables[table][p] ELSE info[p]]
      BY <2>1 DEF Adopt
    <3> QED BY <2>2, <3>1 DEF TypeOK
  <2> QED BY <1>1, <2>1, <2>6, <2>7, <2>8 DEF Load, TypeOK, Go, slurm, visit, history
<1> QED BY <1>2, <1>3 DEF Load

(* A list that cannot be read ends the process.                                *)
Unread == pc = "dead" /\ cause = "list"

LEMMA CountType ==
  ASSUME ListsRead, TypeOK, CountJobs
  PROVE  TypeOK' /\ (usage = ranOn => usage' = ranOn' \/ Unread')
<1>1. PICK jobs \in SUBSET JobLists :
        /\ ranOn' = [n \in Hosts |-> ranOn[n]
                                   + MapThenSumSet(LAMBDA j : Mentions(n, j.hosts), jobs)]
        /\ IF \E j \in jobs : Verdict(j) = "throws"
           THEN Die("list") /\ UNCHANGED <<usage, home, todo>>
           ELSE Assign(Counted(jobs))
  BY DEF CountJobs
<1> DEFINE sum(n) == MapThenSumSet(LAMBDA j : Mentions(n, j.hosts), jobs)
<1>2. \A n \in Hosts : sum(n) \in Nat
  BY HostsSum
<1>3. ranOn' \in [Hosts -> Nat]
  <2> HIDE DEF sum
  <2>1. ranOn' = [n \in Hosts |-> ranOn[n] + sum(n)]
    BY <1>1 DEF sum
  <2> QED BY <1>2, <2>1 DEF TypeOK
<1>4. CASE \E j \in jobs : Verdict(j) = "throws"
  BY <1>1, <1>3, <1>4 DEF CountJobs, Die, TypeOK, Unread, visit, history
<1>5. CASE \A j \in jobs : Verdict(j) # "throws"
  <2>1. Counted(jobs) = [n \in Hosts |-> usage[n] + sum(n)]
    BY <1>5, NamesSum DEF Counted
  <2>2. Assign(Counted(jobs))
    BY <1>1, <1>5
  <2>3. usage' = [n \in Hosts |-> usage[n] + sum(n)]
    BY <2>1, <2>2 DEF Assign
  <2>4. ranOn' = [n \in Hosts |-> ranOn[n] + sum(n)]
    BY <1>1
  <2> HIDE DEF sum
  <2>5. usage' \in [Hosts -> Nat]
    BY <1>2, <2>3 DEF TypeOK
  <2>6. home' \in [Hosts -> Partitions \union {None, Nobody}] /\ todo' \subseteq Partitions
    BY <2>2 DEF Assign, TypeOK
  <2>7. pc' \in {"visit", "done", "load"} /\ cause' = cause
    BY <2>2 DEF Assign, Go
  <2>8. usage = ranOn => usage' = ranOn'
    BY <2>3, <2>4
  <2> QED BY <1>3, <2>5, <2>6, <2>7, <2>8 DEF CountJobs, TypeOK, visit, history
<1> QED BY <1>4, <1>5
LEMMA RequestType ==
  ASSUME ListsRead, TypeOK, LimitInv, Request
  PROVE  TypeOK'
<1>0. pc = "alloc" /\ Visiting /\ Limited
  BY DEF Request, LimitInv
<1>1. PICK new \in Heads(Missing) :
        \E got \in Allocations(nodeset \ (q[0] \union q[1] \union new),
                               Cardinality(q[0] \union q[1] \union new)) :
          LET offer   == q[0] \union q[1] \union new
              refused == offer \ Returned(got)
              mixed   == Mixed(refused, new)
          IN  /\ Asked(Cardinality(offer), offer, got)
              /\ IF Unreadable(got) THEN Die("list") ELSE Go("alloc")
              /\ nodemix' = nodemix \union mixed
  BY DEF Request
<1> DEFINE offer == q[0] \union q[1] \union new
<1>2. PICK got :
        /\ Asked(Cardinality(offer), offer, got)
        /\ IF Unreadable(got) THEN Die("list") ELSE Go("alloc")
        /\ nodemix' = nodemix \union Mixed(offer \ Returned(got), new)
  BY <1>1
<1>3. asked' \in Nat /\ Queued'
  BY <1>0, RequestKeepsQueue
<1>4. offer \subseteq Hosts
  BY DEF TypeOK, Heads
<1>5. nodemix' \subseteq Hosts
  BY <1>2, <1>4 DEF Mixed, TypeOK
<1>6. given' \in [Hosts -> 0..2] /\ offered' \in [Hosts -> 0..2]
  BY <1>2, BumpedType DEF Asked, TypeOK
<1>7. pc' \in {"alloc", "dead"} /\ cause' \in {cause, "list"}
  BY <1>0, <1>2 DEF Go, Die
<1> QED BY <1>3, <1>5, <1>6, <1>7 DEF Request, Queued, TypeOK, slurm, known

LEMMA MixType ==
  ASSUME ListsRead, TypeOK, LimitInv, RequestMix
  PROVE  TypeOK'
<1>0. pc = "mix"
  BY DEF RequestMix
<1>1. PICK got \in Allocations(excl, 2 * conc) :
        /\ Asked(2 * conc, Tasks(part) \ excl, got)
        /\ IF Unreadable(got) THEN Die("list")
           ELSE Go(IF Returned(got) = {} THEN "visit" ELSE "mix")
        /\ excl' = excl \union Returned(got)
  BY DEF RequestMix
<1>2. got \in SUBSET Hosts
  BY <1>0, AllocationType
<1>3. excl' \subseteq Hosts
  BY <1>1, <1>2, ReturnedType DEF TypeOK
<1>4. given' \in [Hosts -> 0..2] /\ offered' \in [Hosts -> 0..2]
  BY <1>1, BumpedType DEF Asked, TypeOK
<1>5. pc' \in {"visit", "mix", "dead"} /\ cause' \in {cause, "list"}
  BY <1>0, <1>1 DEF Go, Die
<1>6. asked' \in Nat
  BY <1>1, DistributorAssumption DEF Asked, TypeOK
<1> QED BY <1>3, <1>4, <1>5, <1>6 DEF RequestMix, TypeOK, slurm, known

LEMMA TypeInit == Init => TypeOK
BY DistributorAssumption DEF Init, TypeOK, NoQueue

LEMMA TypeStep ==
  ASSUME ListsRead, TypeOK, LimitInv, [Next]_vars
  PROVE  TypeOK'
<1>0. CASE UNCHANGED vars
  BY <1>0 DEF TypeOK, vars, slurm, known, visit, history
<1>1. CASE Visit
  <2>1. PICK p \in todo :
          /\ todo' = todo \ {p} /\ part' = p
          /\ conc' = Concurrency(info[p].max_nodes)
          /\ IF conc' = 0 THEN Die("division") ELSE Go("alloc")
          /\ pending' = Tasks(p)
    BY <1>1 DEF Visit
  <2>2. p \in Partitions /\ conc' \in 0..Concurrent
    BY <1>1, <2>1, ConcurrencyType DEF Visit
  <2>3. pending' \subseteq Hosts
    BY <2>1 DEF Tasks
  <2>4. pc' \in {"alloc", "dead"} /\ cause' \in {cause, "division"}
    BY <2>1 DEF Go, Die
  <2>5. q' \in [{0, 1} -> SUBSET Hosts]
    BY <1>1 DEF Visit, NoQueue
  <2>6. /\ idx' = 0 /\ nodemix' = {} /\ excl' = {} /\ asked' = 0
        /\ UNCHANGED <<runOnce, first, round, slurm, known, usage, ranOn, history>>
    BY <1>1 DEF Visit
  <2>7. todo' \subseteq Partitions /\ part' \in Partitions \union {None}
    BY <2>1, <2>2 DEF TypeOK
  <2>8. idx' \in {0, 1} /\ nodemix' \subseteq Hosts /\ excl' \subseteq Hosts /\ asked' \in Nat
    BY <2>6
  <2>9. /\ pc' \in {"load", "jobs", "visit", "alloc", "mix", "done", "dead"}
        /\ cause' \in {None, "list", "division", "connection"}
    BY <2>4 DEF TypeOK
  <2>10. /\ runOnce' \in BOOLEAN /\ first' \in BOOLEAN /\ fresh' \in BOOLEAN
         /\ round' \in 0..MaxRounds /\ table' \in 1..Len(Tables)
    BY <2>6 DEF TypeOK, slurm
  <2>11. /\ nodeset' \subseteq Hosts
         /\ home' \in [Hosts -> Partitions \union {None, Nobody}]
         /\ \A r \in Partitions : info'[r] # None => \E t \in DOMAIN Tables : info'[r] = Tables[t][r]
    BY <2>6 DEF TypeOK, known
  <2>12. /\ usage' \in [Hosts -> Nat] /\ ranOn' \in [Hosts -> Nat]
         /\ given' \in [Hosts -> 0..2] /\ offered' \in [Hosts -> 0..2]
    BY <2>6 DEF TypeOK, history
  <2> QED BY <2>2, <2>3, <2>5, <2>7, <2>8, <2>9, <2>10, <2>11, <2>12 DEF TypeOK
<1>2. CASE StartMix
  BY <1>2 DEF StartMix, Go, MixFirst, TypeOK, slurm, known, history
<1>3. CASE EndRound
  <2>1. q' \in [{0, 1} -> SUBSET Hosts]
    BY <1>3 DEF EndRound, NoVisit, NoQueue
  <2>2. given' \in [Hosts -> 0..2] /\ offered' \in [Hosts -> 0..2]
    BY <1>3 DEF EndRound, NoHistory
  <2>3. pc' \in {"load", "done"} /\ cause' = cause
    BY <1>3 DEF EndRound, Go
  <2>4. /\ runOnce' \in BOOLEAN /\ first' \in BOOLEAN /\ fresh' \in BOOLEAN
        /\ round' \in 0..MaxRounds /\ table' \in 1..Len(Tables)
    BY <1>3, DistributorAssumption DEF EndRound, TypeOK, slurm
  <2>5. /\ nodeset' \subseteq Hosts
        /\ home' \in [Hosts -> Partitions \union {None, Nobody}]
        /\ \A p \in Partitions : info'[p] # None => \E t \in DOMAIN Tables : info'[p] = Tables[t][p]
        /\ usage' \in [Hosts -> Nat] /\ ranOn' \in [Hosts -> Nat]
    BY <1>3 DEF EndRound, TypeOK, known
  <2>6. /\ todo' \subseteq Partitions /\ part' \in Partitions \union {None}
        /\ conc' \in 0..Concurrent /\ asked' \in Nat
        /\ pending' \subseteq Hosts /\ nodemix' \subseteq Hosts /\ excl' \subseteq Hosts
        /\ idx' \in {0, 1}
    BY <1>3, DistributorAssumption DEF EndRound, NoVisit, TypeOK
  <2>7. pc' \in {"load", "jobs", "visit", "alloc", "mix", "done", "dead"}
        /\ cause' \in {None, "list", "division", "connection"}
    BY <2>3 DEF TypeOK
  <2> QED BY <2>1, <2>2, <2>4, <2>5, <2>6, <2>7 DEF TypeOK
<1>4. CASE Reconfigure
  <2>1. table' \in 1..Len(Tables)
    BY <1>4, DistributorAssumption DEF Reconfigure, TypeOK
  <2>2. UNCHANGED <<pc, cause, runOnce, first, round, usage, todo, ranOn>>
        /\ UNCHANGED known /\ UNCHANGED visit /\ UNCHANGED history /\ fresh' \in {fresh, TRUE}
    BY <1>4 DEF Reconfigure
  <2>3. /\ pc' \in {"load", "jobs", "visit", "alloc", "mix", "done", "dead"}
        /\ cause' \in {None, "list", "division", "connection"}
        /\ runOnce' \in BOOLEAN /\ first' \in BOOLEAN /\ fresh' \in BOOLEAN
        /\ round' \in 0..MaxRounds
    BY <2>2 DEF TypeOK
  <2>4. /\ nodeset' \subseteq Hosts
        /\ home' \in [Hosts -> Partitions \union {None, Nobody}]
        /\ \A p \in Partitions : info'[p] # None => \E t \in DOMAIN Tables : info'[p] = Tables[t][p]
        /\ usage' \in [Hosts -> Nat] /\ ranOn' \in [Hosts -> Nat]
        /\ given' \in [Hosts -> 0..2] /\ offered' \in [Hosts -> 0..2]
    BY <2>2 DEF TypeOK, known, history
  <2>5. /\ todo' \subseteq Partitions /\ part' \in Partitions \union {None}
        /\ conc' \in 0..Concurrent /\ asked' \in Nat
        /\ pending' \subseteq Hosts /\ nodemix' \subseteq Hosts /\ excl' \subseteq Hosts
        /\ q' \in [{0, 1} -> SUBSET Hosts] /\ idx' \in {0, 1}
    BY <2>2 DEF TypeOK, visit
  <2> QED BY <2>1, <2>2, <2>3, <2>4, <2>5 DEF TypeOK
<1>5. CASE LoseConn
  BY <1>5 DEF LoseConn, Die, TypeOK, slurm, known, visit, history
<1> QED BY <1>0, <1>1, <1>2, <1>3, <1>4, <1>5, LoadType, CountType, RequestType, MixType
        DEF Next, Run
CountInv == TypeOK /\ LimitInv /\ (usage = ranOn \/ Unread)

LEMMA LimitInit == Init => LimitInv
BY DistributorAssumption DEF Init, LimitInv, Limited

LEMMA CountStep ==
  ASSUME ListsRead, CountInv, [Next]_vars
  PROVE  CountInv'
<1>1. TypeOK' /\ LimitInv'
  BY TypeStep, StepLimitInv DEF CountInv
<1>2. CASE CountJobs
  <2>1. usage = ranOn
    BY <1>2 DEF CountJobs, CountInv, Unread
  <2> QED BY <1>1, <1>2, <2>1, CountType DEF CountInv
<1>3. CASE Load \/ Visit \/ Request \/ StartMix \/ RequestMix \/ EndRound \/ LoseConn
  <2>1. UNCHANGED <<usage, ranOn>>
    BY <1>3 DEF Load, Visit, Request, StartMix, RequestMix, EndRound, LoseConn
  <2>2. pc # "dead"
    BY <1>3 DEF Load, Visit, Request, StartMix, RequestMix, EndRound, LoseConn
  <2> QED BY <1>1, <2>1, <2>2 DEF CountInv, Unread
<1>4. CASE Reconfigure \/ UNCHANGED vars
  BY <1>1, <1>4 DEF CountInv, Unread, Reconfigure, vars
<1> QED BY <1>2, <1>3, <1>4 DEF Next, Run

LEMMA Counting == ASSUME ListsRead PROVE Spec => []CountInv
<1>1. Init => CountInv
  BY TypeInit, LimitInit DEF Init, CountInv
<1>2. CountInv /\ [Next]_vars => CountInv'
  BY CountStep
<1> QED BY <1>1, <1>2, PTL DEF Spec

(* Partitions, usage, tasks, queues and histories keep their types, whatever   *)
(* lists name hosts and whatever SLURM reports, allocates or fails to.         *)
THEOREM TypeCorrect == ASSUME ListsRead PROVE Spec => []TypeOK
<1>1. CountInv => TypeOK
  BY DEF CountInv
<1> QED BY <1>1, Counting, PTL

(* The counts by which nodes are chosen are those of the running jobs: every   *)
(* mention of a node in a list that is read counts, once                       *)
(* (worker.cpp:1162-1188).                                                     *)
THEOREM CountsKept == ASSUME ListsRead PROVE Spec => []CountsHosts
<1>1. CountInv => CountsHosts
  BY DEF CountInv, CountsHosts, Unread
<1> QED BY <1>1, Counting, PTL
-----------------------------------------------------------------------------
(* Every node of a task once.                                                  *)

(* Tasks are nodes the distributor knows; before a partition is visited none   *)
(* of its nodes was allocated in this round.                                   *)
RoundInv ==
  /\ \A n \in Hosts : home[n] \in Partitions => n \in nodeset
  /\ pc \in {"load", "jobs"} => todo = {} /\ part = None /\ given = [n \in Hosts |-> 0]
  /\ pc \in {"visit", "alloc", "mix"} => \A p \in todo : \A n \in Tasks(p) : given[n] = 0
  /\ pc \in {"alloc", "mix"} => part \in Partitions \ todo

(* The tasks of the partition that were not allocated yet are those in its     *)
(* queues, each in one of them.  Only the new ones were never offered.         *)
Offered == q[0] \union q[1] \union nodemix
AllocInv ==
  pc = "alloc" =>
    /\ pending \union Offered \subseteq Tasks(part)
    /\ \A n \in Tasks(part) : n \in pending \union Offered <=> given[n] = 0
    /\ \A n \in Offered : offered[n] >= 1
    /\ pending \intersect Offered = {}
    /\ nodemix \intersect (q[0] \union q[1]) = {}
    /\ pending = {} => q[0] \union q[1] = {}

(* In the mix they are those that are not excluded.                            *)
MixInv ==
  pc = "mix" =>
    /\ nodeset \ excl \subseteq Tasks(part)
    /\ \A n \in Tasks(part) : n \notin excl <=> given[n] = 0
    /\ \A n \in nodeset \ excl : offered[n] >= 1

TaskInv == CountInv /\ OncePerRound /\ RoundInv /\ AllocInv /\ MixInv /\ AllTried

LEMMA TasksKnown ==
  ASSUME RoundInv, NEW p \in Partitions
  PROVE  Tasks(p) \subseteq nodeset /\ Tasks(p) \subseteq Hosts
BY DEF RoundInv, Tasks

LEMMA LoadOnce ==
  ASSUME TaskInv, TypeOK', Load
  PROVE  OncePerRound' /\ RoundInv' /\ AllocInv' /\ MixInv' /\ AllTried'
<1>1. /\ pc = "load" /\ pc' \in {"jobs", "dead"}
      /\ UNCHANGED <<usage, todo, part, given>>
  BY DEF Load, Go, Die, visit, history
<1>2. todo = {} /\ part = None /\ given = [n \in Hosts |-> 0]
  BY <1>1 DEF TaskInv, RoundInv
<1>3. \A n \in Hosts : home'[n] \in Partitions => n \in nodeset'
  <2>1. CASE UNCHANGED known
    BY <2>1 DEF TaskInv, RoundInv, known
  <2>2. CASE \E order \in Orders[table] : Adopt(Tables[table], order)
    <3>1. PICK order \in Orders[table] : Adopt(Tables[table], order)
      BY <2>2
    <3> DEFINE listed == [p \in Range(order) |-> Range(NamesIn(Tables[table][p].nodes))]
               at(n)  == {i \in DOMAIN order : n \in listed[order[i]]}
    <3>2. /\ nodeset' = nodeset \union UNION Range(listed)
          /\ home' = [n \in Hosts |-> IF home[n] # None \/ at(n) = {} THEN home[n]
                                      ELSE order[Min(at(n))]]
      BY <3>1 DEF Adopt
    <3>3. ASSUME NEW n \in Hosts, at(n) # {} PROVE n \in nodeset'
      <4>1. PICK i \in DOMAIN order : n \in listed[order[i]]
        BY <3>3
      <4>2. order[i] \in DOMAIN listed
        BY DEF Range
      <4> HIDE DEF listed
      <4>3. listed[order[i]] \in Range(listed)
        BY <4>2 DEF Range
      <4> QED BY <3>2, <4>1, <4>3
    <3>4. \A n \in Hosts : home[n] \in Partitions => n \in nodeset'
      BY <3>2 DEF TaskInv, RoundInv
    <3> HIDE DEF at
    <3> QED BY <3>2, <3>3, <3>4
  <2> QED BY <2>1, <2>2 DEF Load
<1>4. OncePerRound'
  <2>1. nodeset' \subseteq Hosts
    BY DEF TypeOK
  <2>2. \A n \in Hosts : given'[n] = 0
    BY <1>1, <1>2
  <2> QED BY <2>1, <2>2 DEF OncePerRound
<1> QED BY <1>1, <1>2, <1>3, <1>4 DEF RoundInv, AllocInv, MixInv, AllTried
LEMMA CountOnce ==
  ASSUME TaskInv, TypeOK', CountJobs
  PROVE  OncePerRound' /\ RoundInv' /\ AllocInv' /\ MixInv' /\ AllTried'
<1>1. /\ pc = "jobs" /\ pc' \in {"visit", "load", "done", "dead"}
      /\ part' = part /\ given' = given /\ nodeset' = nodeset
      /\ pc' = "load" => todo' = {}
      /\ \A n \in Hosts : home'[n] \in {home[n], Nobody}
  <2>1. CASE Die("list") /\ UNCHANGED <<usage, home, todo>>
    BY <2>1 DEF CountJobs, Die, visit, history
  <2>2. CASE \E jobs \in SUBSET JobLists : Assign(Counted(jobs))
    BY <2>2 DEF CountJobs, Assign, Go, visit, history
  <2> QED BY <2>1, <2>2 DEF CountJobs
<1>2. part = None /\ given = [n \in Hosts |-> 0]
  BY <1>1 DEF TaskInv, RoundInv
<1>3. \A n \in Hosts : home'[n] \in Partitions => n \in nodeset'
  BY <1>1, DistributorAssumption DEF TaskInv, RoundInv
<1>4. \A n \in Hosts : given'[n] = 0
  BY <1>1, <1>2
<1>5. OncePerRound'
  BY <1>4 DEF OncePerRound, TypeOK
<1>6. \A p \in todo' : \A n \in Tasks(p)' : given'[n] = 0
  BY <1>4 DEF Tasks
<1> QED BY <1>1, <1>2, <1>3, <1>5, <1>6 DEF RoundInv, AllocInv, MixInv, AllTried

LEMMA VisitOnce ==
  ASSUME TaskInv, Visit
  PROVE  OncePerRound' /\ RoundInv' /\ AllocInv' /\ MixInv' /\ AllTried'
<1>1. PICK p \in todo : /\ todo' = todo \ {p} /\ part' = p /\ pending' = Tasks(p)
                        /\ pc' \in {"alloc", "dead"}
  BY DEF Visit, Die, Go
<1>2. /\ pc = "visit" /\ UNCHANGED <<nodeset, home, usage, given>>
      /\ q' = NoQueue /\ nodemix' = {}
  BY DEF Visit, known, history
<1>3. p \in Partitions /\ \A m \in todo : \A n \in Tasks(m) : given[n] = 0
  BY <1>2 DEF TaskInv, CountInv, TypeOK, RoundInv
<1>4. \A m : Tasks(m)' = Tasks(m)
  BY <1>2 DEF Tasks
<1>5. Offered' = {}
  BY <1>2 DEF Offered, NoQueue
<1>6. AllocInv'
  BY <1>1, <1>2, <1>3, <1>4, <1>5 DEF AllocInv, Offered
<1>7. RoundInv'
  BY <1>1, <1>2, <1>3, <1>4 DEF TaskInv, RoundInv
<1> QED BY <1>1, <1>2, <1>6, <1>7 DEF TaskInv, OncePerRound, MixInv, AllTried

LEMMA StartMixOnce ==
  ASSUME TaskInv, StartMix
  PROVE  OncePerRound' /\ RoundInv' /\ AllocInv' /\ MixInv' /\ AllTried'
<1>1. /\ pc = "alloc" /\ pc' = "mix" /\ pending = {}
      /\ UNCHANGED <<nodeset, home, usage, todo, part, history>>
      /\ excl' = nodeset \ nodemix
  BY DEF StartMix, Go, MixFirst, known
<1>2. part \in Partitions /\ Tasks(part)' = Tasks(part) /\ Tasks(part) \subseteq nodeset
  BY <1>1, TasksKnown DEF TaskInv, RoundInv, Tasks
<1>3. /\ nodemix \subseteq Tasks(part)
      /\ \A n \in Tasks(part) : n \in nodemix <=> given[n] = 0
      /\ \A n \in nodemix : offered[n] >= 1
  BY <1>1 DEF TaskInv, AllocInv, Offered
<1>4. MixInv'
  BY <1>1, <1>2, <1>3 DEF MixInv, history
<1>5. RoundInv'
  BY <1>1 DEF TaskInv, RoundInv, Tasks, history
<1> QED BY <1>1, <1>4, <1>5 DEF TaskInv, OncePerRound, AllocInv, AllTried, history

LEMMA RequestMixOnce ==
  ASSUME ListsRead, TaskInv, RequestMix
  PROVE  OncePerRound' /\ RoundInv' /\ AllocInv' /\ MixInv' /\ AllTried'
<1>1. PICK got \in Allocations(excl, 2 * conc) :
        /\ Asked(2 * conc, Tasks(part) \ excl, got)
        /\ IF Unreadable(got) THEN Die("list")
           ELSE Go(IF Returned(got) = {} THEN "visit" ELSE "mix")
        /\ excl' = excl \union Returned(got)
  BY DEF RequestMix
<1>2. /\ pc = "mix" /\ UNCHANGED <<nodeset, home, usage, todo, part>>
      /\ TypeOK /\ LimitInv /\ OncePerRound /\ RoundInv /\ MixInv
  BY DEF RequestMix, TaskInv, CountInv, known
<1>3. got \in SUBSET Hosts /\ got \intersect excl = {}
  BY <1>1, <1>2, AllocationType
<1>4. /\ part \in Partitions \ todo /\ todo \subseteq Partitions
      /\ \A p : Tasks(p)' = Tasks(p)
      /\ \A p \in Partitions : Tasks(p) \subseteq nodeset /\ Tasks(p) \subseteq Hosts
  BY <1>2, TasksKnown DEF RoundInv, Tasks, TypeOK
<1>5. /\ given' = Bumped(given, got) /\ given \in [Hosts -> 0..2]
      /\ offered' = Bumped(offered, (Tasks(part) \ excl) \ got) /\ offered \in [Hosts -> 0..2]
  BY <1>1, <1>2 DEF Asked, TypeOK
<1>6. /\ \A n \in Hosts \ got : given'[n] = given[n]
      /\ \A n \in got : given[n] = 0 => given'[n] = 1
      /\ \A n \in got : given'[n] # 0
      /\ \A n \in Hosts : offered[n] >= 1 => offered'[n] >= 1
      /\ \A n \in (Tasks(part) \ excl) \ got : offered[n] >= 1 => offered'[n] = 2
  <2> DEFINE more == (Tasks(part) \ excl) \ got
  <2>1. /\ \A n \in Hosts \ got : given'[n] = given[n]
        /\ \A n \in Hosts \intersect got : given'[n] = IF given[n] = 2 THEN 2 ELSE given[n] + 1
    BY <1>5, BumpedType
  <2>2. /\ \A n \in Hosts \ more : offered'[n] = offered[n]
        /\ \A n \in Hosts \intersect more :
             offered'[n] = IF offered[n] = 2 THEN 2 ELSE offered[n] + 1
    BY <1>5, BumpedType
  <2>3. more \subseteq Hosts /\ \A n \in Hosts : given[n] \in 0..2 /\ offered[n] \in 0..2
    BY <1>4, <1>5
  <2> HIDE DEF more
  <2>4. /\ \A n \in got : given[n] = 0 => given'[n] = 1
        /\ \A n \in got : given'[n] # 0
    BY <1>3, <2>1, <2>3
  <2>5. /\ \A n \in Hosts : offered[n] >= 1 => offered'[n] >= 1
        /\ \A n \in more : offered[n] >= 1 => offered'[n] = 2
    BY <2>2, <2>3
  <2> QED BY <2>1, <2>4, <2>5 DEF more
<1>7. /\ nodeset \ excl \subseteq Tasks(part)
      /\ \A n \in Tasks(part) : n \notin excl <=> given[n] = 0
      /\ \A n \in nodeset \ excl : offered[n] >= 1
  BY <1>2 DEF MixInv
<1>8. OncePerRound'
  <2> SUFFICES ASSUME NEW n \in nodeset PROVE given'[n] <= 1
    BY <1>2 DEF OncePerRound
  <2>1. CASE n \in got
    <3>1. given[n] = 0
      BY <1>3, <1>7, <2>1
    <3> QED BY <1>6, <2>1, <3>1
  <2>2. CASE n \notin got
    <3>1. n \in Hosts /\ given[n] <= 1
      BY <1>2 DEF TypeOK, OncePerRound
    <3> QED BY <1>6, <2>2, <3>1
  <2> QED BY <2>1, <2>2
<1>9. \A p \in todo : \A n \in Tasks(p) : given'[n] = 0
  <2> SUFFICES ASSUME NEW p \in todo, NEW n \in Tasks(p) PROVE given'[n] = 0
    OBVIOUS
  <2>1. n \in Hosts /\ n \in nodeset /\ n \notin Tasks(part) /\ given[n] = 0
    BY <1>2, <1>4 DEF RoundInv, Tasks
  <2>2. n \notin got
    BY <1>3, <1>7, <2>1
  <2> QED BY <1>6, <2>1, <2>2
<1>10. RoundInv'
  BY <1>1, <1>2, <1>4, <1>9 DEF RoundInv, Go, Die
<1>11. CASE Unreadable(got)
  <2>1. pc' = "dead"
    BY <1>1, <1>11 DEF Die
  <2> QED BY <1>8, <1>10, <2>1 DEF AllocInv, MixInv, AllTried
<1>12. CASE ~Unreadable(got)
  <2>1. Returned(got) = got
    BY <1>3, <1>12, ReturnedType
  <2>2. CASE got = {}
    <3>1. pc' = "visit"
      BY <1>1, <1>12, <2>1, <2>2 DEF Go
    <3>2. ASSUME NEW n \in Tasks(part) PROVE given'[n] > 0 \/ offered'[n] >= 2
      <4>1. CASE n \in excl
        <5>1. given[n] # 0 /\ given'[n] = given[n] /\ given[n] \in 0..2
          BY <1>4, <1>5, <1>6, <1>7, <2>2, <4>1
        <5> QED BY <5>1
      <4>2. CASE n \notin excl
        <5>1. n \in (Tasks(part) \ excl) \ got /\ offered[n] >= 1
          BY <1>4, <1>7, <2>2, <4>2
        <5>2. offered'[n] = 2
          BY <1>6, <5>1
        <5> QED BY <5>2
      <4> QED BY <4>1, <4>2
    <3>3. AllTried'
      BY <1>2, <1>4, <3>2 DEF AllTried
    <3> QED BY <1>8, <1>10, <3>1, <3>3 DEF AllocInv, MixInv
  <2>3. CASE got # {}
    <3>1. pc' = "mix" /\ excl' = excl \union got
      BY <1>1, <1>2, <1>12, <2>1, <2>3 DEF Go
    <3>2. ASSUME NEW n \in Tasks(part) PROVE n \notin excl' <=> given'[n] = 0
      <4>1. n \in Hosts
        BY <1>4
      <4>2. CASE n \in got
        BY <1>6, <3>1, <4>2
      <4>3. CASE n \notin got
        BY <1>6, <1>7, <3>1, <4>1, <4>3
      <4> QED BY <4>2, <4>3
    <3>3. nodeset \ excl' \subseteq Tasks(part) /\ \A n \in nodeset \ excl' : offered'[n] >= 1
      BY <1>4, <1>6, <1>7, <3>1
    <3>4. MixInv'
      BY <1>2, <1>4, <3>2, <3>3 DEF MixInv
    <3> QED BY <1>8, <1>10, <3>1, <3>4 DEF AllocInv, AllTried
  <2> QED BY <2>2, <2>3
<1> QED BY <1>11, <1>12

LEMMA RequestOnce ==
  ASSUME ListsRead, TaskInv, Request
  PROVE  OncePerRound' /\ RoundInv' /\ AllocInv' /\ MixInv' /\ AllTried'
<1>1. PICK new \in Heads(Missing) :
        \E got \in Allocations(nodeset \ (q[0] \union q[1] \union new),
                               Cardinality(q[0] \union q[1] \union new)) :
          LET offer   == q[0] \union q[1] \union new
              refused == offer \ Returned(got)
              mixed   == Mixed(refused, new)
          IN  /\ Asked(Cardinality(offer), offer, got)
              /\ IF Unreadable(got) THEN Die("list") ELSE Go("alloc")
              /\ pending' = pending \ new
              /\ nodemix' = nodemix \union mixed
              /\ q' = [q EXCEPT ![idx] = {}, ![Flip] = refused \ mixed]
  BY DEF Request
<1> DEFINE offer == q[0] \union q[1] \union new
<1>2. PICK got \in Allocations(nodeset \ offer, Cardinality(offer)) :
        LET refused == offer \ Returned(got)
            mixed   == Mixed(refused, new)
        IN  /\ Asked(Cardinality(offer), offer, got)
            /\ IF Unreadable(got) THEN Die("list") ELSE Go("alloc")
            /\ pending' = pending \ new
            /\ nodemix' = nodemix \union mixed
            /\ q' = [q EXCEPT ![idx] = {}, ![Flip] = refused \ mixed]
  BY <1>1
<1>3. /\ pc = "alloc" /\ UNCHANGED <<nodeset, home, usage, todo, part>>
      /\ TypeOK /\ LimitInv /\ OncePerRound /\ RoundInv /\ AllocInv
  BY DEF Request, TaskInv, CountInv, known
<1>4. got \in SUBSET Hosts /\ got \intersect (nodeset \ offer) = {}
  <2> HIDE DEF offer
  <2> QED BY <1>2, <1>3, AllocationType
<1>5. /\ part \in Partitions \ todo /\ todo \subseteq Partitions
      /\ \A p : Tasks(p)' = Tasks(p)
      /\ \A p \in Partitions : Tasks(p) \subseteq nodeset /\ Tasks(p) \subseteq Hosts
  BY <1>3, TasksKnown DEF RoundInv, Tasks, TypeOK
<1>6. /\ new \subseteq pending
      /\ pending \union Offered \subseteq Tasks(part)
      /\ \A n \in Tasks(part) : n \in pending \union Offered <=> given[n] = 0
      /\ \A n \in Offered : offered[n] >= 1
      /\ pending \intersect Offered = {}
      /\ nodemix \intersect (q[0] \union q[1]) = {}
  BY <1>3 DEF AllocInv, Heads
<1>7. offer \subseteq Tasks(part) /\ offer \intersect nodemix = {} /\ offer \subseteq Hosts
      /\ \A n \in offer : given[n] = 0
  BY <1>5, <1>6 DEF Offered
<1>8. /\ \A n \in Hosts \ got : given'[n] = given[n]
      /\ \A n \in got : given[n] = 0 => given'[n] = 1
      /\ \A n \in got : given'[n] # 0
      /\ \A n \in Hosts : offered[n] >= 1 => offered'[n] >= 1
      /\ \A n \in offer \ got : offered'[n] >= 1
  <2> DEFINE more == offer \ got
  <2>0. /\ given' = Bumped(given, got) /\ given \in [Hosts -> 0..2]
        /\ offered' = Bumped(offered, more) /\ offered \in [Hosts -> 0..2]
    BY <1>2, <1>3 DEF Asked, TypeOK
  <2>1. /\ \A n \in Hosts \ got : given'[n] = given[n]
        /\ \A n \in Hosts \intersect got : given'[n] = IF given[n] = 2 THEN 2 ELSE given[n] + 1
    BY <2>0, BumpedType
  <2>2. more \subseteq Hosts /\ \A n \in Hosts : given[n] \in 0..2 /\ offered[n] \in 0..2
    BY <1>7, <2>0
  <2> HIDE DEF more
  <2>3. /\ \A n \in Hosts \ more : offered'[n] = offered[n]
        /\ \A n \in Hosts \intersect more :
             offered'[n] = IF offered[n] = 2 THEN 2 ELSE offered[n] + 1
    BY <2>0, BumpedType
  <2>4. /\ \A n \in got : given[n] = 0 => given'[n] = 1
        /\ \A n \in got : given'[n] # 0
    BY <1>4, <2>1, <2>2
  <2>5. /\ \A n \in Hosts : offered[n] >= 1 => offered'[n] >= 1
        /\ \A n \in more : offered'[n] >= 1
    BY <2>2, <2>3
  <2> QED BY <2>1, <2>4, <2>5 DEF more
<1>9. OncePerRound'
  <2> SUFFICES ASSUME NEW n \in nodeset PROVE given'[n] <= 1
    BY <1>3 DEF OncePerRound
  <2>1. CASE n \in got
    <3>1. n \in offer
      BY <1>4, <2>1
    <3>2. given[n] = 0
      BY <1>7, <3>1
    <3> QED BY <1>8, <2>1, <3>2
  <2>2. CASE n \notin got
    <3>1. n \in Hosts /\ given[n] <= 1
      BY <1>3 DEF TypeOK, OncePerRound
    <3> QED BY <1>8, <2>2, <3>1
  <2> QED BY <2>1, <2>2
<1>10. \A p \in todo : \A n \in Tasks(p) : given'[n] = 0
  <2> SUFFICES ASSUME NEW p \in todo, NEW n \in Tasks(p) PROVE given'[n] = 0
    OBVIOUS
  <2>1. n \in Hosts /\ n \in nodeset /\ n \notin Tasks(part) /\ given[n] = 0
    BY <1>3, <1>5 DEF RoundInv, Tasks
  <2>2. n \notin got
    BY <1>4, <1>7, <2>1
  <2> QED BY <1>8, <2>1, <2>2
<1>11. RoundInv'
  BY <1>2, <1>3, <1>5, <1>10 DEF RoundInv, Go, Die
<1>12. CASE Unreadable(got)
  <2>1. pc' = "dead"
    BY <1>2, <1>12 DEF Die
  <2> QED BY <1>9, <1>11, <2>1 DEF AllocInv, MixInv, AllTried
<1>13. CASE ~Unreadable(got)
  <2> DEFINE refused == offer \ got
             mixed   == Mixed(refused, new)
  <2>1. Returned(got) = got /\ pc' = "alloc"
    BY <1>2, <1>3, <1>4, <1>13, ReturnedType DEF Go
  <2>2. /\ pending' = pending \ new
        /\ nodemix' = nodemix \union mixed
        /\ q' = [q EXCEPT ![idx] = {}, ![Flip] = refused \ mixed]
    BY <1>2, <2>1
  <2>3. mixed \subseteq refused /\ (new = pending => mixed = refused)
    BY DEF Mixed
  <2>4. q'[0] \union q'[1] = refused \ mixed
    <3>1. q \in [{0, 1} -> SUBSET Hosts] /\ idx \in {0, 1} /\ Flip \in {0, 1} /\ Flip = 1 - idx
      BY <1>3 DEF TypeOK, Flip
    <3> HIDE DEF refused, mixed
    <3>2. q'[idx] = {} /\ q'[1 - idx] = refused \ mixed
      BY <2>2, <3>1
    <3> QED BY <3>1, <3>2
  <2>5. Offered' = refused \union nodemix
    BY <2>2, <2>3, <2>4 DEF Offered
  <2>6. refused \subseteq offer /\ refused \intersect got = {} /\ offer \subseteq refused \union got
    OBVIOUS
  <2>7. offer \subseteq new \union Offered /\ new \subseteq offer /\ Offered \subseteq offer \union nodemix
    BY DEF Offered
  <2> HIDE DEF refused, mixed, offer
  <2>8. pending' \union Offered' \subseteq Tasks(part)
    <3>1. nodemix \subseteq Tasks(part) /\ pending \subseteq Tasks(part)
      BY <1>6 DEF Offered
    <3> QED BY <1>7, <2>2, <2>5, <2>6, <3>1
  <2>9. ASSUME NEW n \in Tasks(part)
        PROVE  n \in pending' \union Offered' <=> given'[n] = 0
    <3>1. n \in Hosts /\ n \in nodeset
      BY <1>5
    <3>2. CASE n \in got
      <4>1. n \in offer
        BY <1>4, <3>1, <3>2
      <4>2. n \notin pending' /\ n \notin Offered'
        BY <1>6, <1>7, <2>2, <2>5, <2>6, <2>7, <3>2, <4>1
      <4> QED BY <1>8, <3>2, <4>2
    <3>3. CASE n \notin got
      <4>1. n \in pending' \union Offered' <=> n \in pending \union Offered
        BY <1>6, <2>2, <2>5, <2>6, <2>7, <3>3 DEF Offered
      <4> QED BY <1>6, <1>8, <3>1, <3>3, <4>1
    <3> QED BY <3>2, <3>3
  <2>10. \A n \in Offered' : offered'[n] >= 1
    <3>1. refused = offer \ got
      BY <2>6
    <3>2. \A n \in nodemix : offered[n] >= 1 /\ n \in Hosts
      BY <1>3, <1>6 DEF Offered, TypeOK
    <3> QED BY <1>8, <2>5, <3>1, <3>2
  <2>11. pending' \intersect Offered' = {}
    <3>1. pending \intersect nodemix = {}
      BY <1>6 DEF Offered
    <3> QED BY <1>6, <2>2, <2>5, <2>6, <2>7, <3>1
  <2>12. nodemix' \intersect (q'[0] \union q'[1]) = {}
    BY <1>7, <2>2, <2>3, <2>4, <2>6
  <2>13. pending' = {} => q'[0] \union q'[1] = {}
    BY <1>6, <2>2, <2>3, <2>4
  <2>14. AllocInv'
    BY <1>3, <1>5, <2>8, <2>9, <2>10, <2>11, <2>12, <2>13 DEF AllocInv
  <2> QED BY <1>9, <1>11, <2>1, <2>14 DEF MixInv, AllTried
<1> QED BY <1>12, <1>13

LEMMA TaskStep ==
  ASSUME ListsRead, TaskInv, [Next]_vars
  PROVE  TaskInv'
<1>0. CountInv' /\ TypeOK'
  <2>1. CountInv'
    BY CountStep DEF TaskInv
  <2> QED BY <2>1 DEF CountInv
<1>1. CASE EndRound
  <2>1. /\ pc = "visit" /\ todo = {} /\ UNCHANGED <<todo, known, usage>>
        /\ pc' \in {"load", "done"} /\ part' = None
        /\ given' = [n \in Hosts |-> 0]
    BY <1>1 DEF EndRound, Go, NoVisit, NoHistory
  <2>2. OncePerRound'
    BY <1>0, <2>1 DEF OncePerRound, TypeOK
  <2>3. RoundInv'
    BY <2>1 DEF TaskInv, RoundInv, known
  <2> QED BY <1>0, <2>1, <2>2, <2>3 DEF TaskInv, AllocInv, MixInv, AllTried
<1>2. CASE LoseConn
  <2>1. pc' = "dead" /\ UNCHANGED <<known, usage, visit, history>>
    BY <1>2 DEF LoseConn, Die
  <2>2. RoundInv' /\ OncePerRound'
    BY <2>1 DEF TaskInv, RoundInv, OncePerRound, known, history
  <2> QED BY <1>0, <2>1, <2>2 DEF TaskInv, AllocInv, MixInv, AllTried
<1>3. CASE Reconfigure \/ UNCHANGED vars
  <2>1. UNCHANGED <<pc, known, usage, todo, visit, history>>
    BY <1>3 DEF Reconfigure, vars
  <2>2. \A p : Tasks(p)' = Tasks(p)
    BY <2>1 DEF Tasks, known
  <2>3. RoundInv' /\ OncePerRound'
    BY <2>1, <2>2 DEF TaskInv, RoundInv, OncePerRound, known, visit, history
  <2>4. AllocInv' /\ MixInv' /\ AllTried'
    BY <2>1, <2>2 DEF TaskInv, AllocInv, MixInv, AllTried, Offered, known, visit, history
  <2> QED BY <1>0, <2>3, <2>4 DEF TaskInv
<1> QED BY <1>0, <1>1, <1>2, <1>3, LoadOnce, CountOnce, VisitOnce, RequestOnce, StartMixOnce,
           RequestMixOnce DEF Next, Run, TaskInv

LEMMA Tasking == ASSUME ListsRead PROVE Spec => []TaskInv
<1>1. Init => TaskInv
  <2> SUFFICES ASSUME Init PROVE TaskInv
    OBVIOUS
  <2>1. CountInv
    BY TypeInit, LimitInit DEF Init, CountInv
  <2>2. OncePerRound /\ RoundInv
    BY DistributorAssumption DEF Init, OncePerRound, RoundInv
  <2> QED BY <2>1, <2>2 DEF Init, TaskInv, AllocInv, MixInv, AllTried
<1>2. TaskInv /\ [Next]_vars => TaskInv'
  BY TaskStep
<1> QED BY <1>1, <1>2, PTL DEF Spec

(* No node gets a second scraper job in a round: what an allocation returns is *)
(* in no queue and in no mixset of that round any more, and the partitions a   *)
(* node is listed in share one task of it (worker.cpp:1499-1560).              *)
THEOREM OnceEach == ASSUME ListsRead PROVE Spec => []OncePerRound
<1>1. TaskInv => OncePerRound
  BY DEF TaskInv
<1> QED BY <1>1, Tasking, PTL

(* A partition is left only when each of its tasks was allocated or refused    *)
(* twice: what stays in the queues when the tasks are used up is put into the  *)
(* mixset (worker.cpp:1531-1545).                                              *)
THEOREM TasksTried == ASSUME ListsRead PROVE Spec => []AllTried
<1>1. TaskInv => AllTried
  BY DEF TaskInv
<1> QED BY <1>1, Tasking, PTL
=============================================================================
