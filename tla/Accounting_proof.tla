--------------------------- MODULE Accounting_proof ---------------------------
(***************************************************************************)
(* Every job that ended before the current window is in the database or in *)
(* a window that was abandoned, no reading is stored twice, and no scraper *)
(* speaks of a job that the database does not know: for every number of    *)
(* jobs, scrapers, nodes, rounds and faults.                               *)
(***************************************************************************)
EXTENDS Accounting, SequenceTheorems, TLAPS

-----------------------------------------------------------------------------
(* The invariant.                                                          *)

(* Nothing happens after now.                                              *)
TimesInv ==
  /\ \A j \in Jobs : job[j].st # "pending" => job[j].start <= now
  /\ \A j \in Jobs : job[j].st = "ended" => job[j].start <= job[j].end /\ job[j].end <= now
  /\ \A w \in Sources : lastfetch[w] <= now

(* The log holds groups that were sent, of jobs that ran.                  *)
SentInv ==
  /\ \A i \in 1 .. Len(log) : log[i] \in Scrapers /\ probe[log[i]].st = "sent"
  /\ \A s \in Scrapers : probe[s].st # "idle" => job[probe[s].job].st # "pending"

TInv == TypeOK /\ TimesInv /\ SentInv

(* What the server itself stores are the final figures of a job.           *)
RowsInv ==
  \A j \in Jobs : \A i \in 1 .. Len(measurements[j]) :
    measurements[j][i].source \in Roles =>
      job[j].st = "ended" /\ measurements[j][i].tot = Total(j)

(* Before an import the window continues where the last one of its source  *)
(* ended, unless the renewal has failed.                                   *)
Settled(j) == Accounted(j) \/ Lost(j)
Covered(t) == \A j \in Jobs : job[j].st = "ended" /\ job[j].end < t => Settled(j)
WindowInv ==
  /\ \A r \in Roles : wpc # "import" \/ r # role => Covered(lastfetch[r])
  /\ wpc = "import" =>
       \/ "busy" \in faults /\ Covered(lastfetch[role])
       \/ /\ Covered(window.start)
          /\ window.start <= window.end /\ window.end = lastfetch[role]

(* The senders of what was frozen; their jobs are in the window of the     *)
(* next import, and known after it.                                        *)
Held == {s \in Scrapers : \/ probe[s].st = "straddling"
                          \/ \E i \in 1 .. batch : log[i] = s}
Introduced(j) == jobinfo[j] # "none" \/ Lost(j)
KnownInv ==
  faults \intersect {"exit", "busy"} = {} =>
    /\ wpc # "final"
    /\ \A j \in Jobs : measurements[j] # <<>> => Introduced(j)
    /\ wpc = "collect" => \A s \in Held : Introduced(probe[s].job)
    /\ wpc = "import" => \A s \in Held : job[probe[s].job].start <= window.end

AccountingInv == TInv /\ RowsInv /\ NoDuplicate /\ WindowInv /\ KnownInv

-----------------------------------------------------------------------------
(* Types.                                                                  *)

LEMMA SpanOfTimes == \A a, b \in Times : b <= a => a - b \in Times
BY AccountingAssumption DEF Times

LEMMA TotalType ==
  ASSUME TypeOK, TimesInv, NEW j \in Jobs
  PROVE  Total(j) \in Times
<1>1. job[j].start \in Times /\ job[j].end \in Times
  BY DEF TypeOK
<1>2. 0 \in Times
  BY AccountingAssumption DEF Times
<1>3. CASE job[j].st = "ended"
  <2>1. job[j].start <= job[j].end
    BY <1>3 DEF TimesInv
  <2>2. job[j].end - job[j].start \in Times
    BY <1>1, <2>1, SpanOfTimes
  <2> QED BY <1>3, <2>2 DEF Total
<1> QED BY <1>2, <1>3 DEF Total

LEMMA InsertType ==
  ASSUME NEW rows \in Seq(Rows), NEW row \in Rows
  PROVE  Insert(rows, row) \in Seq(Rows)
<1>1. Append(rows, row) \in Seq(Rows)
  BY AppendProperties
<1> QED BY <1>1 DEF Insert

LEMMA RenewTypes ==
  ASSUME TypeOK, TimesInv, NEW source \in Sources, Renew(source)
  PROVE  /\ window' \in Spans /\ lastfetch' \in [Sources -> Times]
         /\ window'.end = now /\ lastfetch'[source] = now /\ window'.start = lastfetch[source]
         /\ \A w \in Sources : lastfetch'[w] <= now
         /\ \A w \in Sources \ {source} : lastfetch'[w] = lastfetch[w]
<1>1. now \in Times /\ lastfetch \in [Sources -> Times]
      /\ \A w \in Sources : lastfetch[w] <= now
  BY DEF TypeOK, TimesInv
<1>2. now <= now
  BY <1>1, AccountingAssumption DEF Times
<1>3. /\ window' = [start |-> lastfetch[source], end |-> now]
      /\ lastfetch' = [lastfetch EXCEPT ![source] = now]
  BY DEF Renew
<1>4. window' \in Spans /\ window'.end = now /\ window'.start = lastfetch[source]
  BY <1>1, <1>3 DEF Spans
<1>5. /\ lastfetch' \in [Sources -> Times] /\ lastfetch'[source] = now
      /\ \A w \in Sources \ {source} : lastfetch'[w] = lastfetch[w]
  BY <1>1, <1>3
<1> QED BY <1>1, <1>2, <1>4, <1>5

LEMMA SenderType ==
  ASSUME TypeOK, SentInv, Buffer!Collect
  PROVE  /\ taken \in Nat /\ batch \in Nat /\ Len(log) \in Nat /\ batch <= Len(log)
         /\ taken + 1 \in 1 .. batch /\ taken' = taken + 1 /\ batch' = batch /\ log' = log
         /\ Sender \in Scrapers /\ Node[Sender] \in Sources /\ Node[Sender] \notin Roles
         /\ probe[Sender].job \in Jobs /\ probe[Sender].tot \in Times
<1>1. /\ log \in Seq(Scrapers \union {Nobody}) /\ batch \in 0 .. Len(log)
      /\ taken \in 0 .. batch /\ Len(log) \in Nat
  BY LenProperties DEF TypeOK, Buffer!TypeOK
<1>2. taken < batch /\ taken' = taken + 1 /\ batch' = batch /\ log' = log
  BY DEF Buffer!Collect
<1>3. taken + 1 \in 1 .. batch /\ taken + 1 \in 1 .. Len(log)
  BY <1>1, <1>2
<1>4. Sender \in Scrapers
  BY <1>3 DEF SentInv, Sender
<1>5. Node[Sender] \in Nodes /\ Node[Sender] \notin Roles
  BY <1>4, AccountingAssumption
<1>6. probe[Sender] \in Probes
  BY <1>4 DEF TypeOK
<1> QED BY <1>1, <1>2, <1>3, <1>4, <1>5, <1>6 DEF Sources, Probes

LEMMA StoreTypes ==
  ASSUME TypeOK, SentInv, Buffer!Collect, StoreMeasurement
  PROVE  measurements' \in [Jobs -> Seq(Rows)]
<1> DEFINE p == probe[Sender]
           row == [source |-> Node[Sender], tot |-> p.tot]
<1>1. row \in Rows /\ p.job \in Jobs
  BY SenderType DEF Rows
<1>2. measurements \in [Jobs -> Seq(Rows)]
  BY DEF TypeOK
<1>3. Insert(measurements[p.job], row) \in Seq(Rows)
  BY <1>1, <1>2, InsertType
<1>4. measurements' = [measurements EXCEPT ![p.job] = Insert(@, row)]
  BY DEF StoreMeasurement
<1> HIDE DEF p, row
<1> QED BY <1>1, <1>2, <1>3, <1>4

LEMMA ImportTypes ==
  ASSUME TypeOK, TimesInv, Import
  PROVE  jobinfo' \in [Jobs -> Known] /\ measurements' \in [Jobs -> Seq(Rows)]
<1>1. ASSUME NEW j \in Jobs
      PROVE  /\ (IF Reported(j) THEN job[j].st ELSE jobinfo[j]) \in Known
             /\ (IF Reported(j) THEN Insert(measurements[j], [source |-> role, tot |-> Total(j)])
                 ELSE measurements[j]) \in Seq(Rows)
  <2>1. job[j].st \in States /\ jobinfo[j] \in Known /\ measurements[j] \in Seq(Rows)
        /\ role \in Roles
    BY DEF TypeOK
  <2>2. [source |-> role, tot |-> Total(j)] \in Rows
    BY <2>1, TotalType DEF Rows, Sources
  <2>3. Insert(measurements[j], [source |-> role, tot |-> Total(j)]) \in Seq(Rows)
    BY <2>1, <2>2, InsertType
  <2>4. Reported(j) => job[j].st \in Known
    BY <2>1 DEF Reported, States, Known
  <2> QED BY <2>1, <2>3, <2>4
<1> QED BY <1>1 DEF Import

LEMMA DownTypes ==
  ASSUME TypeOK, SentInv, Down, job' = job
  PROVE  /\ probe' \in [Scrapers -> Probes] /\ Buffer!TypeOK' /\ wpc' \in Steps
         /\ role' \in Roles /\ window' \in Spans /\ SentInv'
<1>1. 0 \in Times
  BY AccountingAssumption DEF Times
<1>2. wpc' \in Steps /\ role' \in Roles /\ window' \in Spans
  BY <1>1 DEF Down, TypeOK, Steps, Spans
<1>3. log' = <<>> /\ batch' = 0 /\ taken' = 0
  BY DEF Down
<1>4. Buffer!TypeOK'
  BY <1>3 DEF Buffer!TypeOK
<1>5. ASSUME NEW s \in Scrapers
      PROVE  /\ (IF s \in Open THEN [probe[s] EXCEPT !.st = "lost"] ELSE probe[s]) \in Probes
             /\ probe'[s].job = probe[s].job
             /\ probe'[s].st # "idle" => probe[s].st # "idle"
  BY DEF TypeOK, Probes, Down, Open
<1>6. probe' \in [Scrapers -> Probes]
  BY <1>5 DEF Down
<1>7. \A i \in 1 .. Len(log') : FALSE
  BY <1>3
<1>8. \A s \in Scrapers : probe'[s].st # "idle" => job'[probe'[s].job].st # "pending"
  <2> SUFFICES ASSUME NEW s \in Scrapers, probe'[s].st # "idle"
               PROVE  job'[probe'[s].job].st # "pending"
    OBVIOUS
  <2>1. probe[s].st # "idle" /\ probe'[s].job = probe[s].job
    BY <1>5
  <2> QED BY <2>1 DEF SentInv
<1>9. SentInv'
  BY <1>7, <1>8 DEF SentInv
<1> QED BY <1>2, <1>4, <1>6, <1>9

(* The batch boundary moves over what was taken in, or over everything.    *)
LEMMA FreezeTypes ==
  ASSUME TypeOK, SentInv, FreezeBatch, job' = job
  PROVE  /\ Buffer!TypeOK' /\ probe' \in [Scrapers -> Probes] /\ SentInv'
         /\ log' = log /\ batch' = Len(log) /\ taken' = taken
<1>1. /\ log \in Seq(Scrapers \union {Nobody}) /\ taken \in 0 .. batch
      /\ batch \in 0 .. Len(log) /\ Len(log) \in Nat
  BY LenProperties DEF TypeOK, Buffer!TypeOK
<1>2. log' = log /\ batch' = Len(log) /\ taken' = taken
  BY DEF FreezeBatch, Buffer!Freeze
<1>3. Buffer!TypeOK'
  BY <1>1, <1>2 DEF Buffer!TypeOK
<1>4. ASSUME NEW s \in Scrapers
      PROVE  /\ (IF probe[s].st = "accepted" THEN [probe[s] EXCEPT !.st = "straddling"]
                 ELSE probe[s]) \in Probes
             /\ probe'[s].job = probe[s].job
             /\ probe[s].st # "accepted" => probe'[s].st = probe[s].st
             /\ probe'[s].st # "idle" => probe[s].st # "idle"
  BY DEF TypeOK, Probes, FreezeBatch
<1>5. probe' \in [Scrapers -> Probes]
  BY <1>4 DEF FreezeBatch
<1>6. SentInv'
  BY <1>2, <1>4 DEF SentInv
<1> QED BY <1>2, <1>3, <1>5, <1>6

(* A scraper moves on; its job has started.                                *)
LEMMA ProbeTypes ==
  ASSUME TInv, NEW s \in Scrapers, Measure(s) \/ Accept(s)
  PROVE  /\ probe' \in [Scrapers -> Probes] /\ SentInv'
         /\ probe[s].st \in {"idle", "measured"} /\ probe'[s].st \in {"measured", "accepted"}
         /\ job[probe[s].job].st # "pending" /\ probe'[s].job = probe[s].job
         /\ \A r \in Scrapers \ {s} : probe'[r] = probe[r]
<1>0. /\ probe \in [Scrapers -> Probes] /\ probe[s] \in Probes /\ probe[s].job \in Jobs
      /\ SentInv
  BY DEF TInv, TypeOK, Probes
<1>1. /\ probe'[s] \in Probes /\ probe[s].st \in {"idle", "measured"}
      /\ probe'[s].st \in {"measured", "accepted"} /\ probe'[s].job = probe[s].job
      /\ probe' = [probe EXCEPT ![s] = probe'[s]]
      /\ job[probe[s].job].st # "pending"
  <2>1. CASE Measure(s)
    <3> DEFINE tot == now - job[probe[s].job].start
    <3>1. probe[s].st = "idle" /\ job[probe[s].job].st = "running"
          /\ probe' = [probe EXCEPT ![s].st = "measured", ![s].tot = tot]
      BY <2>1 DEF Measure
    <3>2. tot \in Times
      BY <1>0, <3>1, SpanOfTimes DEF TInv, TypeOK, TimesInv
    <3> HIDE DEF tot
    <3>3. probe'[s] = [probe[s] EXCEPT !.st = "measured", !.tot = tot]
      BY <1>0, <3>1
    <3>4. probe'[s] \in Probes /\ probe'[s].st = "measured" /\ probe'[s].job = probe[s].job
      BY <1>0, <3>2, <3>3 DEF Probes
    <3>5. probe' = [probe EXCEPT ![s] = probe'[s]]
      BY <1>0, <3>1
    <3> QED BY <3>1, <3>4, <3>5
  <2>2. CASE Accept(s)
    <3>1. probe[s].st = "measured" /\ probe' = [probe EXCEPT ![s].st = "accepted"]
      BY <2>2 DEF Accept
    <3>2. probe'[s] = [probe[s] EXCEPT !.st = "accepted"]
      BY <1>0, <3>1
    <3>3. probe'[s] \in Probes /\ probe'[s].st = "accepted" /\ probe'[s].job = probe[s].job
      BY <1>0, <3>2 DEF Probes
    <3>4. probe' = [probe EXCEPT ![s] = probe'[s]]
      BY <1>0, <3>1
    <3>5. job[probe[s].job].st # "pending"
      BY <1>0, <3>1 DEF SentInv
    <3> QED BY <3>1, <3>3, <3>4, <3>5
  <2> QED BY <2>1, <2>2
<1>2. probe' \in [Scrapers -> Probes] /\ \A r \in Scrapers \ {s} : probe'[r] = probe[r]
  BY <1>0, <1>1
<1>3. job' = job /\ log' = log
  BY DEF Measure, Accept, cluster, queues
<1>4. ASSUME NEW i \in 1 .. Len(log) PROVE log[i] \in Scrapers /\ probe'[log[i]].st = "sent"
  BY <1>0, <1>1, <1>2 DEF SentInv
<1>5. \A r \in Scrapers : probe'[r].st # "idle" => job[probe'[r].job].st # "pending"
  BY <1>0, <1>1, <1>2 DEF SentInv
<1>6. SentInv'
  BY <1>3, <1>4, <1>5 DEF SentInv
<1> QED BY <1>1, <1>2, <1>6

(* A group is taken in, behind everything or at the end of the batch.      *)
LEMMA DeliverTypes ==
  ASSUME TInv, NEW s \in Scrapers, TakenIn(s)
  PROVE  /\ probe' \in [Scrapers -> Probes] /\ Buffer!TypeOK' /\ SentInv'
         /\ probe'[s].st = "sent" /\ probe'[s].job = probe[s].job
         /\ \A r \in Scrapers \ {s} : probe'[r] = probe[r]
         /\ log' = Append(log, s) /\ batch \in Nat /\ batch <= Len(log)
         /\ \/ batch' = batch
            \/ probe[s].st = "straddling" /\ batch = Len(log) /\ batch' = batch + 1
<1>0. /\ probe \in [Scrapers -> Probes] /\ probe[s] \in Probes /\ SentInv
      /\ log \in Seq(Scrapers \union {Nobody}) /\ taken \in 0 .. batch
      /\ batch \in 0 .. Len(log) /\ Len(log) \in Nat
  BY LenProperties DEF TInv, TypeOK, Buffer!TypeOK
<1>1. /\ log' = Append(log, s) /\ taken' = taken /\ job' = job
      /\ batch' = IF probe[s].st = "straddling" THEN batch + 1 ELSE batch
      /\ \/ batch' = batch
         \/ batch = Len(log) /\ batch' = batch + 1
      /\ probe' = [probe EXCEPT ![s].st = "sent"] /\ s \in Open
  BY DEF TakenIn, Buffer!Deliver, cluster
<1>2. /\ Append(log, s) \in Seq(Scrapers \union {Nobody}) /\ Len(log') = Len(log) + 1
      /\ log'[Len(log) + 1] = s /\ \A i \in 1 .. Len(log) : log'[i] = log[i]
  BY <1>0, <1>1, AppendProperties
<1>3. Buffer!TypeOK'
  BY <1>0, <1>1, <1>2 DEF Buffer!TypeOK
<1>4. /\ probe'[s] \in Probes /\ probe'[s].st = "sent" /\ probe'[s].job = probe[s].job
      /\ probe' \in [Scrapers -> Probes]
      /\ \A r \in Scrapers \ {s} : probe'[r] = probe[r]
  <2>1. probe'[s] = [probe[s] EXCEPT !.st = "sent"]
    BY <1>0, <1>1
  <2>2. probe'[s] \in Probes /\ probe'[s].st = "sent" /\ probe'[s].job = probe[s].job
    BY <1>0, <2>1 DEF Probes
  <2>3. \A r \in Scrapers \ {s} : probe'[r] = probe[r]
    BY <1>0, <1>1
  <2>4. probe' \in [Scrapers -> Probes]
    BY <1>0, <1>1, <2>2
  <2> QED BY <2>2, <2>3, <2>4
<1>5. \A i \in 1 .. Len(log') : log'[i] \in Scrapers /\ probe'[log'[i]].st = "sent"
  <2> SUFFICES ASSUME NEW i \in 1 .. Len(log')
               PROVE  log'[i] \in Scrapers /\ probe'[log'[i]].st = "sent"
    OBVIOUS
  <2>1. i \in 1 .. Len(log) \/ i = Len(log) + 1
    BY <1>0, <1>2
  <2>2. CASE i \in 1 .. Len(log)
    <3>1. log'[i] = log[i] /\ log[i] \in Scrapers /\ probe[log[i]].st = "sent"
      BY <1>0, <1>2, <2>2 DEF SentInv
    <3> QED BY <1>4, <3>1
  <2>3. CASE i = Len(log) + 1
    BY <1>2, <1>4, <2>3
  <2> QED BY <2>1, <2>2, <2>3
<1>6. \A r \in Scrapers : probe'[r].st # "idle" => job'[probe'[r].job].st # "pending"
  <2>1. probe[s].st # "idle"
    BY <1>1 DEF Open
  <2> QED BY <1>0, <1>1, <1>4, <2>1 DEF SentInv
<1>7. SentInv'
  BY <1>5, <1>6 DEF SentInv
<1> QED BY <1>0, <1>1, <1>3, <1>4, <1>7

LEMMA TInvInit == Init => TInv
<1> SUFFICES ASSUME Init PROVE TInv
  OBVIOUS
<1>1. 0 \in Times /\ \A w \in Sources : 0 <= 0
  BY AccountingAssumption DEF Times
<1>2. /\ job = [j \in Jobs |-> [st |-> "pending", start |-> 0, end |-> 0]]
      /\ probe \in [Scrapers -> {[st |-> "idle", job |-> j, tot |-> 0] : j \in Jobs}]
      /\ log = <<>> /\ batch = 0 /\ taken = 0 /\ now = 0 /\ wpc = "down" /\ role \in Roles
      /\ window = [start |-> 0, end |-> 0] /\ lastfetch = [w \in Sources |-> 0]
      /\ jobinfo = [j \in Jobs |-> "none"] /\ measurements = [j \in Jobs |-> <<>>]
      /\ lost = {} /\ faults = {}
  BY DEF Init, Buffer!Init
<1>3. \A s \in Scrapers : probe[s] \in {[st |-> "idle", job |-> j, tot |-> 0] : j \in Jobs}
  BY <1>2
<1>4. \A s \in Scrapers : probe[s] \in Probes /\ probe[s].st = "idle"
  BY <1>1, <1>3 DEF Probes
<1>5. probe \in [Scrapers -> Probes]
  BY <1>2, <1>4
<1>6. Buffer!TypeOK
  BY <1>2 DEF Buffer!TypeOK
<1>7. job \in [Jobs -> [st : States, start : Times, end : Times]]
  BY <1>1, <1>2 DEF States
<1>8. TypeOK
  BY <1>1, <1>2, <1>5, <1>6, <1>7 DEF TypeOK, Steps, Spans, Known
<1>9. TimesInv
  BY <1>1, <1>2 DEF TimesInv
<1>10. \A i \in 1 .. Len(log) : FALSE
  BY <1>2
<1>11. SentInv
  BY <1>4, <1>10 DEF SentInv
<1> QED BY <1>8, <1>9, <1>11 DEF TInv

(* The clock and the jobs.                                                 *)
LEMMA TInvCluster ==
  ASSUME TInv, Tick \/ \E j \in Jobs : JobStarts(j) \/ JobEnds(j)
  PROVE  TInv' /\ \A j \in Jobs : job[j].st # "pending" => job'[j].st # "pending"
<1>0. /\ TypeOK /\ TimesInv /\ SentInv
      /\ now \in Times /\ job \in [Jobs -> [st : States, start : Times, end : Times]]
      /\ \A t \in Times : t \in Nat
      /\ \A w \in Sources : lastfetch[w] \in Times
      /\ \A s \in Scrapers : probe[s].job \in Jobs
  BY AccountingAssumption DEF TInv, TypeOK, Times, Probes
<1>1. UNCHANGED <<probe, log, batch, taken, process, tables, lost, faults>>
  BY DEF Tick, JobStarts, JobEnds, queues
<1>2. now' \in Times /\ now <= now'
  <2>1. now \in Nat /\ now >= 0 /\ MaxTime \in Nat
    BY <1>0, AccountingAssumption DEF Times
  <2>2. CASE now < MaxTime /\ now' = now + 1
    BY <2>1, <2>2 DEF Times
  <2>3. CASE now' = now
    BY <1>0, <2>1, <2>3
  <2> QED BY <2>2, <2>3 DEF Tick, JobStarts, JobEnds
<1>3. ASSUME NEW j \in Jobs
      PROVE  /\ job' \in [Jobs -> [st : States, start : Times, end : Times]]
             /\ job'[j].st # "pending" => job'[j].start <= now'
             /\ job'[j].st = "ended" => job'[j].start <= job'[j].end /\ job'[j].end <= now'
             /\ job[j].st # "pending" => job'[j].st # "pending"
  <2>0. /\ job[j].start \in Times /\ job[j].end \in Times
        /\ job[j].st # "pending" => job[j].start <= now
        /\ job[j].st = "ended" => job[j].start <= job[j].end /\ job[j].end <= now
    BY <1>0 DEF TimesInv
  <2>1. CASE job'[j] = job[j] /\ job' \in [Jobs -> [st : States, start : Times, end : Times]]
    <3> DEFINE b == job[j].start  e == job[j].end
    <3>1. b \in Nat /\ e \in Nat /\ now \in Nat /\ now' \in Nat
      BY <1>0, <1>2, <2>0
    <3> HIDE DEF b, e
    <3>2. (b <= now => b <= now') /\ (e <= now => e <= now')
      BY <1>2, <3>1
    <3> QED BY <2>0, <2>1, <3>2 DEF b, e
  <2>2. ASSUME NEW i \in Jobs, JobStarts(i) PROVE \/ i = j \/ job'[j] = job[j]
    BY <1>0, <2>2 DEF JobStarts
  <2>3. ASSUME NEW i \in Jobs, JobEnds(i) PROVE \/ i = j \/ job'[j] = job[j]
    BY <1>0, <2>3 DEF JobEnds
  <2>4. job' \in [Jobs -> [st : States, start : Times, end : Times]]
    <3>1. CASE Tick
      BY <1>0, <3>1 DEF Tick
    <3>2. ASSUME NEW i \in Jobs, JobStarts(i)
          PROVE  job' \in [Jobs -> [st : States, start : Times, end : Times]]
      <4>1. [st |-> "running", start |-> now, end |-> 0]
              \in [st : States, start : Times, end : Times]
        BY <1>0, AccountingAssumption DEF States, Times
      <4> QED BY <1>0, <3>2, <4>1 DEF JobStarts
    <3>3. ASSUME NEW i \in Jobs, JobEnds(i)
          PROVE  job' \in [Jobs -> [st : States, start : Times, end : Times]]
      <4>1. [job[i] EXCEPT !.st = "ended", !.end = now]
              \in [st : States, start : Times, end : Times]
        BY <1>0 DEF States
      <4>2. job' = [job EXCEPT ![i] = [job[i] EXCEPT !.st = "ended", !.end = now]]
        BY <1>0, <3>3 DEF JobEnds
      <4> QED BY <1>0, <4>1, <4>2
    <3> QED BY <3>1, <3>2, <3>3
  <2>5. CASE JobStarts(j)
    <3>1. job'[j] = [st |-> "running", start |-> now, end |-> 0] /\ now' = now
      BY <1>0, <2>5 DEF JobStarts
    <3> QED BY <1>2, <2>4, <3>1
  <2>6. CASE JobEnds(j)
    <3>1. job'[j] = [job[j] EXCEPT !.st = "ended", !.end = now] /\ now' = now
          /\ job[j].st = "running"
      BY <1>0, <2>6 DEF JobEnds
    <3>2. job'[j].st = "ended" /\ job'[j].end = now /\ job'[j].start = job[j].start
      BY <1>0, <3>1
    <3> QED BY <1>2, <2>0, <2>4, <3>1, <3>2
  <2>7. CASE Tick
    BY <1>0, <2>1, <2>7 DEF Tick
  <2> QED BY <2>1, <2>2, <2>3, <2>4, <2>5, <2>6, <2>7
<1>4. \A w \in Sources : lastfetch'[w] <= now'
  <2>1. \A w \in Sources : lastfetch[w] <= now
    BY <1>0 DEF TimesInv
  <2>2. \A a, b, c \in Nat : a <= b /\ b <= c => a <= c
    OBVIOUS
  <2> QED BY <1>0, <1>1, <1>2, <2>1, <2>2 DEF tables
<1>5. TimesInv'
  BY <1>3, <1>4 DEF TimesInv
<1>6. job' \in [Jobs -> [st : States, start : Times, end : Times]]
  <2>1. CASE Jobs = {}
    BY <1>0, <2>1 DEF Tick, JobStarts, JobEnds
  <2> QED BY <1>3, <2>1
<1>7. Buffer!TypeOK'
  BY <1>0, <1>1 DEF TypeOK, Buffer!TypeOK
<1>8. TypeOK'
  BY <1>0, <1>1, <1>2, <1>6, <1>7 DEF TypeOK, process, tables
<1>9. \A s \in Scrapers : probe'[s].st # "idle" => job'[probe'[s].job].st # "pending"
  BY <1>0, <1>1, <1>3 DEF SentInv
<1>10. SentInv'
  BY <1>0, <1>1, <1>9 DEF SentInv
<1> QED BY <1>3, <1>5, <1>8, <1>10 DEF TInv

(* Steps that leave the clock and the jobs alone.                          *)
LEMMA TInvFrame ==
  ASSUME TInv, UNCHANGED cluster, probe' \in [Scrapers -> Probes], SentInv', Buffer!TypeOK',
         wpc' \in Steps, role' \in Roles, window' \in Spans,
         lastfetch' \in [Sources -> Times], \A w \in Sources : lastfetch'[w] <= now,
         jobinfo' \in [Jobs -> Known], measurements' \in [Jobs -> Seq(Rows)],
         lost' \subseteq Spans, faults' \subseteq Faults
  PROVE  TInv'
<1>1. TimesInv'
  BY DEF TInv, TimesInv, cluster
<1>2. TypeOK'
  BY DEF TInv, TypeOK, cluster
<1> QED BY <1>1, <1>2 DEF TInv

LEMMA TInvServer ==
  ASSUME TInv, Server \/ Crash \/ Exit
  PROVE  TInv'
<1> USE DEF Steps, queues, tables, process, cluster
<1>0. /\ TypeOK /\ TimesInv /\ SentInv /\ Roles \subseteq Sources
  BY DEF TInv, Sources
<1>1. /\ probe \in [Scrapers -> Probes] /\ Buffer!TypeOK /\ wpc \in Steps /\ role \in Roles
      /\ window \in Spans /\ lastfetch \in [Sources -> Times]
      /\ \A w \in Sources : lastfetch[w] <= now
      /\ jobinfo \in [Jobs -> Known] /\ measurements \in [Jobs -> Seq(Rows)]
      /\ lost \subseteq Spans /\ faults \subseteq Faults
  BY <1>0 DEF TypeOK, TimesInv
<1>2. UNCHANGED <<log, batch, taken>> => Buffer!TypeOK'
  BY <1>1 DEF Buffer!TypeOK
<1>3. UNCHANGED <<log, probe, job>> => SentInv'
  BY <1>0 DEF SentInv
<1>4. ASSUME NEW f, Goes(f) PROVE faults' \subseteq Faults
  BY <1>1, <1>4 DEF Goes
<1>5. Abandon => lost' \subseteq Spans
  BY <1>1 DEF Abandon
<1>6. CASE Start
  <2>1. PICK r \in Roles : role' = r /\ Renew(r)
    BY <1>6 DEF Start
  <2>2. /\ window' \in Spans /\ lastfetch' \in [Sources -> Times]
        /\ \A w \in Sources : lastfetch'[w] <= now
    BY <1>0, <2>1, RenewTypes
  <2>3. /\ wpc' = "import" /\ UNCHANGED <<now, job, probe, log, batch, taken, jobinfo,
                                          measurements, lost, faults>>
    BY <1>6 DEF Start
  <2> QED BY <1>1, <1>2, <1>3, <2>1, <2>2, <2>3, TInvFrame
<1>7. CASE RenewWatcher
  <2>1. /\ wpc' = "import" /\ UNCHANGED <<now, job, probe, log, batch, taken, role, jobinfo,
                                          measurements, lost>>
    BY <1>7 DEF RenewWatcher
  <2>2. CASE Renew(role) /\ faults' = faults
    <3>1. /\ window' \in Spans /\ lastfetch' \in [Sources -> Times]
          /\ \A w \in Sources : lastfetch'[w] <= now
      BY <1>0, <1>1, <2>2, RenewTypes
    <3> QED BY <1>1, <1>2, <1>3, <2>1, <2>2, <3>1, TInvFrame
  <2>3. CASE Goes("busy") /\ UNCHANGED <<window, lastfetch>>
    BY <1>1, <1>2, <1>3, <1>4, <2>1, <2>3, TInvFrame
  <2> QED BY <1>7, <2>2, <2>3 DEF RenewWatcher
<1>8. CASE Import
  <2>1. jobinfo' \in [Jobs -> Known] /\ measurements' \in [Jobs -> Seq(Rows)]
    BY <1>0, <1>8, ImportTypes
  <2>2. /\ wpc' = "collect" /\ UNCHANGED <<now, job, probe, log, batch, taken, role, window,
                                           lastfetch, lost, faults>>
    BY <1>8 DEF Import
  <2> QED BY <1>1, <1>2, <1>3, <2>1, <2>2, TInvFrame
<1>9. CASE CollectMsg \/ FinalCollect
  <2>1. /\ Buffer!Collect /\ Renew(Node[Sender])
        /\ UNCHANGED <<now, job, probe, wpc, role, jobinfo, lost, faults>>
        /\ UNCHANGED measurements \/ StoreMeasurement
    BY <1>9 DEF CollectMsg, FinalCollect
  <2>2. /\ taken + 1 \in 1 .. batch /\ taken' = taken + 1 /\ batch' = batch /\ log' = log
        /\ Node[Sender] \in Sources /\ taken \in Nat /\ batch \in Nat
    BY <1>0, <2>1, SenderType
  <2>3. /\ window' \in Spans /\ lastfetch' \in [Sources -> Times]
        /\ \A w \in Sources : lastfetch'[w] <= now
    <3> DEFINE w == Node[Sender]
    <3> HIDE DEF w
    <3>1. PICK source \in Sources : Renew(source)
      BY <2>1, <2>2
    <3> QED BY <1>0, <3>1, RenewTypes
  <2>4. measurements' \in [Jobs -> Seq(Rows)]
    BY <1>0, <1>1, <2>1, StoreTypes
  <2>5. Buffer!TypeOK'
    BY <1>1, <2>2 DEF Buffer!TypeOK
  <2> QED BY <1>1, <1>3, <2>1, <2>2, <2>3, <2>4, <2>5, TInvFrame
<1>10. CASE FreezeQueue \/ FinalFreeze
  <2>1. /\ FreezeBatch /\ wpc' \in Steps
        /\ UNCHANGED <<now, job, role, window, lastfetch, jobinfo, measurements, lost, faults>>
    BY <1>1, <1>10 DEF FreezeQueue, FinalFreeze, AfterFreeze
  <2>2. Buffer!TypeOK' /\ probe' \in [Scrapers -> Probes] /\ SentInv'
    BY <1>0, <2>1, FreezeTypes
  <2> QED BY <1>1, <2>1, <2>2, TInvFrame
<1>11. CASE Die \/ Crash
  <2>1. /\ Down /\ UNCHANGED <<now, job, lastfetch, jobinfo, measurements>>
        /\ lost' \subseteq Spans /\ faults' \subseteq Faults
    BY <1>1, <1>4, <1>5, <1>11 DEF Die, Crash
  <2>2. /\ probe' \in [Scrapers -> Probes] /\ Buffer!TypeOK' /\ wpc' \in Steps
        /\ role' \in Roles /\ window' \in Spans /\ SentInv'
    BY <1>0, <2>1, DownTypes
  <2> QED BY <1>1, <2>1, <2>2, TInvFrame
<1>12. CASE Exit
  <2>1. /\ wpc' = "final" /\ lost' \subseteq Spans /\ faults' \subseteq Faults
        /\ UNCHANGED <<now, job, probe, log, batch, taken, role, window, lastfetch, jobinfo,
                       measurements>>
    BY <1>4, <1>5, <1>12 DEF Exit
  <2> QED BY <1>1, <1>2, <1>3, <2>1, TInvFrame
<1> QED BY <1>6, <1>7, <1>8, <1>9, <1>10, <1>11, <1>12 DEF Server

LEMMA TInvStep == TInv /\ [Next]_vars => TInv'
<1> SUFFICES ASSUME TInv, [Next]_vars PROVE TInv'
  OBVIOUS
<1> USE DEF queues, tables, process, cluster
<1>0. /\ TypeOK /\ TimesInv /\ SentInv
  BY DEF TInv
<1>1. CASE Tick \/ \E j \in Jobs : JobStarts(j) \/ JobEnds(j)
  BY <1>1, TInvCluster
<1>2. CASE Server \/ Crash \/ Exit
  BY <1>2, TInvServer
<1>3. ASSUME NEW s \in Scrapers, Measure(s) \/ Accept(s) PROVE TInv'
  <2>1. probe' \in [Scrapers -> Probes] /\ SentInv'
    BY <1>3, ProbeTypes
  <2>2. UNCHANGED <<cluster, queues, process, tables, lost, faults>>
    BY <1>3 DEF Measure, Accept
  <2>3. Buffer!TypeOK'
    BY <1>0, <2>2 DEF TypeOK, Buffer!TypeOK
  <2> QED BY <1>0, <2>1, <2>2, <2>3, TInvFrame DEF TypeOK, TimesInv
<1>4. ASSUME NEW s \in Scrapers, TakenIn(s) PROVE TInv'
  <2>1. probe' \in [Scrapers -> Probes] /\ SentInv' /\ Buffer!TypeOK'
    BY <1>4, DeliverTypes
  <2>2. UNCHANGED <<cluster, process, tables, lost, faults>>
    BY <1>4 DEF TakenIn
  <2> QED BY <1>0, <2>1, <2>2, TInvFrame DEF TypeOK, TimesInv
<1>5. CASE UNCHANGED vars
  <2>1. Buffer!TypeOK'
    BY <1>0, <1>5 DEF TypeOK, Buffer!TypeOK, vars
  <2>2. SentInv'
    BY <1>0, <1>5 DEF SentInv, vars
  <2> QED BY <1>0, <1>5, <2>1, <2>2, TInvFrame DEF TypeOK, TimesInv, vars
<1> QED BY <1>1, <1>2, <1>3, <1>4, <1>5 DEF Next

(* The tables, the queues and the processes keep their types.              *)
THEOREM TypeCorrect == Spec => []TypeOK
<1>1. TInv => TypeOK
  BY DEF TInv
<1> QED BY <1>1, TInvInit, TInvStep, PTL DEF Spec

-----------------------------------------------------------------------------
(* What a step does to the tables.                                         *)

(* A job that ended stays as it is, and an ended job ended by now.         *)
LEMMA JobStep ==
  ASSUME TInv, [Next]_vars, NEW j \in Jobs
  PROVE  /\ job[j].st = "ended" => job'[j] = job[j]
         /\ job[j].st # "pending" => job'[j].start = job[j].start /\ job'[j].st # "pending"
         /\ job'[j].st = "ended" /\ job[j].st # "ended" => job'[j].end = now
<1>0. job \in [Jobs -> [st : States, start : Times, end : Times]]
  BY DEF TInv, TypeOK
<1>1. CASE job' = job
  BY <1>1
<1>2. ASSUME NEW i \in Jobs, JobStarts(i)
      PROVE  /\ job[j].st = "ended" => job'[j] = job[j]
             /\ job[j].st # "pending" => job'[j].start = job[j].start /\ job'[j].st # "pending"
             /\ job'[j].st = "ended" /\ job[j].st # "ended" => job'[j].end = now
  BY <1>0, <1>2 DEF JobStarts
<1>3. ASSUME NEW i \in Jobs, JobEnds(i)
      PROVE  /\ job[j].st = "ended" => job'[j] = job[j]
             /\ job[j].st # "pending" => job'[j].start = job[j].start /\ job'[j].st # "pending"
             /\ job'[j].st = "ended" /\ job[j].st # "ended" => job'[j].end = now
  <2>1. job[i].st = "running"
        /\ job' = [job EXCEPT ![i] = [job[i] EXCEPT !.st = "ended", !.end = now]]
    BY <1>0, <1>3 DEF JobEnds
  <2> QED BY <1>0, <2>1
<1>4. job' = job \/ \E i \in Jobs : JobStarts(i) \/ JobEnds(i)
  BY DEF Next, Tick, Measure, Accept, TakenIn, Server, Start, RenewWatcher, Import, CollectMsg,
         FreezeQueue, FinalCollect, FinalFreeze, Die, Crash, Exit, vars, cluster
<1> QED BY <1>1, <1>2, <1>3, <1>4

LEMMA FaultsGrow ==
  ASSUME [Next]_vars
  PROVE  faults \subseteq faults' /\ lost \subseteq lost'
<1>1. faults \subseteq faults'
  BY DEF Next, Tick, JobStarts, JobEnds, Measure, Accept, TakenIn, Server, Start, RenewWatcher,
         Import, CollectMsg, FreezeQueue, FinalCollect, FinalFreeze, Die, Crash, Exit, vars, Goes
<1>2. lost \subseteq lost'
  BY DEF Next, Tick, JobStarts, JobEnds, Measure, Accept, TakenIn, Server, Start, RenewWatcher,
         Import, CollectMsg, FreezeQueue, FinalCollect, FinalFreeze, Die, Crash, Exit, vars,
         Abandon
<1> QED BY <1>1, <1>2

(* jobinfo follows the job when it is reported.                            *)
LEMMA JobinfoStep ==
  ASSUME TInv, [Next]_vars, NEW j \in Jobs
  PROVE  \/ jobinfo'[j] = jobinfo[j]
         \/ Import /\ Reported(j) /\ jobinfo'[j] = job[j].st
<1>0. jobinfo \in [Jobs -> Known]
  BY DEF TInv, TypeOK
<1>1. CASE Import
  BY <1>1 DEF Import
<1>2. CASE ~Import
  BY <1>2 DEF Next, Tick, JobStarts, JobEnds, Measure, Accept, TakenIn, Server, Start,
              RenewWatcher, CollectMsg, FreezeQueue, FinalCollect, FinalFreeze, Die, Crash,
              Exit, vars, tables
<1> QED BY <1>1, <1>2

(* At most one row is offered to the table of a job: by the import, with   *)
(* its final figures, or by a scraper.                                     *)
LEMMA OfferedStep ==
  ASSUME TInv, [Next]_vars, NEW j \in Jobs
  PROVE  \/ measurements'[j] = measurements[j]
         \/ /\ Import /\ Reported(j)
            /\ measurements'[j] = Insert(measurements[j], [source |-> role, tot |-> Total(j)])
         \/ \E s \in Scrapers :
              /\ wpc \in {"collect", "final"} /\ taken < batch /\ s = Sender
              /\ probe[s].job = j
              /\ measurements'[j]
                   = Insert(measurements[j], [source |-> Node[s], tot |-> probe[s].tot])
<1>0. measurements \in [Jobs -> Seq(Rows)] /\ TypeOK /\ SentInv
  BY DEF TInv, TypeOK
<1>1. CASE Import
  BY <1>1 DEF Import
<1>2. CASE CollectMsg \/ FinalCollect
  <2>1. Buffer!Collect /\ (UNCHANGED measurements \/ StoreMeasurement)
        /\ wpc \in {"collect", "final"}
    BY <1>2 DEF CollectMsg, FinalCollect
  <2>2. CASE UNCHANGED measurements
    BY <2>2
  <2>3. CASE StoreMeasurement
    <3>1. PICK s \in Scrapers : s = Sender /\ probe[s].job \in Jobs
      BY <1>0, <2>1, SenderType
    <3>2. measurements' =
            [measurements EXCEPT ![probe[s].job] =
               Insert(@, [source |-> Node[s], tot |-> probe[s].tot])]
      BY <2>3, <3>1 DEF StoreMeasurement
    <3>3. taken < batch
      BY <2>1 DEF Buffer!Collect
    <3>4. CASE probe[s].job = j
      <4>1. measurements'[j]
              = Insert(measurements[j], [source |-> Node[s], tot |-> probe[s].tot])
        BY <1>0, <3>2, <3>4
      <4> QED BY <2>1, <3>1, <3>3, <3>4, <4>1
    <3>5. CASE probe[s].job # j
      BY <1>0, <3>2, <3>5
    <3> QED BY <3>4, <3>5
  <2> QED BY <2>1, <2>2, <2>3
<1>3. CASE ~(Import \/ CollectMsg \/ FinalCollect)
  BY <1>3 DEF Next, Tick, JobStarts, JobEnds, Measure, Accept, TakenIn, Server, Start,
              RenewWatcher, FreezeQueue, FinalFreeze, Die, Crash, Exit, vars, tables
<1> QED BY <1>1, <1>2, <1>3

(* A row is appended that is not ignored, or nothing happens.              *)
LEMMA StoredStep ==
  ASSUME TInv, [Next]_vars, NEW j \in Jobs
  PROVE  \/ measurements'[j] = measurements[j]
         \/ \E row \in Rows :
              /\ ~Ignored(row, measurements[j])
              /\ measurements'[j] = Append(measurements[j], row)
              /\ row.source \in Roles => row.tot = Total(j)
<1>0. TypeOK /\ TimesInv
  BY DEF TInv
<1>1. ASSUME NEW row \in Rows, row.source \in Roles => row.tot = Total(j),
             measurements'[j] = Insert(measurements[j], row)
      PROVE  \/ measurements'[j] = measurements[j]
             \/ \E r \in Rows :
                  /\ ~Ignored(r, measurements[j])
                  /\ measurements'[j] = Append(measurements[j], r)
                  /\ r.source \in Roles => r.tot = Total(j)
  BY <1>1 DEF Insert
<1>2. CASE measurements'[j] = Insert(measurements[j], [source |-> role, tot |-> Total(j)])
  <2> DEFINE row == [source |-> role, tot |-> Total(j)]
  <2>1. row \in Rows /\ row.tot = Total(j)
    BY <1>0, TotalType DEF Rows, Sources, TypeOK
  <2> HIDE DEF row
  <2>2. measurements'[j] = Insert(measurements[j], row)
    BY <1>2 DEF row
  <2> QED BY <1>1, <2>1, <2>2
<1>3. ASSUME NEW s \in Scrapers,
             measurements'[j]
               = Insert(measurements[j], [source |-> Node[s], tot |-> probe[s].tot])
      PROVE  \/ measurements'[j] = measurements[j]
             \/ \E r \in Rows :
                  /\ ~Ignored(r, measurements[j])
                  /\ measurements'[j] = Append(measurements[j], r)
                  /\ r.source \in Roles => r.tot = Total(j)
  <2> DEFINE row == [source |-> Node[s], tot |-> probe[s].tot]
  <2>1. Node[s] \in Nodes /\ Node[s] \notin Roles /\ probe[s].tot \in Times
    BY <1>0, AccountingAssumption DEF TypeOK, Probes
  <2>2. row \in Rows /\ row.source \notin Roles
    BY <2>1 DEF Rows, Sources
  <2> HIDE DEF row
  <2>3. measurements'[j] = Insert(measurements[j], row)
    BY <1>3 DEF row
  <2> QED BY <1>1, <2>2, <2>3
<1> QED BY <1>2, <1>3, OfferedStep

-----------------------------------------------------------------------------
(* The rows.                                                               *)

LEMMA AppendedRows ==
  ASSUME NEW rows \in Seq(Rows), NEW row \in Rows, NEW more, more = Append(rows, row)
  PROVE  /\ Len(rows) \in Nat /\ Len(more) = Len(rows) + 1 /\ more[Len(more)] = row
         /\ DOMAIN rows = 1 .. Len(rows) /\ DOMAIN more = 1 .. Len(more)
         /\ \A i \in 1 .. Len(rows) : more[i] = rows[i] /\ i \in 1 .. Len(more)
         /\ \A i \in 1 .. Len(more) : i \in 1 .. Len(rows) \/ i = Len(more)
<1>1. /\ more \in Seq(Rows) /\ Len(more) = Len(rows) + 1 /\ Len(rows) \in Nat
      /\ \A i \in 1 .. Len(rows) : more[i] = rows[i]
      /\ more[Len(rows) + 1] = row
  BY AppendProperties
<1>2. DOMAIN rows = 1 .. Len(rows) /\ DOMAIN more = 1 .. Len(more)
  BY <1>1
<1>3. /\ \A i \in 1 .. Len(rows) : i \in 1 .. Len(more)
      /\ \A i \in 1 .. Len(more) : i \in 1 .. Len(rows) \/ i = Len(more)
  BY <1>1
<1> QED BY <1>1, <1>2, <1>3

LEMMA RowsStep ==
  ASSUME TInv, RowsInv, [Next]_vars
  PROVE  RowsInv'
<1> SUFFICES ASSUME NEW j \in Jobs, NEW i \in 1 .. Len(measurements'[j]),
                    measurements'[j][i].source \in Roles
             PROVE  job'[j].st = "ended" /\ measurements'[j][i].tot = Total(j)'
  BY DEF RowsInv
<1>0. measurements[j] \in Seq(Rows)
  BY DEF TInv, TypeOK
<1>1. ASSUME job[j].st = "ended" PROVE job'[j].st = "ended" /\ Total(j)' = Total(j)
  <2>1. job'[j] = job[j]
    BY <1>1, JobStep
  <2> QED BY <1>1, <2>1 DEF Total
<1>2. ASSUME NEW k \in 1 .. Len(measurements[j]), measurements'[j][i] = measurements[j][k]
      PROVE  job'[j].st = "ended" /\ measurements'[j][i].tot = Total(j)'
  <2>1. job[j].st = "ended" /\ measurements[j][k].tot = Total(j)
    BY <1>2 DEF RowsInv
  <2> QED BY <1>1, <1>2, <2>1
<1>3. CASE measurements'[j] = measurements[j]
  BY <1>2, <1>3
<1>4. ASSUME NEW row \in Rows, ~Ignored(row, measurements[j]),
             measurements'[j] = Append(measurements[j], row),
             row.source \in Roles => row.tot = Total(j)
      PROVE  job'[j].st = "ended" /\ measurements'[j][i].tot = Total(j)'
  <2>1. CASE i \in 1 .. Len(measurements[j])
    <3>1. measurements'[j][i] = measurements[j][i]
      BY <1>0, <1>4, <2>1, AppendedRows
    <3> QED BY <1>2, <2>1, <3>1
  <2>2. CASE i = Len(measurements'[j])
    <3>1. measurements'[j][i] = row
      BY <1>0, <1>4, <2>2, AppendedRows
    <3>2. row.tot = Total(j) /\ row.tot # 0
      BY <1>4, <3>1 DEF Ignored
    <3>3. job[j].st = "ended"
      BY <3>2 DEF Total
    <3> QED BY <1>1, <3>1, <3>2, <3>3
  <2> QED BY <1>0, <1>4, <2>1, <2>2, AppendedRows
<1> QED BY <1>3, <1>4, StoredStep

(* The trigger lets no row in that is there already.                       *)
LEMMA DuplicateStep ==
  ASSUME TInv, NoDuplicate, [Next]_vars
  PROVE  NoDuplicate'
<1> SUFFICES ASSUME NEW j \in Jobs
             PROVE  \A i, k \in DOMAIN measurements'[j] :
                      measurements'[j][i] = measurements'[j][k] => i = k
  BY DEF NoDuplicate
<1>0. measurements[j] \in Seq(Rows)
  BY DEF TInv, TypeOK
<1>1. \A i, k \in DOMAIN measurements[j] : measurements[j][i] = measurements[j][k] => i = k
  BY DEF NoDuplicate
<1>2. CASE measurements'[j] = measurements[j]
  BY <1>1, <1>2
<1>3. ASSUME NEW row \in Rows, ~Ignored(row, measurements[j]),
             measurements'[j] = Append(measurements[j], row)
      PROVE  \A i, k \in DOMAIN measurements'[j] :
               measurements'[j][i] = measurements'[j][k] => i = k
  <2>1. \A i \in DOMAIN measurements[j] : measurements[j][i] # row
    <3> SUFFICES ASSUME NEW i \in DOMAIN measurements[j], measurements[j][i] = row
                 PROVE  FALSE
      OBVIOUS
    <3>1. SameNode(row.source, row.source)
      BY DEF SameNode
    <3> QED BY <1>3, <3>1 DEF Ignored
  <2> QED BY <1>0, <1>1, <1>3, <2>1, AppendedRows
<1> QED BY <1>2, <1>3, StoredStep

-----------------------------------------------------------------------------
(* What is accounted stays so.                                             *)

LEMMA SettledStep ==
  ASSUME TInv, [Next]_vars, NEW j \in Jobs, job[j].st = "ended"
  PROVE  (Accounted(j) => Accounted(j)') /\ (Lost(j) => Lost(j)')
<1>0. measurements[j] \in Seq(Rows)
  BY DEF TInv, TypeOK
<1>1. job'[j] = job[j] /\ Total(j)' = Total(j)
  BY JobStep DEF Total
<1>2. Lost(j) => Lost(j)'
  BY <1>1, FaultsGrow DEF Lost
<1>3. ASSUME Accounted(j) PROVE Accounted(j)'
  <2>1. jobinfo'[j] = "ended"
    BY <1>3, JobinfoStep DEF Accounted
  <2>2. ASSUME NEW i \in DOMAIN measurements[j]
        PROVE  i \in DOMAIN measurements'[j] /\ measurements'[j][i] = measurements[j][i]
    <3>1. CASE measurements'[j] = measurements[j]
      BY <3>1
    <3>2. ASSUME NEW row \in Rows, measurements'[j] = Append(measurements[j], row)
          PROVE  i \in DOMAIN measurements'[j] /\ measurements'[j][i] = measurements[j][i]
      BY <1>0, <3>2, AppendedRows
    <3> QED BY <3>1, <3>2, StoredStep
  <2> QED BY <1>1, <1>3, <2>1, <2>2 DEF Accounted
<1> QED BY <1>2, <1>3

(* An import accounts the jobs that ended: its row is stored, or the same  *)
(* figures were, for a source at least as accurate.                        *)
LEMMA ImportAccounts ==
  ASSUME TInv, RowsInv, Import, NEW j \in Jobs, job[j].st = "ended", Reported(j)
  PROVE  Accounted(j)'
<1> DEFINE row  == [source |-> role, tot |-> Total(j)]
           rows == measurements[j]
<1>0. rows \in Seq(Rows) /\ role \in Roles /\ TypeOK /\ TimesInv
      /\ DOMAIN rows = 1 .. Len(rows)
  BY DEF TInv, TypeOK
<1>1. jobinfo'[j] = "ended" /\ measurements'[j] = Insert(rows, row) /\ Total(j)' = Total(j)
  BY DEF Import, Total, cluster
<1>2. row \in Rows /\ row.tot = Total(j) /\ row.source = role
  BY <1>0, TotalType DEF Rows, Sources
<1>3. Total(j) > 0 => \E i \in DOMAIN measurements'[j], r \in Roles :
                        measurements'[j][i] = [source |-> r, tot |-> Total(j)]
  <2> SUFFICES ASSUME Total(j) > 0
               PROVE  \E i \in DOMAIN measurements'[j], r \in Roles :
                        measurements'[j][i] = [source |-> r, tot |-> Total(j)]
    OBVIOUS
  <2>0. Total(j) # 0
    BY <1>0, TotalType, AccountingAssumption DEF Times
  <2>1. CASE ~Ignored(row, rows)
    <3>1. measurements'[j] = Append(rows, row)
      BY <1>1, <2>1 DEF Insert
    <3> HIDE DEF row
    <3>2. /\ Len(measurements'[j]) \in DOMAIN measurements'[j]
          /\ measurements'[j][Len(measurements'[j])] = row
      BY <1>0, <1>2, <3>1, AppendedRows
    <3> QED BY <1>0, <3>2 DEF row
  <2>2. CASE Ignored(row, rows)
    <3>1. measurements'[j] = rows
      BY <1>1, <2>2 DEF Insert
    <3> HIDE DEF row
    <3>2. PICK i \in DOMAIN rows :
            \/ Accuracy(rows[i].source) > Accuracy(row.source)
            \/ Accuracy(rows[i].source) = Accuracy(row.source)
      BY <1>2, <2>0, <2>2 DEF Ignored
    <3>3. rows[i] \in Rows
      BY <1>0, <3>2
    <3>4. rows[i].source \in Roles
      <4>1. Accuracy(row.source) >= 1 /\ Accuracy(row.source) \in Nat
        BY <1>0, <1>2, AccountingAssumption DEF Accuracy
      <4>2. Accuracy(rows[i].source) \in Nat
        BY DEF Accuracy
      <4>3. Accuracy(rows[i].source) # 0
        BY <3>2, <4>1, <4>2
      <4>4. rows[i].source \in {"sacct", "privileged"}
        BY <4>3 DEF Accuracy
      <4> QED BY <3>3, <4>4, AccountingAssumption DEF Rows, Sources
    <3>5. rows[i].tot = Total(j)
      BY <1>0, <3>2, <3>4 DEF RowsInv
    <3>6. rows[i] = [source |-> rows[i].source, tot |-> Total(j)]
      BY <3>3, <3>5 DEF Rows
    <3> QED BY <3>1, <3>2, <3>4, <3>6
  <2> QED BY <2>1, <2>2
<1> QED BY <1>1, <1>3 DEF Accounted

-----------------------------------------------------------------------------
(* The windows.                                                            *)

LEMMA CoveredStep ==
  ASSUME TInv, [Next]_vars, NEW t \in Times, t <= now, Covered(t)
  PROVE  Covered(t)'
<1> SUFFICES ASSUME NEW j \in Jobs, job'[j].st = "ended", job'[j].end < t
             PROVE  Settled(j)'
  BY DEF Covered
<1>1. now \in Times /\ t \in Nat /\ now \in Nat
  BY AccountingAssumption DEF TInv, TypeOK, Times
<1>2. job[j].st = "ended"
  <2> SUFFICES ASSUME job[j].st # "ended" PROVE FALSE
    OBVIOUS
  <2>1. job'[j].end = now
    BY JobStep
  <2> QED BY <1>1, <2>1
<1>3. job'[j] = job[j]
  BY <1>2, JobStep
<1>4. Settled(j)
  BY <1>2, <1>3 DEF Covered
<1> QED BY <1>2, <1>4, SettledStep DEF Settled

(* The end of the last window of a role: it stays, or it is now.           *)
LEMMA CoveredRole ==
  ASSUME TInv, [Next]_vars, NEW r \in Roles, Covered(lastfetch[r]), lastfetch'[r] = lastfetch[r]
  PROVE  Covered(lastfetch[r])'
<1>1. PICK t \in Times : t = lastfetch[r] /\ t <= now
  BY DEF TInv, TypeOK, TimesInv, Sources
<1>2. Covered(t)
  BY <1>1
<1>3. Covered(t)'
  BY <1>1, <1>2, CoveredStep
<1> QED BY <1>1, <1>3 DEF Covered

(* A window is opened where the last one of its role ended.                *)
LEMMA WindowOpens ==
  ASSUME TInv, [Next]_vars, NEW r \in Roles, Renew(r), role' = r, wpc' = "import",
         \A q \in Roles : Covered(lastfetch[q])
  PROVE  WindowInv'
<1>1. r \in Sources /\ Roles \subseteq Sources
  BY DEF Sources
<1>2. /\ window'.end = now /\ lastfetch'[r] = now /\ window'.start = lastfetch[r]
      /\ \A w \in Sources \ {r} : lastfetch'[w] = lastfetch[w]
  BY <1>1, RenewTypes DEF TInv
<1>3. \A q \in Roles : q # role' => Covered(lastfetch[q])'
  BY <1>1, <1>2, CoveredRole
<1>4. Covered(window.start)'
  <2>1. PICK t \in Times : t = lastfetch[r] /\ t <= now
    BY <1>1 DEF TInv, TypeOK, TimesInv
  <2>2. Covered(t)
    BY <2>1
  <2>3. Covered(t)'
    BY <2>1, <2>2, CoveredStep
  <2> QED BY <1>2, <2>1, <2>3 DEF Covered
<1>5. window'.end = lastfetch'[role'] /\ window'.start <= window'.end
  BY <1>1, <1>2 DEF TInv, TimesInv
<1> QED BY <1>3, <1>4, <1>5 DEF WindowInv

(* The import closes the window; so does its end, as a lost one.           *)
LEMMA WindowCloses ==
  ASSUME TInv, RowsInv, WindowInv, [Next]_vars, wpc = "import", Import \/ Abandon,
         UNCHANGED <<job, lastfetch>>
  PROVE  Covered(lastfetch[role])
         \/ \A j \in Jobs : job[j].st = "ended" /\ job[j].end < lastfetch[role] => Settled(j)'
<1> SUFFICES ASSUME Covered(window.start), window.end = lastfetch[role],
                    NEW j \in Jobs, job[j].st = "ended", job[j].end < lastfetch[role]
             PROVE  Settled(j)'
  BY DEF WindowInv
<1>0. /\ window \in Spans /\ window.start \in Nat /\ window.end \in Nat
      /\ job[j].start \in Nat /\ job[j].end \in Nat /\ job[j].start <= job[j].end
  BY AccountingAssumption DEF TInv, TypeOK, TimesInv, Spans, Times
<1>1. CASE job[j].end < window.start
  <2>1. Settled(j)
    BY <1>1 DEF Covered
  <2> QED BY <2>1, SettledStep DEF Settled
<1>2. CASE ~(job[j].end < window.start)
  <2> DEFINE b == job[j].start  e == job[j].end  ws == window.start  we == window.end
  <2>1. b \in Nat /\ e \in Nat /\ ws \in Nat /\ we \in Nat /\ b <= e /\ e < we /\ ~(e < ws)
    BY <1>0, <1>2
  <2> HIDE DEF b, e, ws, we
  <2>2. e >= ws /\ b <= we /\ e \in ws .. we
    BY <2>1
  <2>3. CASE Import
    <3>1. Reported(j)
      BY <2>2 DEF Reported, EndsIn, b, e, ws, we
    <3> QED BY <2>3, <3>1, ImportAccounts DEF Settled
  <2>4. CASE Abandon
    <3>1. window \in lost' /\ job'[j] = job[j]
      BY <2>4 DEF Abandon
    <3>2. Lost(j)'
      BY <2>2, <3>1 DEF Lost, e, ws, we
    <3> QED BY <3>2 DEF Settled
  <2> QED BY <2>3, <2>4
<1> QED BY <1>1, <1>2

(* Steps outside of the renewal and the import.                            *)
LEMMA WindowKept ==
  ASSUME TInv, WindowInv, [Next]_vars, wpc' # "import" => wpc # "import",
         wpc' = "import" => UNCHANGED <<wpc, role, window>>,
         \A r \in Roles : lastfetch'[r] = lastfetch[r]
  PROVE  WindowInv'
<1>0. /\ role \in Roles /\ Roles \subseteq Sources /\ window \in Spans
      /\ lastfetch \in [Sources -> Times] /\ \A w \in Sources : lastfetch[w] <= now
      /\ now \in Nat /\ \A t \in Times : t \in Nat
  BY AccountingAssumption DEF TInv, TypeOK, TimesInv, Sources, Times
<1>1. \A r \in Roles : wpc' # "import" \/ r # role' => Covered(lastfetch[r])'
  BY CoveredRole DEF WindowInv
<1>2. ASSUME Covered(window.start), window.start <= window.end, window.end = lastfetch[role],
             wpc' = "import"
      PROVE  /\ Covered(window.start)'
             /\ window'.start <= window'.end /\ window'.end = lastfetch'[role']
  <2>1. PICK t \in Times : t = window.start
    BY <1>0 DEF Spans
  <2>2. t <= now
    <3> DEFINE l == lastfetch[role]
    <3>1. t \in Nat /\ l \in Nat /\ now \in Nat /\ t <= l /\ l <= now
      BY <1>0, <1>2, <2>1
    <3> HIDE DEF l
    <3> QED BY <3>1
  <2>3. Covered(t)'
    BY <1>2, <2>1, <2>2, CoveredStep
  <2> QED BY <1>0, <1>2, <2>1, <2>3 DEF Covered
<1>3. wpc' = "import" /\ Covered(lastfetch[role]) => Covered(lastfetch[role])'
  <2> SUFFICES ASSUME wpc' = "import", Covered(lastfetch[role])
               PROVE  Covered(lastfetch[role])'
    OBVIOUS
  <2>1. PICK r \in Roles : r = role /\ r = role'
    BY <1>0
  <2>2. Covered(lastfetch[r])'
    BY <2>1, CoveredRole
  <2> QED BY <2>1, <2>2 DEF Covered
<1>4. faults \subseteq faults'
  BY FaultsGrow
<1> QED BY <1>1, <1>2, <1>3, <1>4 DEF WindowInv

LEMMA WindowStep ==
  ASSUME TInv, RowsInv, WindowInv, [Next]_vars
  PROVE  WindowInv'
<1> USE DEF queues, tables, process, cluster
<1>0. /\ TypeOK /\ SentInv /\ role \in Roles /\ Roles \subseteq Sources
      /\ lastfetch \in [Sources -> Times]
  BY DEF TInv, TypeOK, Sources
<1>1. CASE Tick \/ (\E j \in Jobs : JobStarts(j) \/ JobEnds(j)) \/ UNCHANGED vars
           \/ (\E s \in Scrapers : Measure(s) \/ Accept(s) \/ TakenIn(s))
           \/ FreezeQueue \/ FinalFreeze \/ Die
  <2>1. /\ wpc' # "import" => wpc # "import"
        /\ wpc' = "import" => UNCHANGED <<wpc, role, window>>
        /\ lastfetch' = lastfetch
    BY <1>1 DEF Tick, JobStarts, JobEnds, vars, Measure, Accept, TakenIn, FreezeQueue,
                AfterFreeze, FinalFreeze, Die, Down
  <2> QED BY <2>1, WindowKept
<1>2. CASE CollectMsg \/ FinalCollect
  <2>1. Buffer!Collect /\ Renew(Node[Sender]) /\ wpc' = wpc /\ wpc # "import"
    BY <1>2 DEF CollectMsg, FinalCollect
  <2>2. Node[Sender] \in Sources /\ Node[Sender] \notin Roles
    BY <1>0, <2>1, SenderType
  <2>3. lastfetch' = [lastfetch EXCEPT ![Node[Sender]] = now]
    BY <2>1 DEF Renew
  <2>4. \A r \in Roles : lastfetch'[r] = lastfetch[r]
    BY <1>0, <2>2, <2>3
  <2> QED BY <2>1, <2>4, WindowKept
<1>3. CASE Start
  <2>1. PICK r \in Roles : role' = r /\ Renew(r)
    BY <1>3 DEF Start
  <2>2. wpc = "down" /\ wpc' = "import"
    BY <1>3 DEF Start
  <2> QED BY <2>1, <2>2, WindowOpens DEF WindowInv
<1>4. CASE RenewWatcher
  <2>0. wpc = "sleep" /\ wpc' = "import" /\ role' = role
    BY <1>4 DEF RenewWatcher
  <2>1. CASE Renew(role)
    <3>1. PICK r \in Roles : r = role
      BY <1>0
    <3> QED BY <2>0, <2>1, <3>1, WindowOpens DEF WindowInv
  <2>2. CASE Goes("busy") /\ lastfetch' = lastfetch
    <3>1. "busy" \in faults'
      BY <2>2 DEF Goes
    <3>2. \A r \in Roles : Covered(lastfetch[r])'
      BY <2>0, <2>2, CoveredRole DEF WindowInv
    <3>3. PICK r \in Roles : r = role
      BY <1>0
    <3>4. Covered(lastfetch[role])'
      BY <2>0, <3>2, <3>3 DEF Covered
    <3> QED BY <2>0, <3>1, <3>2, <3>4 DEF WindowInv
  <2> QED BY <1>4, <2>1, <2>2 DEF RenewWatcher
<1>5. CASE Import \/ Crash \/ Exit
  <2>1. /\ wpc' # "import" /\ role' = role /\ UNCHANGED <<job, lastfetch>>
        /\ wpc = "import" => Import \/ Abandon
    BY <1>5 DEF Import, Crash, Exit, Down
  <2>2. ASSUME NEW r \in Roles PROVE Covered(lastfetch[r])'
    <3>1. CASE Covered(lastfetch[r])
      BY <2>1, <3>1, CoveredRole
    <3>2. CASE ~Covered(lastfetch[r])
      <4>1. wpc = "import" /\ r = role
        BY <3>2 DEF WindowInv
      <4>2. \A j \in Jobs : job[j].st = "ended" /\ job[j].end < lastfetch[role] => Settled(j)'
        BY <2>1, <3>2, <4>1, WindowCloses
      <4> QED BY <2>1, <4>1, <4>2 DEF Covered
    <3> QED BY <3>1, <3>2
  <2> QED BY <2>1, <2>2 DEF WindowInv
<1> QED BY <1>1, <1>2, <1>3, <1>4, <1>5 DEF Next, Server

-----------------------------------------------------------------------------
(* The jobs the scrapers speak of.                                         *)

LEMMA IntroducedStep ==
  ASSUME TInv, [Next]_vars, NEW j \in Jobs, Introduced(j)
  PROVE  Introduced(j)'
<1>1. CASE jobinfo[j] # "none"
  <2>1. job[j].st \in States /\ (Reported(j) => job[j].st # "none")
    BY DEF TInv, TypeOK, States
  <2> QED BY <1>1, <2>1, JobinfoStep DEF Introduced
<1>2. CASE Lost(j)
  <2>1. job[j].st = "ended"
    BY <1>2 DEF Lost
  <2> QED BY <1>2, <2>1, SettledStep DEF Introduced
<1> QED BY <1>1, <1>2 DEF Introduced

(* The job of a held group has started.                                    *)
LEMMA HeldStarted ==
  ASSUME TInv, NEW s \in Held
  PROVE  /\ s \in Scrapers /\ probe[s].job \in Jobs /\ job[probe[s].job].st # "pending"
         /\ job[probe[s].job].start <= now
<1>1. s \in Scrapers /\ probe[s] \in Probes
  BY DEF Held, TInv, TypeOK
<1>2. probe[s].st # "idle"
  <2>1. CASE probe[s].st = "straddling"
    BY <2>1
  <2>2. ASSUME NEW i \in 1 .. batch, log[i] = s PROVE probe[s].st # "idle"
    <3>1. batch \in 0 .. Len(log) /\ Len(log) \in Nat
      BY LenProperties DEF TInv, TypeOK, Buffer!TypeOK
    <3>2. i \in 1 .. Len(log)
      BY <3>1
    <3> QED BY <2>2, <3>2 DEF TInv, SentInv
  <2> QED BY <2>1, <2>2 DEF Held
<1> QED BY <1>1, <1>2 DEF TInv, SentInv, TimesInv, Probes

(* Between a freeze and the next one nothing is added to what is held.     *)
LEMMA HeldStep ==
  ASSUME TInv, [Next]_vars, wpc' \in {"import", "collect"}
  PROVE  Held' \subseteq Held /\ \A s \in Scrapers : probe'[s].job = probe[s].job
<1> USE DEF queues
<1>0. probe \in [Scrapers -> Probes] /\ TypeOK /\ SentInv
  BY DEF TInv, TypeOK
<1>1. CASE UNCHANGED <<probe, log, batch>>
  BY <1>1 DEF Held
<1>2. ASSUME NEW s \in Scrapers, Measure(s) \/ Accept(s)
      PROVE  Held' \subseteq Held /\ \A r \in Scrapers : probe'[r].job = probe[r].job
  <2>1. /\ probe'[s].st # "straddling" /\ probe'[s].job = probe[s].job
        /\ \A r \in Scrapers \ {s} : probe'[r] = probe[r]
    BY <1>2, ProbeTypes
  <2>2. UNCHANGED <<log, batch>>
    BY <1>2 DEF Measure, Accept
  <2> QED BY <2>1, <2>2 DEF Held
<1>3. ASSUME NEW s \in Scrapers, TakenIn(s)
      PROVE  Held' \subseteq Held /\ \A r \in Scrapers : probe'[r].job = probe[r].job
  <2>1. /\ probe'[s].st = "sent" /\ probe'[s].job = probe[s].job
        /\ \A r \in Scrapers \ {s} : probe'[r] = probe[r]
        /\ log' = Append(log, s) /\ batch \in Nat /\ batch <= Len(log)
        /\ \/ batch' = batch
           \/ probe[s].st = "straddling" /\ batch = Len(log) /\ batch' = batch + 1
    BY <1>3, DeliverTypes
  <2>2. /\ Len(log) \in Nat /\ log'[Len(log) + 1] = s
        /\ \A i \in 1 .. Len(log) : log'[i] = log[i]
    <3>1. log \in Seq(Scrapers \union {Nobody})
      BY <1>0 DEF TypeOK, Buffer!TypeOK
    <3> QED BY <2>1, <3>1, AppendProperties
  <2>3. ASSUME NEW i \in 1 .. batch'
        PROVE  \/ i \in 1 .. batch /\ log'[i] = log[i]
               \/ log'[i] = s /\ probe[s].st = "straddling"
    <3>1. CASE batch' = batch
      BY <2>1, <2>2, <3>1
    <3>2. CASE probe[s].st = "straddling" /\ batch = Len(log) /\ batch' = batch + 1
      <4>1. i \in 1 .. batch \/ i = batch + 1
        BY <2>1, <3>2
      <4> QED BY <2>1, <2>2, <3>2, <4>1
    <3> QED BY <2>1, <3>1, <3>2
  <2> QED BY <2>1, <2>3 DEF Held
<1>4. CASE CollectMsg \/ FinalCollect
  <2>1. Buffer!Collect /\ probe' = probe
    BY <1>4 DEF CollectMsg, FinalCollect
  <2> QED BY <1>1, <2>1 DEF Buffer!Collect
<1>5. CASE FreezeQueue \/ Die \/ Crash \/ Exit
  BY <1>5 DEF FreezeQueue, AfterFreeze, Die, Crash, Down, Exit
<1>6. CASE FinalFreeze
  BY <1>6 DEF FinalFreeze, process
<1>7. CASE UNCHANGED vars \/ Tick \/ (\E j \in Jobs : JobStarts(j) \/ JobEnds(j)) \/ Start
           \/ RenewWatcher \/ Import
  BY <1>1, <1>7 DEF vars, Tick, JobStarts, JobEnds, Start, RenewWatcher, Import
<1> QED BY <1>2, <1>3, <1>4, <1>5, <1>6, <1>7 DEF Next, Server

(* After the import every held job is known: it is in the window or was    *)
(* settled before.                                                         *)
LEMMA ImportIntroduces ==
  ASSUME TInv, RowsInv, WindowInv, "busy" \notin faults, Import, [Next]_vars,
         NEW j \in Jobs, job[j].st # "pending", job[j].start <= window.end
  PROVE  Introduced(j)'
<1>1. CASE Reported(j)
  <2>1. jobinfo'[j] = job[j].st /\ job[j].st \in States
    BY <1>1 DEF Import, TInv, TypeOK
  <2> QED BY <2>1 DEF States, Introduced
<1>2. CASE ~Reported(j)
  <2>1. job[j].st = "ended" /\ ~(job[j].end >= window.start)
    BY <1>2 DEF Reported, EndsIn
  <2>2. job[j].end \in Nat /\ window.start \in Nat
    BY AccountingAssumption DEF TInv, TypeOK, Spans, Times
  <2>3. job[j].end < window.start
    BY <2>1, <2>2
  <2>4. Covered(window.start)
    BY DEF WindowInv, Import
  <2>5. Settled(j)
    BY <2>1, <2>3, <2>4 DEF Covered
  <2>6. Introduced(j)
    BY <2>5 DEF Settled, Introduced, Accounted
  <2> QED BY <2>6, IntroducedStep
<1> QED BY <1>1, <1>2

LEMMA KnownStep ==
  ASSUME TInv, RowsInv, WindowInv, KnownInv, [Next]_vars
  PROVE  KnownInv'
<1> USE DEF queues, tables, process, cluster
<1> SUFFICES ASSUME faults' \intersect {"exit", "busy"} = {}
             PROVE  /\ wpc' # "final"
                    /\ \A j \in Jobs : measurements'[j] # <<>> => Introduced(j)'
                    /\ wpc' = "collect" => \A s \in Held' : Introduced(probe[s].job)'
                    /\ wpc' = "import" => \A s \in Held' : job'[probe'[s].job].start <= window'.end
  BY DEF KnownInv
<1>0. /\ faults \intersect {"exit", "busy"} = {} /\ "busy" \notin faults
      /\ wpc # "final" /\ TypeOK /\ SentInv /\ TimesInv
      /\ measurements \in [Jobs -> Seq(Rows)]
      /\ \A j \in Jobs : measurements[j] # <<>> => Introduced(j)
      /\ wpc = "collect" => \A s \in Held : Introduced(probe[s].job)
      /\ wpc = "import" => \A s \in Held : job[probe[s].job].start <= window.end
  BY FaultsGrow DEF KnownInv, TInv, TypeOK
<1>1. wpc' # "final"
  <2>1. CASE Exit
    <3>1. "exit" \in faults'
      BY <2>1 DEF Exit, Goes
    <3> QED BY <3>1
  <2>2. CASE ~Exit
    BY <1>0, <2>2 DEF Next, Tick, JobStarts, JobEnds, Measure, Accept, TakenIn, Server, Start,
              RenewWatcher, Import, CollectMsg, FreezeQueue, AfterFreeze, FinalCollect,
              FinalFreeze, Die, Crash, Down, vars
  <2> QED BY <2>1, <2>2
<1>2. ASSUME NEW j \in Jobs, measurements'[j] # <<>> PROVE Introduced(j)'
  <2>1. CASE measurements'[j] = measurements[j]
    BY <1>0, <1>2, <2>1, IntroducedStep
  <2>2. CASE Import /\ Reported(j)
    <3>1. jobinfo'[j] = job[j].st /\ job[j].st \in States
      BY <1>0, <2>2 DEF Import, TypeOK
    <3> QED BY <3>1 DEF States, Introduced
  <2>3. ASSUME NEW s \in Scrapers, wpc \in {"collect", "final"}, taken < batch, s = Sender,
               probe[s].job = j
        PROVE  Introduced(j)'
    <3>1. taken + 1 \in 1 .. batch
      BY <1>0, <2>3, LenProperties DEF TypeOK, Buffer!TypeOK
    <3>2. s \in Held
      BY <2>3, <3>1 DEF Held, Sender
    <3>3. Introduced(j)
      BY <1>0, <2>3, <3>2
    <3> QED BY <3>3, IntroducedStep
  <2> QED BY <2>1, <2>2, <2>3, OfferedStep
<1>3. ASSUME wpc' = "collect", NEW s \in Scrapers, s \in Held' PROVE Introduced(probe[s].job)'
  <2>1. s \in Held /\ probe'[s].job = probe[s].job
    BY <1>3, HeldStep
  <2>2. PICK j \in Jobs : /\ j = probe[s].job /\ job[j].st # "pending"
                          /\ j = probe'[s].job
    BY <2>1, HeldStarted
  <2>3. wpc = "collect" \/ Import
    BY <1>3 DEF Next, Tick, JobStarts, JobEnds, Measure, Accept, TakenIn, Server, Start,
              RenewWatcher, CollectMsg, FreezeQueue, AfterFreeze, FinalCollect,
              FinalFreeze, Die, Crash, Down, Exit, vars
  <2>4. Introduced(j)'
    <3>1. CASE wpc = "collect"
      BY <1>0, <2>1, <2>2, <3>1, IntroducedStep
    <3>2. CASE Import
      <4>1. job[j].start <= window.end
        BY <1>0, <2>1, <2>2, <3>2 DEF Import
      <4> QED BY <1>0, <2>2, <3>2, <4>1, ImportIntroduces
    <3> QED BY <2>3, <3>1, <3>2
  <2> QED BY <2>2, <2>4 DEF Introduced, Lost
<1>4. ASSUME wpc' = "import", NEW s \in Scrapers, s \in Held'
      PROVE  job'[probe'[s].job].start <= window'.end
  <2>1. s \in Held /\ probe'[s].job = probe[s].job
    BY <1>4, HeldStep
  <2>2. PICK j \in Jobs : /\ j = probe[s].job /\ job[j].st # "pending" /\ job[j].start <= now
    BY <2>1, HeldStarted
  <2>3. job'[j].start = job[j].start
    BY <2>2, JobStep
  <2>4. CASE wpc = "import" /\ window' = window
    BY <1>0, <2>1, <2>2, <2>3, <2>4
  <2>5. CASE window'.end = now
    BY <2>1, <2>2, <2>3, <2>5
  <2>6. (wpc = "import" /\ window' = window) \/ window'.end = now
    <3>1. CASE Start \/ RenewWatcher
      <4>1. "busy" \notin faults'
        OBVIOUS
      <4>2. \E r \in Roles : Renew(r)
        BY <1>0, <3>1, <4>1 DEF Start, RenewWatcher, Goes, TypeOK
      <4> QED BY <4>2 DEF Renew
    <3>2. CASE ~(Start \/ RenewWatcher)
      BY <1>4, <3>2 DEF Next, Tick, JobStarts, JobEnds, Measure, Accept, TakenIn, Server,
              Import, CollectMsg, FreezeQueue, AfterFreeze, FinalCollect,
              FinalFreeze, Die, Crash, Down, Exit, vars
    <3> QED BY <3>1, <3>2
  <2> QED BY <2>4, <2>5, <2>6
<1>5. Held' \subseteq Scrapers
  BY DEF Held
<1> QED BY <1>1, <1>2, <1>3, <1>4, <1>5

-----------------------------------------------------------------------------
(* The theorems.                                                           *)

LEMMA AccountingInit == Init => AccountingInv
<1> SUFFICES ASSUME Init PROVE AccountingInv
  OBVIOUS
<1>0. TInv
  BY TInvInit
<1>1. /\ job = [j \in Jobs |-> [st |-> "pending", start |-> 0, end |-> 0]]
      /\ wpc = "down" /\ measurements = [j \in Jobs |-> <<>>]
  BY DEF Init
<1>2. \A j \in Jobs : \A i \in 1 .. Len(measurements[j]) : FALSE
  BY <1>1
<1>3. RowsInv
  BY <1>2 DEF RowsInv
<1>4. NoDuplicate
  BY <1>1 DEF NoDuplicate
<1>5. WindowInv
  BY <1>1 DEF WindowInv, Covered
<1>6. KnownInv
  BY <1>1 DEF KnownInv
<1> QED BY <1>0, <1>3, <1>4, <1>5, <1>6 DEF AccountingInv

LEMMA AccountingStep == AccountingInv /\ [Next]_vars => AccountingInv'
<1> SUFFICES ASSUME AccountingInv, [Next]_vars PROVE AccountingInv'
  OBVIOUS
<1>1. TInv'
  BY TInvStep DEF AccountingInv
<1>2. RowsInv' /\ NoDuplicate' /\ WindowInv' /\ KnownInv'
  BY RowsStep, DuplicateStep, WindowStep, KnownStep DEF AccountingInv
<1> QED BY <1>1, <1>2 DEF AccountingInv

(* No gap between the windows: a job that ended before the current one is  *)
(* in the database with its CPU time, or ended in a window that a process  *)
(* renewed and did not import (worker.cpp:419-525).                        *)
THEOREM WindowsImported == Spec => []WindowImported
<1>1. AccountingInv => WindowImported
  BY DEF AccountingInv, WindowInv, WindowImported, Covered, Settled
<1> QED BY <1>1, AccountingInit, AccountingStep, PTL DEF Spec

(* What a scraper measured is stored only when its job is in jobinfo, as   *)
(* the batch waits for the next import (worker.cpp:532-550).               *)
THEOREM JobsIntroduced == Spec => []JobinfoFirst
<1>1. AccountingInv => JobinfoFirst
  BY DEF AccountingInv, KnownInv, JobinfoFirst, Introduced
<1> QED BY <1>1, AccountingInit, AccountingStep, PTL DEF Spec

(* measurement_quality_ensurance (ddl.cpp:134-156) lets a reading into the *)
(* table once, although windows overlap and processes start anew.          *)
THEOREM StoredOnce == Spec => []NoDuplicate
<1>1. AccountingInv => NoDuplicate
  BY DEF AccountingInv
<1> QED BY <1>1, AccountingInit, AccountingStep, PTL DEF Spec
=============================================================================
