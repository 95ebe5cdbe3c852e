------------------------------ MODULE Messaging ------------------------------
(***************************************************************************)
(* The double-buffered message queues of the watcher server                *)
(* (watcher/src/messaging.cpp) and the two threads that share them:        *)
(*                                                                         *)
(*   - conn_mgr accepts one connection at a time; takein stages what the   *)
(*     scraper sends into the buffer that was current at accept;           *)
(*   - the watcher loop (watcher/src/worker.cpp) imports the accounting    *)
(*     records, drains the frozen buffer with recombine_queue, freezes the *)
(*     current one, analyses and sleeps.  On exit, worker_finalize freezes *)
(*     and drains twice.                                                   *)
(*                                                                         *)
(* A scraper is one process of the scraper job: it measures, sends its     *)
(* group once (sendout) and exits, unless it is killed before.             *)
(***************************************************************************)
EXTENDS Naturals, Sequences, Functions

CONSTANTS
  Scrapers,     (* scraper processes, each with one group to send          *)
  Load,         (* Load[s]: what s staged before sendout                   *)
  Outdated,     (* scrapers built with another protocol or schema version  *)
  Cuts,         (* how many structures may arrive from a killed scraper    *)
  Garbage,      (* values an uninitialised counter may hold                *)
  Prompt,       (* TRUE: a connection ends before the next collection      *)
  ExitWhen,     (* "never", "idle" or "any": when the process may exit     *)
  Nobody        (* the sender named by an uninitialised header             *)

(* For each result its number of GPU measurements, then the numbers of     *)
(* application usages and of available-CPU records.                        *)
Loads == [results : Seq(Nat), usages : Nat, cpus : Nat]

ASSUME MessagingAssumption ==
  /\ \A s \in Scrapers : Load[s] \in Loads
  /\ Outdated \subseteq Scrapers
  /\ Cuts \subseteq Nat
  /\ Garbage \subseteq Nat
  /\ Prompt \in BOOLEAN
  /\ ExitWhen \in {"never", "idle", "any"}
  /\ Nobody \notin Scrapers

VARIABLES
  header_queue, (* header_queue[b]: one header per connection              *)
  queue,        (* queue[b][k]: the payload of kind k of all of them       *)
  cur,          (* the buffer a new connection stages into                 *)
  in_flip,      (* a frozen buffer is waiting to be drained                *)
  is_my_flip,   (* thread_local flag of the watcher thread                 *)
  takein,       (* the locals of the conn_mgr thread                       *)
  scraper,      (* the other end of each connection                        *)
  backlog,      (* connections waiting for accept, in order                *)
  wpc,          (* what the watcher thread does next                       *)
  finals,       (* rounds of worker_finalize left, 0 when not exiting      *)
  first_run,
  group,        (* the result_group_t being recombined, and what is due    *)
  collected     (* the groups handed to the database, in order             *)

queues == <<header_queue, queue>>
flip   == <<cur, in_flip, is_my_flip>>
watch  == <<wpc, finals, first_run, group, collected>>
vars   == <<queues, flip, takein, scraper, backlog, watch>>

-----------------------------------------------------------------------------
(* Elements of the queues.                                                 *)

Buffers == {0, 1}
Payload == {"result", "gpu", "usage", "cpu"}
Senders == Scrapers \union {Nobody}

(* The no-th element of its kind from a sender; gpus is the                *)
(* gpu_measurement_cnt of a result.                                        *)
Elements == [from : Senders, no : Nat, gpus : Nat]
Counts   == [Payload -> Nat]
Headers  == [from : Senders, cnt : Counts]
Data     == [Payload -> Seq(Elements)]

Blank == [from |-> Nobody, no |-> 0, gpus |-> 0]
None  == [k \in Payload |-> 0]
Empty == [k \in Payload |-> <<>>]

(* The header sendout fills from the sizes of its queues.  GPU             *)
(* measurements are counted by the results, not by the header.             *)
HeaderOf(s) ==
  [from |-> s,
   cnt  |-> [k \in Payload |-> CASE k = "result" -> Len(Load[s].results)
                                 [] k = "usage"  -> Load[s].usages
                                 [] k = "cpu"    -> Load[s].cpus
                                 [] OTHER        -> 0]]

(* The n-th element of kind k that s sends.                                *)
Sent(s, k, n) ==
  [from |-> s, no |-> n,
   gpus |-> IF k = "result" /\ n \in DOMAIN Load[s].results
            THEN Load[s].results[n] ELSE 0]

(* Mutant: the loop counters are not compared with the header.             *)
DueAlways(left, k) == k # "gpu" => left["gpu"] = 0

(* Both ends of a queue work through the payload in this order: the GPU    *)
(* measurements of a result directly after it, usages, available CPUs.     *)
Due(left, k) ==
  /\ left[k] > 0
  /\ k # "gpu" => left["gpu"] = 0
  /\ k \in {"usage", "cpu"} => left["result"] = 0
  /\ k = "cpu" => left["usage"] = 0

(* One element e of kind k less to come; a result announces its GPU        *)
(* measurements.                                                           *)
Less(left, k, e) ==
  [j \in Payload |-> IF j = k THEN left[k] - 1
                     ELSE IF j = "gpu" THEN left["gpu"] + e.gpus
                     ELSE left[j]]

(* The locals of takein, the state of a scraper, a result_group_t.         *)
Conns  == [pc : {"accept", "magic", "header", "hostname", "payload"},
           from : Senders, cur_copy : Buffers, got : Nat, header : Headers,
           left : Counts, last : [Payload -> Elements]]
Procs  == [st : {"scraping", "connected", "greeted", "sent", "dead", "lost"},
           cut : Nat]
Groups == [from : Senders, left : Counts, data : Data]
Steps  == {"import", "collect", "recombine", "freeze", "analyze", "exited",
           "undefined"}

TypeOK ==
  /\ header_queue \in [Buffers -> Seq(Headers)]
  /\ queue \in [Buffers -> Data]
  /\ cur \in Buffers
  /\ in_flip \in BOOLEAN
  /\ is_my_flip \in BOOLEAN
  /\ takein \in Conns
  /\ scraper \in [Scrapers -> Procs]
  /\ backlog \in Seq(Scrapers)
  /\ wpc \in Steps
  /\ finals \in 0 .. 2
  /\ first_run \in BOOLEAN
  /\ group \in Groups
  /\ collected \in Seq([from : Senders, data : Data])

-----------------------------------------------------------------------------

Init ==
  /\ header_queue = [b \in Buffers |-> <<>>]
  /\ queue = [b \in Buffers |-> Empty]
  /\ cur = 0
  /\ in_flip = FALSE
  /\ is_my_flip = FALSE
  /\ takein = [pc |-> "accept", from |-> Nobody, cur_copy |-> 0, got |-> 0,
               header |-> [from |-> Nobody, cnt |-> None], left |-> None,
               last |-> [k \in Payload |-> Blank]]
  /\ scraper = [s \in Scrapers |-> [st |-> "scraping", cut |-> 0]]
  /\ backlog = <<>>
  /\ wpc = "import"
  /\ finals = 0
  /\ first_run = TRUE
  /\ group = [from |-> Nobody, left |-> None, data |-> Empty]
  /\ collected = <<>>

Running   == wpc \notin {"exited", "undefined"}
Listening == Running /\ finals = 0      \* finalize() closes the socket first

-----------------------------------------------------------------------------
(* The scrapers.                                                           *)

(* sendout connects and waits for the magic of the server.                 *)
Connect(s) ==
  /\ Listening
  /\ scraper[s].st = "scraping"
  /\ scraper' = [scraper EXCEPT ![s].st = "connected"]
  /\ backlog' = Append(backlog, s)
  /\ UNCHANGED <<queues, flip, takein, watch>>

(* No viable address or no connection: sendout returns, the process exits  *)
(* and what it staged is gone.                                             *)
Unreachable(s) ==
  /\ scraper[s].st = "scraping"
  /\ scraper' = [scraper EXCEPT ![s].st = "lost"]
  /\ UNCHANGED <<queues, flip, takein, backlog, watch>>

(* The rest of sendout: everything is written, nothing is awaited.         *)
Sendout(s) ==
  /\ scraper[s].st = "greeted"
  /\ scraper' = [scraper EXCEPT ![s].st = "sent"]
  /\ UNCHANGED <<queues, flip, takein, backlog, watch>>

(* The scraper job is killed; only the first n structures arrive.          *)
Killed(s) ==
  /\ \/ /\ scraper[s].st = "connected"
        /\ scraper' = [scraper EXCEPT ![s] = [st |-> "dead", cut |-> 0]]
     \/ /\ scraper[s].st = "greeted"
        /\ \E n \in Cuts :
             scraper' = [scraper EXCEPT ![s] = [st |-> "dead", cut |-> n]]
  /\ UNCHANGED <<queues, flip, takein, backlog, watch>>

-----------------------------------------------------------------------------
(* The conn_mgr thread.                                                    *)

Peer == scraper[takein.from]

(* recv has the next structure, or reports the end of the stream, which    *)
(* do_recv does not notice: it leaves the destination as it was.           *)
Arrived ==
  \/ Peer.st = "sent"
  \/ Peer.st = "dead" /\ takein.got < Peer.cut

Ended == Peer.st = "dead" /\ takein.got >= Peer.cut

(* Mutant: the magic of the scraper is awaited first, as sendout awaits    *)
(* the server's.                                                           *)
GreetLater == "connected"

Greet == "greeted"

(* accept, cur_copy = cur, and the magic of the server is sent.            *)
Accept ==
  /\ Listening
  /\ takein.pc = "accept"
  /\ backlog # <<>>
  /\ backlog' = Tail(backlog)
  /\ takein' = [takein EXCEPT !.pc = "magic", !.from = Head(backlog),
                              !.cur_copy = cur, !.got = 0, !.left = None,
                              !.last = [k \in Payload |-> Blank]]
  /\ scraper' = [scraper EXCEPT ![Head(backlog)].st =
                   IF @ = "connected" THEN Greet ELSE @]
  /\ UNCHANGED <<queues, flip, watch>>

RecvMagic ==
  /\ Running
  /\ takein.pc = "magic"
  /\ \/ /\ Arrived
        /\ takein' = [takein EXCEPT !.pc = "header", !.got = @ + 1]
     \/ /\ Ended                        \* uninitialised, so it mismatches
        /\ takein' = [takein EXCEPT !.pc = "accept"]
  /\ UNCHANGED <<queues, flip, scraper, backlog, watch>>

(* The header structure.  header_t initialises its two version fields, so  *)
(* a header that never came passes the version check with any counts.      *)
RecvHeader ==
  /\ Running
  /\ takein.pc = "header"
  /\ \/ /\ Arrived
        /\ takein.from \in Outdated
        /\ takein' = [takein EXCEPT !.pc = "accept"]
     \/ /\ Arrived
        /\ takein.from \notin Outdated
        /\ takein' = [takein EXCEPT !.pc = "hostname", !.got = @ + 1,
                                    !.header = HeaderOf(takein.from)]
     \/ /\ Ended
        /\ \E r, u, c \in Garbage :
             takein' = [takein EXCEPT !.pc = "hostname",
                          !.header = [from |-> Nobody,
                                      cnt |-> [None EXCEPT !["result"] = r,
                                                           !["usage"] = u,
                                                           !["cpu"] = c]]]
  /\ UNCHANGED <<queues, flip, scraper, backlog, watch>>

(* The host name identifies the worker; the header is pushed before any of *)
(* its payload has been received.                                          *)
RecvHostname ==
  /\ Running
  /\ takein.pc = "hostname"
  /\ Arrived \/ Ended
  /\ LET h == IF Arrived THEN takein.header
              ELSE [takein.header EXCEPT !.from = Nobody]
     IN /\ header_queue' = [header_queue EXCEPT ![takein.cur_copy] = Append(@, h)]
        /\ takein' = [takein EXCEPT !.pc = "payload", !.header = h,
                                    !.left = h.cnt,
                                    !.got = IF Arrived THEN @ + 1 ELSE @]
  /\ UNCHANGED <<queue, flip, scraper, backlog, watch>>

(* What the local variable of kind k holds after do_recv: the next element *)
(* of the stream or, at its end, the previous one or stack contents.       *)
Received(k) ==
  IF Arrived
  THEN {Sent(takein.from, k, takein.last[k].no + 1)}
  ELSE IF takein.last[k].no > 0 \/ k # "result"
  THEN {takein.last[k]}
  ELSE {[Blank EXCEPT !.gpus = g] : g \in Garbage}

RecvPayload(k) ==
  /\ Running
  /\ takein.pc = "payload"
  /\ Due(takein.left, k)
  /\ Arrived \/ Ended
  /\ \E e \in Received(k) :
       /\ queue' = [queue EXCEPT ![takein.cur_copy][k] = Append(@, e)]
       /\ takein' = [takein EXCEPT !.left = Less(@, k, e), !.last[k] = e,
                                   !.got = IF Arrived THEN @ + 1 ELSE @]
  /\ UNCHANGED <<header_queue, flip, scraper, backlog, watch>>

(* Mutant: a failed recv ends the loops.                                   *)
StagedOrEnded == takein.left = None \/ Ended

StagedAll == takein.left = None

(* Everything the header announced was staged: close(from).                *)
CloseConn ==
  /\ Running
  /\ takein.pc = "payload"
  /\ StagedAll
  /\ takein' = [takein EXCEPT !.pc = "accept"]
  /\ UNCHANGED <<queues, flip, scraper, backlog, watch>>

-----------------------------------------------------------------------------
(* The watcher thread.                                                     *)

Frozen == 1 - cur

(* A connection accepted before the last freeze is still being taken in.   *)
Straddling == takein.pc # "accept" /\ takein.cur_copy = Frozen

(* The accounting import takes its time; with Prompt every connection that *)
(* was open at the last freeze has ended when it is over.                  *)
Import ==
  /\ wpc = "import"
  /\ Prompt => ~Straddling
  /\ wpc' = IF first_run THEN "freeze" ELSE "collect"
  /\ first_run' = FALSE
  /\ UNCHANGED <<queues, flip, takein, scraper, backlog, finals, group,
                 collected>>

MayExit ==
  \/ ExitWhen = "any"
  \/ ExitWhen = "idle" /\ takein.pc = "accept"

(* Mutant: only the frozen buffer is drained on exit.                      *)
OneFinalRound == 1

FinalRounds == 2

(* exit(1) when slurmdbd cannot be reached, the import not be committed or *)
(* the analysis not be run, or a return of the loop with RUN_ONCE: the     *)
(* socket is closed and worker_finalize runs.  A connection that slips     *)
(* through the accept that was blocked meanwhile counts as one accepted    *)
(* just before.                                                            *)
Exit ==
  /\ MayExit
  /\ wpc \in {"import", "analyze"}
  /\ finals = 0
  /\ wpc' = "freeze"
  /\ finals' = FinalRounds
  /\ UNCHANGED <<queues, flip, takein, scraper, backlog, first_run, group,
                 collected>>

(* Mutant: a buffer is drained right after it was frozen.                  *)
DrainAtOnce == "collect"

(* The loop leaves a frozen buffer alone until the next import.            *)
AfterFreeze == IF finals > 0 THEN "collect" ELSE "analyze"

(* freeze_queue: nothing happens while a frozen buffer is not drained.     *)
FreezeQueue ==
  /\ wpc = "freeze"
  /\ \/ in_flip /\ UNCHANGED flip
     \/ /\ ~in_flip
        /\ cur' = Frozen
        /\ in_flip' = TRUE
        /\ is_my_flip' = TRUE
  /\ wpc' = AfterFreeze
  /\ UNCHANGED <<queues, takein, scraper, backlog, finals, first_run, group,
                 collected>>

(* do_analyze and wait_until.                                              *)
Analyze ==
  /\ wpc = "analyze"
  /\ wpc' = "import"
  /\ UNCHANGED <<queues, flip, takein, scraper, backlog, finals, first_run,
                 group, collected>>

(* Mutants: the version 2 addition is forgotten; the last header is taken. *)
DueVersion1(h) == [h.cnt EXCEPT !["cpu"] = 0]
LastHeader == header_queue[Frozen][Len(header_queue[Frozen])]

DueAfter(h) == h.cnt
NextHeader == Head(header_queue[Frozen])

(* recombine_queue finds a header and pops it.                             *)
RecombineHeader ==
  /\ wpc = "collect"
  /\ in_flip /\ is_my_flip
  /\ header_queue[Frozen] # <<>>
  /\ group' = [from |-> NextHeader.from, left |-> DueAfter(NextHeader),
               data |-> [group.data EXCEPT !["result"] = <<>>,
                                           !["usage"] = <<>>]]
  /\ header_queue' = [header_queue EXCEPT ![Frozen] = Tail(@)]
  /\ wpc' = "recombine"
  /\ UNCHANGED <<queue, flip, takein, scraper, backlog, finals, first_run,
                 collected>>

(* front() and pop() of the next element; undefined on an empty queue.     *)
RecombinePayload(k) ==
  /\ wpc = "recombine"
  /\ Due(group.left, k)
  /\ IF queue[Frozen][k] = <<>>
     THEN /\ wpc' = "undefined"
          /\ UNCHANGED <<queue, group>>
     ELSE LET e == Head(queue[Frozen][k])
          IN /\ group' = [group EXCEPT !.data[k] = Append(@, e),
                                       !.left = Less(@, k, e)]
             /\ queue' = [queue EXCEPT ![Frozen][k] = Tail(@)]
             /\ wpc' = wpc
  /\ UNCHANGED <<header_queue, flip, takein, scraper, backlog, finals,
                 first_run, collected>>

(* Mutants: the flip is given up after the first group, or kept for good.  *)
AnyGroup == TRUE
KeepFlip == UNCHANGED flip

NoHeaderLeft == header_queue[Frozen] = <<>>

GiveUpFlip ==
  /\ is_my_flip' = FALSE
  /\ in_flip' = FALSE
  /\ cur' = cur

(* The group is complete: recombine_queue returns true, gives the flip up  *)
(* with the last header, and collect_msg_queue inserts the whole group.    *)
RecombineEnd ==
  /\ wpc = "recombine"
  /\ group.left = None
  /\ IF NoHeaderLeft THEN GiveUpFlip ELSE UNCHANGED flip
  /\ collected' = Append(collected, [from |-> group.from, data |-> group.data])
  /\ group' = [group EXCEPT !.data = Empty]
  /\ wpc' = "collect"
  /\ UNCHANGED <<queues, takein, scraper, backlog, finals, first_run>>

(* recombine_queue returns false and collect_msg_queue is over.            *)
CollectEnd ==
  /\ wpc = "collect"
  /\ \/ (~in_flip \/ ~is_my_flip) /\ UNCHANGED flip
     \/ in_flip /\ is_my_flip /\ header_queue[Frozen] = <<>> /\ GiveUpFlip
  /\ wpc' = IF finals = 1 THEN "exited" ELSE "freeze"
  /\ finals' = IF finals = 0 THEN 0 ELSE finals - 1
  /\ UNCHANGED <<queues, takein, scraper, backlog, first_run, group,
                 collected>>

-----------------------------------------------------------------------------

ConnMgr ==
  \/ Accept
  \/ RecvMagic
  \/ RecvHeader
  \/ RecvHostname
  \/ \E k \in Payload : RecvPayload(k)
  \/ CloseConn

Watcher ==
  \/ Import
  \/ FreezeQueue
  \/ Analyze
  \/ RecombineHeader
  \/ \E k \in Payload : RecombinePayload(k)
  \/ RecombineEnd
  \/ CollectEnd

Next ==
  \/ \E s \in Scrapers : Connect(s)
  \/ \E s \in Scrapers : Unreachable(s)
  \/ \E s \in Scrapers : Sendout(s)
  \/ \E s \in Scrapers : Killed(s)
  \/ ConnMgr
  \/ Watcher
  \/ Exit

Spec == Init /\ [][Next]_vars

Answer(s) == scraper[s].st = "greeted" /\ (Sendout(s) \/ Killed(s))

(* Both threads keep running, and a scraper that was greeted sends, or is  *)
(* killed: the kernel closes its socket in either case.                    *)
Fairness ==
  /\ WF_vars(ConnMgr)
  /\ WF_vars(Watcher)
  /\ \A s \in Scrapers : WF_vars(Answer(s))

FairSpec == Spec /\ Fairness

-----------------------------------------------------------------------------
(* Properties.                                                             *)

Froms(seq) == [i \in DOMAIN seq |-> seq[i].from]
Members(seq) == {seq[i] : i \in DOMAIN seq}

(* The headers in buffer b whose whole payload has been staged: the one    *)
(* takein works on is the last of its queue.                               *)
Complete(b) ==
  LET h == header_queue[b]
  IN IF takein.pc = "payload" /\ takein.cur_copy = b
     THEN SubSeq(h, 1, Len(h) - 1) ELSE h

(* recombine_queue never calls front() or pop() on an empty queue: what a  *)
(* header announces is there when the header is popped, although takein    *)
(* pushes the header first (messaging.cpp:218) and its payload later.      *)
NoUnderrun == wpc # "undefined"

(* While the watcher drains the frozen buffer, takein does not push into   *)
(* it: the two threads share std::queue objects without any lock, and only *)
(* the pause between a freeze and the drain keeps them apart.              *)
DrainExclusive ==
  wpc \in {"collect", "recombine"} /\ in_flip => ~Straddling

(* A group handed to the database holds only what its own worker sent, and *)
(* all of it in order unless the worker was killed: neither a scraper that *)
(* dies in mid-stream nor a flip moves payload from one group to another.  *)
GroupsIntact ==
  \A g \in Members(collected) :
    /\ \A k \in Payload : \A e \in Members(g.data[k]) : e.from \in {g.from, Nobody}
    /\ g.from \in Scrapers /\ scraper[g.from].st = "sent" =>
         \A k \in Payload :
           g.data[k] = [n \in 1 .. IF k = "gpu"
                                   THEN SumFunction(Load[g.from].results)
                                   ELSE HeaderOf(g.from).cnt[k]
                        |-> Sent(g.from, k, n)]

(* When the buffers are swapped, the one that becomes current is empty, so *)
(* no message is overtaken by a whole round and none is left behind.       *)
SwapsEmptyBuffer ==
  [][cur' # cur => header_queue[cur'] = <<>> /\ queue[cur'] = Empty]_vars

(* On exit, the two freeze-and-collect rounds of worker_finalize leave     *)
(* neither buffer with a message, whichever buffer was frozen before.      *)
ExitDrained ==
  wpc = "exited" =>
    \A b \in Buffers : header_queue[b] = <<>> /\ queue[b] = Empty

(* A group that was taken in is collected eventually (at the second import *)
(* after its connection at the latest), as long as the server runs.        *)
TakenInCollected ==
  \A s \in Scrapers :
    (\E b \in Buffers : s \in Members(Froms(Complete(b))))
      ~> s \in Members(Froms(collected)) \/ wpc = "exited"

(* While the server runs every connection is accepted and ends: a scraper  *)
(* that dies does not keep conn_mgr, which serves one connection at a time, *)
(* from the others.                                                        *)
ScraperServed ==
  \A s \in Scrapers :
    scraper[s].st = "connected"
      ~> \/ wpc = "exited"
         \/ /\ scraper[s].st \in {"sent", "dead"}
            /\ takein.pc = "accept" \/ takein.from # s
            /\ s \notin Members(backlog)

(* The protocol description ends with "Server sends CONFIRM_MAGIC"         *)
(* (messaging.h:39): a scraper is done only when the server has its group. *)
SentIsTakenIn ==
  \A s \in Scrapers :
    scraper[s].st = "sent" =>
      \/ s \in Members(Froms(collected))
      \/ wpc = "recombine" /\ group.from = s
      \/ \E b \in Buffers : s \in Members(Froms(Complete(b)))

(* The two buffers and what was collected from them are one FIFO of whole  *)
(* groups with a batch boundary in it.                                     *)
Drained == Froms(collected)
Current == IF wpc = "recombine" THEN <<group.from>> ELSE <<>>
Buffer  == INSTANCE MessageBuffer WITH
  log   <- Drained \o Current \o Froms(Complete(Frozen)) \o Froms(Complete(cur)),
  batch <- Len(Drained \o Current \o Froms(Complete(Frozen))),
  taken <- Len(Drained)
BufferSpec == Buffer!Spec
=============================================================================
