--------------------------- MODULE Messaging_proof ---------------------------
(***************************************************************************)
(* Proofs about the message queues for every number of scrapers and every  *)
(* load: type correctness, the separation of the two threads, and what is  *)
(* in the queues.                                                          *)
(***************************************************************************)
EXTENDS Messaging, SequenceTheorems, TLAPS

(* The connection being served is a scraper's.                             *)
PeerInv == takein.pc # "accept" => takein.from \in Scrapers

TInv == TypeOK /\ PeerInv

-----------------------------------------------------------------------------

(* What sendout puts on the wire has the types takein expects.             *)
LEMMA HeaderType ==
  ASSUME NEW s \in Scrapers
  PROVE  HeaderOf(s) \in Headers
<1>1. Load[s] \in Loads
  BY MessagingAssumption
<1>2. Len(Load[s].results) \in Nat /\ Load[s].usages \in Nat /\ Load[s].cpus \in Nat
  BY <1>1 DEF Loads
<1> QED
  BY <1>2 DEF HeaderOf, Headers, Counts, Payload, Senders

LEMMA SentType ==
  ASSUME NEW s \in Scrapers, NEW k \in Payload, NEW n \in Nat
  PROVE  Sent(s, k, n) \in Elements
<1>1. Load[s].results \in Seq(Nat)
  BY MessagingAssumption DEF Loads
<1>2. n \in DOMAIN Load[s].results => Load[s].results[n] \in Nat
  BY <1>1
<1> QED
  BY <1>2 DEF Sent, Elements, Senders

(* The loops of takein and recombine_queue count down, never below zero.   *)
LEMMA LessType ==
  ASSUME NEW left \in Counts, NEW k \in Payload, NEW e \in Elements, Due(left, k)
  PROVE  Less(left, k, e) \in Counts
BY DEF Less, Due, Counts, Payload, Elements

LEMMA ReceivedType ==
  ASSUME TInv, takein.pc = "payload", NEW k \in Payload, NEW e \in Received(k)
  PROVE  e \in Elements
<1>1. takein.from \in Scrapers /\ takein.last[k] \in Elements
  BY DEF TInv, TypeOK, PeerInv, Conns
<1>2. takein.last[k].no + 1 \in Nat
  BY <1>1 DEF Elements
<1>3. CASE Arrived
  BY <1>1, <1>2, <1>3, SentType DEF Received
<1>4. CASE ~Arrived /\ (takein.last[k].no > 0 \/ k # "result")
  BY <1>1, <1>4 DEF Received
<1>5. CASE ~Arrived /\ ~(takein.last[k].no > 0 \/ k # "result")
  BY <1>5, MessagingAssumption DEF Received, Blank, Elements, Senders
<1> QED
  BY <1>3, <1>4, <1>5

-----------------------------------------------------------------------------

LEMMA BlankTypes ==
  /\ Blank \in Elements
  /\ None \in Counts
  /\ Empty \in Data
  /\ [from |-> Nobody, cnt |-> None] \in Headers
BY DEF Blank, Elements, None, Counts, Empty, Data, Headers, Senders

LEMMA TInvInit == Init => TInv
<1> SUFFICES ASSUME Init PROVE TInv
  OBVIOUS
<1> USE DEF Init
<1>1. header_queue \in [Buffers -> Seq(Headers)] /\ queue \in [Buffers -> Data]
  BY BlankTypes
<1>2. takein.last \in [Payload -> Elements]
  BY BlankTypes
<1>3. takein \in Conns /\ takein.pc = "accept"
  BY <1>2, BlankTypes DEF Conns, Senders, Buffers
<1>4. scraper \in [Scrapers -> Procs]
  BY DEF Procs
<1>5. group \in Groups
  BY BlankTypes DEF Groups, Senders
<1>6. collected \in Seq([from : Senders, data : Data]) /\ backlog \in Seq(Scrapers)
  OBVIOUS
<1>7. cur \in Buffers /\ in_flip \in BOOLEAN /\ is_my_flip \in BOOLEAN
  BY DEF Buffers
<1>8. wpc \in Steps /\ finals \in 0 .. 2 /\ first_run \in BOOLEAN
  BY DEF Steps
<1> HIDE DEF Init
<1> QED
  BY <1>1, <1>3, <1>4, <1>5, <1>6, <1>7, <1>8 DEF TInv, TypeOK, PeerInv

(* The steps of the scrapers.                                              *)
LEMMA TInvScrapers ==
  ASSUME TInv, NEW s \in Scrapers,
         Connect(s) \/ Unreachable(s) \/ Sendout(s) \/ Killed(s)
  PROVE  TInv'
<1> USE DEF TInv, TypeOK, PeerInv, queues, flip, watch
<1>1. CASE Connect(s)
  <2>1. scraper' \in [Scrapers -> Procs]
    BY <1>1 DEF Connect, Procs
  <2>2. backlog' \in Seq(Scrapers)
    BY <1>1 DEF Connect
  <2> QED
    BY <1>1, <2>1, <2>2 DEF Connect
<1>2. CASE Unreachable(s)
  <2>1. scraper' \in [Scrapers -> Procs]
    BY <1>2 DEF Unreachable, Procs
  <2> QED
    BY <1>2, <2>1 DEF Unreachable
<1>3. CASE Sendout(s)
  <2>1. scraper' \in [Scrapers -> Procs]
    BY <1>3 DEF Sendout, Procs
  <2> QED
    BY <1>3, <2>1 DEF Sendout
<1>4. CASE Killed(s)
  <2>1. \A n \in Cuts \union {0} : [st |-> "dead", cut |-> n] \in Procs
    BY MessagingAssumption DEF Procs
  <2>2. PICK n \in Cuts \union {0} :
           scraper' = [scraper EXCEPT ![s] = [st |-> "dead", cut |-> n]]
    BY <1>4 DEF Killed
  <2>3. scraper' \in [Scrapers -> Procs]
    BY <2>1, <2>2
  <2> QED
    BY <1>4, <2>3 DEF Killed
<1> QED
  BY <1>1, <1>2, <1>3, <1>4

(* A step of conn_mgr that leaves the watcher thread alone has four        *)
(* things to show.                                                         *)
LEMMA ConnMgrFrame ==
  ASSUME TInv, UNCHANGED <<flip, watch>>, header_queue' \in [Buffers -> Seq(Headers)],
         queue' \in [Buffers -> Data], scraper' \in [Scrapers -> Procs],
         backlog' \in Seq(Scrapers), takein' \in Conns, PeerInv'
  PROVE  TInv'
BY DEF TInv, TypeOK, flip, watch

(* What a step of takein makes of its locals.                              *)
LEMMA ConnsRecv ==
  ASSUME NEW t \in Conns
  PROVE  /\ t.got + 1 \in Nat
         /\ [t EXCEPT !.pc = "accept"] \in Conns
         /\ [t EXCEPT !.pc = "header", !.got = @ + 1] \in Conns
<1>1. t.got + 1 \in Nat
  BY DEF Conns
<1>2. [t EXCEPT !.pc = "accept"] \in Conns
  BY DEF Conns
<1>3. [t EXCEPT !.pc = "header", !.got = @ + 1] \in Conns
  BY <1>1 DEF Conns
<1> QED
  BY <1>1, <1>2, <1>3

LEMMA ConnsHeader ==
  ASSUME NEW t \in Conns, NEW h \in Headers
  PROVE  /\ [t EXCEPT !.pc = "hostname", !.got = @ + 1, !.header = h] \in Conns
         /\ [t EXCEPT !.pc = "hostname", !.header = h] \in Conns
<1>1. [t EXCEPT !.pc = "hostname", !.got = @ + 1, !.header = h] \in Conns
  BY ConnsRecv DEF Conns
<1>2. [t EXCEPT !.pc = "hostname", !.header = h] \in Conns
  BY DEF Conns
<1> QED
  BY <1>1, <1>2

(* The steps of conn_mgr.                                                  *)
LEMMA TInvConnMgr ==
  ASSUME TInv, ConnMgr
  PROVE  TInv'
<1> USE DEF PeerInv, queues
<1>a. /\ header_queue \in [Buffers -> Seq(Headers)] /\ queue \in [Buffers -> Data]
      /\ scraper \in [Scrapers -> Procs] /\ backlog \in Seq(Scrapers)
      /\ cur \in Buffers
  BY DEF TInv, TypeOK
<1>b. takein \in Conns /\ PeerInv
  BY DEF TInv, TypeOK
<1>1. CASE Accept
  <2>1. Head(backlog) \in Scrapers /\ Tail(backlog) \in Seq(Scrapers)
    BY <1>a, <1>b, <1>1 DEF Accept
  <2>2. [k \in Payload |-> Blank] \in [Payload -> Elements]
    BY <1>a, <1>b, BlankTypes
  <2>3. takein' \in Conns /\ takein'.from \in Scrapers
    BY <1>a, <1>b, <1>1, <2>1, <2>2, BlankTypes DEF Accept, Conns, Senders
  <2>4. scraper' \in [Scrapers -> Procs]
    BY <1>a, <1>b, <1>1, <2>1 DEF Accept, Procs, Greet
  <2> QED
    BY <1>a, <1>b, <1>1, <2>1, <2>3, <2>4, ConnMgrFrame DEF Accept
<1>2. CASE RecvMagic
  <2>1. \/ takein' = [takein EXCEPT !.pc = "header", !.got = @ + 1]
        \/ takein' = [takein EXCEPT !.pc = "accept"]
    BY <1>2 DEF RecvMagic
  <2>2. takein' \in Conns
    BY <1>b, <2>1, ConnsRecv
  <2>3. takein'.from = takein.from
    BY <1>b, <2>1 DEF Conns
  <2> QED
    BY <1>a, <1>b, <1>2, <2>2, <2>3, ConnMgrFrame DEF RecvMagic
<1>3. CASE RecvHeader
  <2>1. \A r, u, c \in Garbage :
           [from |-> Nobody, cnt |-> [None EXCEPT !["result"] = r,
                                                  !["usage"] = u,
                                                  !["cpu"] = c]] \in Headers
    BY <1>a, <1>b, BlankTypes, MessagingAssumption DEF Headers, Counts, Senders, Payload
  <2>2. takein.from \in Scrapers /\ HeaderOf(takein.from) \in Headers
    BY <1>a, <1>b, <1>3, HeaderType DEF RecvHeader
  <2>3. takein' \in Conns /\ takein'.from = takein.from
    <3>1. CASE takein' = [takein EXCEPT !.pc = "accept"]
      BY <1>b, <3>1 DEF Conns
    <3>2. CASE takein' = [takein EXCEPT !.pc = "hostname", !.got = @ + 1,
                                        !.header = HeaderOf(takein.from)]
      <4>1. takein' \in Conns
        BY <1>b, <2>2, <3>2, ConnsHeader
      <4> QED
        BY <1>b, <3>2, <4>1 DEF Conns
    <3>3. ASSUME NEW h \in Headers,
                 takein' = [takein EXCEPT !.pc = "hostname", !.header = h]
          PROVE  takein' \in Conns /\ takein'.from = takein.from
      BY <1>b, <3>3 DEF Conns
    <3> QED
      BY <1>3, <2>1, <3>1, <3>2, <3>3 DEF RecvHeader
  <2> QED
    BY <1>a, <1>b, <1>3, <2>2, <2>3, ConnMgrFrame DEF RecvHeader
<1>4. CASE RecvHostname
  <2> DEFINE h == IF Arrived THEN takein.header
                  ELSE [takein.header EXCEPT !.from = Nobody]
  <2>1. h \in Headers /\ h.cnt \in Counts
    BY <1>a, <1>b DEF Headers, Senders, Conns
  <2> HIDE DEF h
  <2>2. /\ header_queue' = [header_queue EXCEPT ![takein.cur_copy] = Append(@, h)]
        /\ takein' = [takein EXCEPT !.pc = "payload", !.header = h,
                                    !.left = h.cnt,
                                    !.got = IF Arrived THEN @ + 1 ELSE @]
    BY <1>a, <1>b, <1>4 DEF RecvHostname, h
  <2>3. header_queue' \in [Buffers -> Seq(Headers)]
    <3>1. takein.cur_copy \in Buffers
      BY <1>b DEF Conns
    <3> QED
      BY <1>a, <2>1, <2>2, <3>1
  <2>4. takein' \in Conns /\ takein'.from = takein.from
    <3>1. PICK n \in Nat :
             takein' = [takein EXCEPT !.pc = "payload", !.header = h,
                                      !.left = h.cnt, !.got = n]
      <4>1. takein.got \in Nat /\ takein.got + 1 \in Nat
        BY <1>b DEF Conns
      <4> QED
        BY <2>2, <4>1
    <3> QED
      BY <1>b, <2>1, <3>1 DEF Conns
  <2> QED
    BY <1>a, <1>b, <1>4, <2>3, <2>4, ConnMgrFrame DEF RecvHostname
<1>5. ASSUME NEW k \in Payload, RecvPayload(k)
      PROVE  TInv'
  <2>1. PICK e \in Received(k) :
           /\ queue' = [queue EXCEPT ![takein.cur_copy][k] = Append(@, e)]
           /\ takein' = [takein EXCEPT !.left = Less(@, k, e), !.last[k] = e,
                                       !.got = IF Arrived THEN @ + 1 ELSE @]
    BY <1>a, <1>b, <1>5 DEF RecvPayload
  <2>2. e \in Elements
    BY <1>5, ReceivedType DEF RecvPayload
  <2>3. Less(takein.left, k, e) \in Counts
    BY <1>a, <1>b, <1>5, <2>2, LessType DEF RecvPayload, Conns
  <2>4. queue' \in [Buffers -> Data]
    <3>1. takein.cur_copy \in Buffers
      BY <1>b DEF Conns
    <3> QED
      BY <1>a, <2>1, <2>2, <3>1 DEF Data
  <2>5. [takein.last EXCEPT ![k] = e] \in [Payload -> Elements]
    BY <1>a, <1>b, <2>2 DEF Conns
  <2>6. takein' \in Conns /\ takein'.from = takein.from
    <3>1. PICK n \in Nat :
             takein' = [takein EXCEPT !.left = Less(@, k, e), !.last[k] = e, !.got = n]
      <4>1. takein.got \in Nat /\ takein.got + 1 \in Nat
        BY <1>b DEF Conns
      <4> QED
        BY <2>1, <4>1
    <3> QED
      BY <1>b, <2>3, <2>5, <3>1 DEF Conns
  <2> QED
    BY <1>a, <1>b, <1>5, <2>4, <2>6, ConnMgrFrame DEF RecvPayload
<1>6. CASE CloseConn
  <2>1. takein' \in Conns /\ takein'.from = takein.from
    BY <1>a, <1>b, <1>6 DEF CloseConn, Conns
  <2> QED
    BY <1>a, <1>b, <1>6, <2>1, ConnMgrFrame DEF CloseConn
<1> QED
  BY <1>1, <1>2, <1>3, <1>4, <1>5, <1>6 DEF ConnMgr

(* recombine_queue clears two of the vectors of its group.                 *)
LEMMA ClearedType ==
  ASSUME NEW d \in Data
  PROVE  [d EXCEPT !["result"] = <<>>, !["usage"] = <<>>] \in Data
<1> DEFINE c == [d EXCEPT !["result"] = <<>>, !["usage"] = <<>>]
<1>1. c = [k \in Payload |-> IF k \in {"result", "usage"} THEN <<>> ELSE d[k]]
  BY DEF Data
<1>2. \A k \in Payload : d[k] \in Seq(Elements)
  BY DEF Data
<1>3. <<>> \in Seq(Elements)
  OBVIOUS
<1> QED
  BY <1>1, <1>2, <1>3 DEF Data

(* The steps of the watcher thread.                                        *)
LEMMA TInvWatcher ==
  ASSUME TInv, Watcher \/ Exit
  PROVE  TInv'
<1> USE DEF TInv, TypeOK, PeerInv, queues, flip, watch, Steps
<1>0. Frozen \in Buffers
  BY DEF Frozen, Buffers
<1>1. CASE Import
  BY <1>1 DEF Import
<1>2. CASE FreezeQueue
  BY <1>0, <1>2 DEF FreezeQueue, AfterFreeze
<1>3. CASE Analyze
  BY <1>3 DEF Analyze
<1>4. CASE RecombineHeader
  <2>1. header_queue[Frozen] \in Seq(Headers) /\ header_queue[Frozen] # <<>>
    BY <1>0, <1>4 DEF RecombineHeader
  <2>2. NextHeader \in Headers
    BY <2>1 DEF NextHeader
  <2>3. NextHeader.from \in Senders /\ DueAfter(NextHeader) \in Counts
    BY <2>2 DEF Headers, DueAfter
  <2>4. [group.data EXCEPT !["result"] = <<>>, !["usage"] = <<>>] \in Data
    BY ClearedType DEF Groups
  <2>5. header_queue' \in [Buffers -> Seq(Headers)]
    BY <1>0, <1>4, <2>1 DEF RecombineHeader
  <2>6. group' \in Groups
    BY <1>4, <2>3, <2>4 DEF RecombineHeader, Groups
  <2> QED
    BY <1>4, <2>5, <2>6 DEF RecombineHeader
<1>5. ASSUME NEW k \in Payload, RecombinePayload(k)
      PROVE  TInv'
  <2>1. CASE queue[Frozen][k] = <<>>
    BY <1>5, <2>1 DEF RecombinePayload
  <2>2. CASE queue[Frozen][k] # <<>>
    <3> DEFINE e == Head(queue[Frozen][k])
    <3>1. queue[Frozen] \in Data /\ queue[Frozen][k] \in Seq(Elements)
      BY <1>0 DEF Data
    <3>2. e \in Elements /\ Tail(queue[Frozen][k]) \in Seq(Elements)
      BY <2>2, <3>1
    <3> HIDE DEF e
    <3>3. /\ group' = [group EXCEPT !.data[k] = Append(@, e),
                                    !.left = Less(@, k, e)]
          /\ queue' = [queue EXCEPT ![Frozen][k] = Tail(@)]
          /\ wpc' = wpc
      BY <1>5, <2>2 DEF RecombinePayload, e
    <3>4. Less(group.left, k, e) \in Counts
      BY <1>5, <3>2, LessType DEF RecombinePayload, Groups
    <3>5. [group.data EXCEPT ![k] = Append(@, e)] \in Data
      BY <3>2 DEF Data, Groups
    <3>6. queue' \in [Buffers -> Data]
      BY <1>0, <3>2, <3>3 DEF Data
    <3>7. group' \in Groups
      BY <3>3, <3>4, <3>5 DEF Groups
    <3> QED
      BY <1>5, <3>3, <3>6, <3>7 DEF RecombinePayload
  <2> QED
    BY <2>1, <2>2
<1>6. CASE RecombineEnd
  <2>1. [from |-> group.from, data |-> group.data] \in [from : Senders, data : Data]
    BY DEF Groups
  <2>2. collected' \in Seq([from : Senders, data : Data])
    BY <1>6, <2>1 DEF RecombineEnd
  <2>3. in_flip' \in BOOLEAN /\ is_my_flip' \in BOOLEAN /\ cur' \in Buffers
    BY <1>6 DEF RecombineEnd, GiveUpFlip
  <2>4. group' \in Groups
    BY <1>6, BlankTypes DEF RecombineEnd, Groups
  <2> QED
    BY <1>6, <2>2, <2>3, <2>4 DEF RecombineEnd
<1>7. CASE CollectEnd
  <2>1. in_flip' \in BOOLEAN /\ is_my_flip' \in BOOLEAN /\ cur' \in Buffers
    BY <1>7 DEF CollectEnd, GiveUpFlip
  <2>2. finals' \in 0 .. 2 /\ wpc' \in Steps
    BY <1>7 DEF CollectEnd
  <2> QED
    BY <1>7, <2>1, <2>2 DEF CollectEnd
<1>8. CASE Exit
  BY <1>8 DEF Exit, FinalRounds
<1> QED
  BY <1>1, <1>2, <1>3, <1>4, <1>5, <1>6, <1>7, <1>8 DEF Watcher

LEMMA TInvStep == TInv /\ [Next]_vars => TInv'
<1> SUFFICES ASSUME TInv, [Next]_vars PROVE TInv'
  OBVIOUS
<1>1. CASE UNCHANGED vars
  BY <1>1 DEF vars, queues, flip, watch, TInv, TypeOK, PeerInv
<1>2. CASE Next
  BY <1>2, TInvScrapers, TInvConnMgr, TInvWatcher DEF Next
<1> QED
  BY <1>1, <1>2

(* Type correctness of the queues and of both threads.                     *)
THEOREM TypeCorrect == Spec => []TypeOK
<1>1. TInv => TypeOK
  BY DEF TInv
<1> QED
  BY <1>1, TInvInit, TInvStep, PTL DEF Spec

-----------------------------------------------------------------------------
(* The separation of the two threads.                                      *)

(* While the process exits, nothing is being taken in and nothing is       *)
(* accepted any more: what makes the freeze-and-drain rounds of            *)
(* worker_finalize, which have no pause between them, exclusive too.       *)
ExitIdle == finals > 0 => takein.pc = "accept"

ExclusiveInv == TInv /\ DrainExclusive /\ ExitIdle

LEMMA ExclusiveInit == Init => ExclusiveInv
<1> SUFFICES ASSUME Init PROVE ExclusiveInv
  OBVIOUS
<1>1. wpc = "import" /\ takein.pc = "accept"
  BY DEF Init
<1> QED
  BY <1>1, TInvInit DEF ExclusiveInv, DrainExclusive, ExitIdle

(* A connection stages into the buffer that was current at its accept, and *)
(* the two buffers are different ones.                                     *)
LEMMA AcceptElsewhere ==
  ASSUME TInv, Accept
  PROVE  ~Straddling'
<1>1. cur \in {0, 1} /\ takein \in Conns
  BY DEF TInv, TypeOK, Buffers
<1>2. takein'.cur_copy = cur /\ cur' = cur
  BY <1>1 DEF Accept, flip, Conns
<1> QED
  BY <1>1, <1>2 DEF Straddling, Frozen

(* A later step of takein keeps the buffer.                                *)
LEMMA TakeinStays ==
  ASSUME TInv, ConnMgr, ~Accept
  PROVE  takein.pc # "accept" /\ takein'.cur_copy = takein.cur_copy
<1>1. takein \in Conns
  BY DEF TInv, TypeOK
<1>2. CASE RecvMagic
  BY <1>1, <1>2 DEF RecvMagic, Conns
<1>3. CASE RecvHeader
  BY <1>1, <1>3 DEF RecvHeader, Conns
<1>4. CASE RecvHostname
  BY <1>1, <1>4 DEF RecvHostname, Conns
<1>5. ASSUME NEW k \in Payload, RecvPayload(k)
      PROVE  takein.pc # "accept" /\ takein'.cur_copy = takein.cur_copy
  BY <1>1, <1>5 DEF RecvPayload, Conns
<1>6. CASE CloseConn
  BY <1>1, <1>6 DEF CloseConn, Conns
<1> QED
  BY <1>2, <1>3, <1>4, <1>5, <1>6 DEF ConnMgr

LEMMA ConnMgrKeeps ==
  ASSUME ConnMgr
  PROVE  UNCHANGED <<flip, watch>>
BY DEF ConnMgr, Accept, RecvMagic, RecvHeader, RecvHostname, RecvPayload, CloseConn

LEMMA ScraperKeeps ==
  ASSUME NEW s \in Scrapers,
         Connect(s) \/ Unreachable(s) \/ Sendout(s) \/ Killed(s)
  PROVE  UNCHANGED <<flip, takein, watch>>
BY DEF Connect, Unreachable, Sendout, Killed

LEMMA ExclusiveStep ==
  ASSUME Prompt, ExitWhen # "any", ExclusiveInv, [Next]_vars
  PROVE  ExclusiveInv'
<1> USE DEF DrainExclusive, ExitIdle
<1>1. TInv /\ TInv' /\ DrainExclusive /\ ExitIdle
  BY TInvStep DEF ExclusiveInv
<1>2. finals \in 0 .. 2
  BY <1>1 DEF TInv, TypeOK
<1> SUFFICES DrainExclusive' /\ ExitIdle'
  BY <1>1 DEF ExclusiveInv
<1>3. CASE UNCHANGED vars
  BY <1>1, <1>3 DEF vars, flip, watch, Straddling, Frozen
<1>4. ASSUME NEW s \in Scrapers,
             Connect(s) \/ Unreachable(s) \/ Sendout(s) \/ Killed(s)
      PROVE  DrainExclusive' /\ ExitIdle'
  BY <1>1, <1>4, ScraperKeeps DEF flip, watch, Straddling, Frozen
<1>5. CASE ConnMgr
  <2>1. UNCHANGED <<flip, watch>>
    BY <1>5, ConnMgrKeeps
  <2>2. CASE Accept
    <3>1. ~Straddling'
      BY <1>1, <2>2, AcceptElsewhere
    <3>2. finals = 0
      BY <2>2 DEF Accept, Listening
    <3> QED
      BY <2>1, <3>1, <3>2 DEF watch
  <2>3. CASE ~Accept
    <3>1. takein.pc # "accept" /\ takein'.cur_copy = takein.cur_copy
      BY <1>1, <1>5, <2>3, TakeinStays
    <3> QED
      BY <1>1, <2>1, <3>1 DEF flip, watch, Straddling, Frozen
  <2> QED
    BY <2>2, <2>3
<1>6. CASE Import
  BY <1>1, <1>6 DEF Import, flip, Straddling, Frozen
<1>7. CASE FreezeQueue
  <2>1. finals > 0 => ~Straddling'
    BY <1>1, <1>7 DEF FreezeQueue, Straddling
  <2>2. finals = 0 => wpc' = "analyze"
    BY <1>7 DEF FreezeQueue, AfterFreeze
  <2> QED
    BY <1>1, <1>2, <1>7, <2>1, <2>2 DEF FreezeQueue
<1>8. CASE Analyze
  BY <1>1, <1>8 DEF Analyze
<1>9. CASE RecombineHeader
  BY <1>1, <1>9 DEF RecombineHeader, flip, Straddling, Frozen
<1>10. ASSUME NEW k \in Payload, RecombinePayload(k)
       PROVE  DrainExclusive' /\ ExitIdle'
  BY <1>1, <1>10 DEF RecombinePayload, flip, Straddling, Frozen
<1>11. CASE RecombineEnd
  BY <1>1, <1>11 DEF RecombineEnd, GiveUpFlip, flip, Straddling, Frozen
<1>12. CASE CollectEnd
  <2>1. wpc' \in {"exited", "freeze"}
    BY <1>12 DEF CollectEnd
  <2>2. finals' > 0 => finals > 0
    BY <1>2, <1>12 DEF CollectEnd
  <2> QED
    BY <1>1, <1>12, <2>1, <2>2 DEF CollectEnd
<1>13. CASE Exit
  BY <1>1, <1>13 DEF Exit, MayExit
<1> QED
  BY <1>3, <1>4, <1>5, <1>6, <1>7, <1>8, <1>9, <1>10, <1>11, <1>12, <1>13
     DEF Next, Watcher

(* The watcher thread never drains a buffer takein is still pushing into,  *)
(* for every number of scrapers and every load, as long as a connection    *)
(* ends before the next import does and the process exits between          *)
(* connections: no lock keeps the two threads of messaging.cpp apart.      *)
THEOREM DrainsAlone ==
  ASSUME Prompt, ExitWhen # "any"
  PROVE  Spec => []DrainExclusive
<1>1. Init => ExclusiveInv
  BY ExclusiveInit
<1>2. ExclusiveInv /\ [Next]_vars => ExclusiveInv'
  BY ExclusiveStep
<1>3. ExclusiveInv => DrainExclusive
  BY DEF ExclusiveInv
<1> QED
  BY <1>1, <1>2, <1>3, PTL DEF Spec

-----------------------------------------------------------------------------
(* What a header announces is in the queues when the header is popped, and *)
(* nothing else is: as long as a connection ends before the next import    *)
(* does and the process exits between connections.                         *)

(* w[1] + ... + w[n] = t, by what is left of the sum after each summand.   *)
Total(n, w, t) ==
  \E rest \in [0 .. n -> Nat] :
    /\ rest[0] = t
    /\ rest[n] = 0
    /\ \A i \in 1 .. n : rest[i - 1] = w[i] + rest[i]

LEMMA TotalNone ==
  ASSUME NEW w, NEW t
  PROVE  Total(0, w, t) <=> t = 0
<1>1. ASSUME Total(0, w, t) PROVE t = 0
  BY <1>1 DEF Total
<1>2. Total(0, w, 0)
  <2> DEFINE rest == [i \in 0 .. 0 |-> 0]
  <2>1. rest \in [0 .. 0 -> Nat] /\ rest[0] = 0 /\ \A i \in 1 .. 0 : rest[i - 1] = w[i] + rest[i]
    OBVIOUS
  <2> QED BY <2>1 DEF Total
<1> QED BY <1>1, <1>2

LEMMA TotalMore ==
  ASSUME NEW n \in Nat, NEW w, NEW w2, NEW t, NEW v \in Nat, Total(n, w, t),
         \A i \in 1 .. n : w2[i] = w[i] /\ w2[i] \in Nat, w2[n + 1] = v
  PROVE  t \in Nat /\ Total(n + 1, w2, t + v)
<1>1. PICK rest \in [0 .. n -> Nat] :
        rest[0] = t /\ rest[n] = 0 /\ \A i \in 1 .. n : rest[i - 1] = w[i] + rest[i]
  BY DEF Total
<1> DEFINE more == [i \in 0 .. n + 1 |-> IF i = n + 1 THEN 0 ELSE rest[i] + v]
<1>2. more \in [0 .. n + 1 -> Nat] /\ more[0] = t + v /\ more[n + 1] = 0
  BY <1>1
<1>3. ASSUME NEW i \in 1 .. n + 1 PROVE more[i - 1] = w2[i] + more[i]
  <2>1. CASE i = n + 1
    BY <1>1, <2>1
  <2>2. CASE i \in 1 .. n
    <3>1. rest[i - 1] = w2[i] + rest[i] /\ rest[i] \in Nat
      BY <1>1, <2>2
    <3>2. more[i - 1] = rest[i - 1] + v /\ more[i] = rest[i] + v
      BY <2>2
    <3>3. w2[i] = w[i] /\ w2[i] \in Nat
      BY <2>2
    <3> HIDE DEF more
    <3> QED BY <3>1, <3>2, <3>3
  <2> QED BY <2>1, <2>2
<1>4. \A i \in 1 .. n + 1 : more[i - 1] = w2[i] + more[i]
  BY <1>3
<1>5. t \in Nat
  BY <1>1
<1> HIDE DEF more
<1> QED BY <1>2, <1>4, <1>5 DEF Total

LEMMA TotalLess ==
  ASSUME NEW n \in Nat, n > 0, NEW w, NEW w2, NEW t, NEW v \in Nat, Total(n, w, t),
         v = w[1], \A i \in 1 .. n - 1 : w2[i] = w[i + 1]
  PROVE  t \in Nat /\ t - v \in Nat /\ Total(n - 1, w2, t - v)
<1>1. PICK rest \in [0 .. n -> Nat] :
        rest[0] = t /\ rest[n] = 0 /\ \A i \in 1 .. n : rest[i - 1] = w[i] + rest[i]
  BY DEF Total
<1> DEFINE less == [i \in 0 .. n - 1 |-> rest[i + 1]]
<1>2. rest[0] = v + rest[1] /\ rest[1] \in Nat
  BY <1>1
<1>3. less \in [0 .. n - 1 -> Nat] /\ less[0] = t - v /\ less[n - 1] = 0
  <2>1. less[0] = rest[1] /\ less[n - 1] = rest[n]
    OBVIOUS
  <2>2. \A i \in 0 .. n - 1 : rest[i + 1] \in Nat
    BY <1>1
  <2>3. t = v + rest[1] /\ rest[1] \in Nat
    BY <1>1, <1>2
  <2> QED BY <1>1, <2>1, <2>2, <2>3
<1>4. ASSUME NEW i \in 1 .. n - 1 PROVE less[i - 1] = w2[i] + less[i]
  <2>1. rest[(i + 1) - 1] = w[i + 1] + rest[i + 1]
    BY <1>1
  <2> QED BY <2>1
<1>5. \A i \in 1 .. n - 1 : less[i - 1] = w2[i] + less[i]
  BY <1>4
<1>6. t \in Nat /\ t - v \in Nat
  BY <1>1, <1>2
<1> HIDE DEF less
<1> QED BY <1>3, <1>5, <1>6 DEF Total

-----------------------------------------------------------------------------
(* The invariant.                                                          *)

(* What takein has still to push into buffer b, and recombine_queue to pop *)
(* from it, for the header each of them works on.                          *)
ToPush(b, k) == IF takein.pc = "payload" /\ takein.cur_copy = b THEN takein.left[k] ELSE 0
ToPop(b, k)  == IF wpc = "recombine" /\ b = Frozen THEN group.left[k] ELSE 0

(* The headers in b count the results, usages and available CPUs, the      *)
(* results in b the GPU measurements.                                      *)
Counters(b, k) == IF k = "gpu" THEN Len(queue[b]["result"]) ELSE Len(header_queue[b])
Counted(b, k)  == [i \in 1 .. Counters(b, k) |-> IF k = "gpu" THEN queue[b]["result"][i].gpus
                                                 ELSE header_queue[b][i].cnt[k]]

(* The payload in b is what the headers in b announce, less what takein    *)
(* has not pushed yet, and what is left of the header popped last.         *)
Balanced(b, k) ==
  \E t \in Nat :
    /\ Total(Counters(b, k), Counted(b, k), t)
    /\ Len(queue[b][k]) + ToPush(b, k) = t + ToPop(b, k)

BalanceInv == \A b \in Buffers : \A k \in Payload : Balanced(b, k)

(* No header counts GPU measurements, and only results do.                 *)
HeaderInv ==
  /\ \A b \in Buffers : \A i \in 1 .. Len(header_queue[b]) : header_queue[b][i].cnt["gpu"] = 0
  /\ takein.pc = "hostname" => takein.header.cnt["gpu"] = 0
  /\ \A b \in Buffers : \A k \in Payload \ {"result", "gpu"} :
       \A i \in 1 .. Len(queue[b][k]) : queue[b][k][i].gpus = 0
  /\ \A k \in Payload \ {"result", "gpu"} : takein.last[k].gpus = 0

(* The watcher thread is the only one that freezes and drains; what it     *)
(* does not drain is empty and left alone.                                 *)
Blanked(b) == header_queue[b] = <<>> /\ queue[b] = Empty
FlipInv ==
  /\ is_my_flip = in_flip
  /\ wpc = "recombine" => in_flip
  /\ ~in_flip => Blanked(Frozen) /\ ~Straddling

(* In its last round worker_finalize drains the second buffer.             *)
FinalInv ==
  /\ finals = 1 /\ wpc = "freeze" => ~in_flip
  /\ finals = 1 /\ wpc # "freeze" => Blanked(cur)
  /\ finals > 0 => wpc \in {"freeze", "collect", "recombine", "undefined"}

QueueInv ==
  /\ ExclusiveInv /\ BalanceInv /\ HeaderInv /\ FlipInv /\ FinalInv
  /\ NoUnderrun /\ ExitDrained

-----------------------------------------------------------------------------
(* The balance of a buffer.                                                *)

BufferTyped(b, k) ==
  /\ queue[b][k] \in Seq(Elements) /\ Len(queue[b][k]) \in Nat
  /\ header_queue[b] \in Seq(Headers) /\ Len(header_queue[b]) \in Nat
  /\ ToPush(b, k) \in Nat /\ ToPop(b, k) \in Nat
  /\ Counters(b, k) \in Nat
  /\ \A i \in 1 .. Counters(b, k) : Counted(b, k)[i] \in Nat

QueueTyped == \A b \in Buffers : \A k \in Payload : BufferTyped(b, k)

LEMMA BufferTypes == TypeOK => QueueTyped
<1> SUFFICES ASSUME TypeOK, NEW b \in Buffers, NEW k \in Payload
             PROVE  BufferTyped(b, k)
  BY DEF QueueTyped
<1>1. queue[b] \in Data /\ header_queue[b] \in Seq(Headers)
  BY DEF TypeOK
<1>2. \A j \in Payload : queue[b][j] \in Seq(Elements)
  BY <1>1 DEF Data
<1>3. ToPush(b, k) \in Nat /\ ToPop(b, k) \in Nat
  BY DEF TypeOK, ToPush, ToPop, Conns, Groups, Counts
<1>4. Counters(b, k) \in Nat
  BY <1>1, <1>2 DEF Counters, Payload
<1>5. ASSUME NEW i \in 1 .. Counters(b, k) PROVE Counted(b, k)[i] \in Nat
  <2>1. CASE k = "gpu"
    <3>1. queue[b]["result"] \in Seq(Elements)
      BY <1>2 DEF Payload
    <3>2. queue[b]["result"][i] \in Elements
      BY <1>5, <2>1, <3>1 DEF Counters
    <3> QED BY <2>1, <3>2 DEF Counted, Elements
  <2>2. CASE k # "gpu"
    <3>1. header_queue[b][i] \in Headers
      BY <1>1, <1>5, <2>2 DEF Counters
    <3> QED BY <2>2, <3>1 DEF Counted, Headers, Counts
  <2> QED BY <2>1, <2>2
<1> QED BY <1>1, <1>2, <1>3, <1>4, <1>5 DEF BufferTyped

LEMMA BufferTypesNext == TypeOK' => QueueTyped'
BY BufferTypes, PTL

(* Nothing happens to a buffer and to the header worked on.                *)
LEMMA BalancedKept ==
  ASSUME NEW b \in Buffers, NEW k \in Payload, Balanced(b, k),
         header_queue'[b] = header_queue[b], queue'[b] = queue[b],
         ToPush(b, k)' = ToPush(b, k), ToPop(b, k)' = ToPop(b, k)
  PROVE  Balanced(b, k)'
<1>1. Counters(b, k)' = Counters(b, k)
  BY DEF Counters
<1>2. Counted(b, k)' = Counted(b, k)
  BY <1>1 DEF Counted
<1> QED BY <1>1, <1>2 DEF Balanced

(* As many elements pushed as fewer are to push, or popped as fewer to pop. *)
LEMMA BalancedMoved ==
  ASSUME NEW b \in Buffers, NEW k \in Payload, Balanced(b, k),
         Counters(b, k)' = Counters(b, k),
         \A i \in 1 .. Counters(b, k) : Counted(b, k)'[i] = Counted(b, k)[i],
         TypeOK, TypeOK',
         Len(queue'[b][k]) + ToPush(b, k)' + ToPop(b, k)
           = Len(queue[b][k]) + ToPush(b, k) + ToPop(b, k)'
  PROVE  Balanced(b, k)'
<1>1. PICK t \in Nat : /\ Total(Counters(b, k), Counted(b, k), t)
                       /\ Len(queue[b][k]) + ToPush(b, k) = t + ToPop(b, k)
  BY DEF Balanced
<1>2. Counted(b, k)' = Counted(b, k)
  BY DEF Counted
<1>3. Total(Counters(b, k)', Counted(b, k)', t)
  BY <1>1, <1>2
<1>4. Len(queue'[b][k]) + ToPush(b, k)' = t + ToPop(b, k)'
  <2>1. /\ Len(queue[b][k]) \in Nat /\ ToPush(b, k) \in Nat /\ ToPop(b, k) \in Nat
        /\ Len(queue'[b][k]) \in Nat /\ ToPush(b, k)' \in Nat /\ ToPop(b, k)' \in Nat
    BY BufferTypes, BufferTypesNext DEF QueueTyped, BufferTyped
  <2> DEFINE l1 == Len(queue[b][k])    l2 == Len(queue'[b][k])
             u1 == ToPush(b, k)        u2 == ToPush(b, k)'
             o1 == ToPop(b, k)         o2 == ToPop(b, k)'
  <2>2. l1 \in Nat /\ l2 \in Nat /\ u1 \in Nat /\ u2 \in Nat /\ o1 \in Nat /\ o2 \in Nat
    BY <2>1
  <2>3. l2 + u2 + o1 = l1 + u1 + o2 /\ l1 + u1 = t + o1
    BY <1>1
  <2> HIDE DEF l1, l2, u1, u2, o1, o2
  <2>4. l2 + u2 = t + o2
    BY <2>2, <2>3
  <2> QED BY <2>4 DEF l2, u2, o2
<1> QED BY <1>3, <1>4 DEF Balanced

(* A header, or a result with GPU measurements, is pushed.                 *)
LEMMA BalancedPush ==
  ASSUME NEW b \in Buffers, NEW k \in Payload, Balanced(b, k), TypeOK, TypeOK',
         NEW v \in Nat, Counters(b, k)' = Counters(b, k) + 1,
         \A i \in 1 .. Counters(b, k) : Counted(b, k)'[i] = Counted(b, k)[i],
         Counted(b, k)'[Counters(b, k) + 1] = v,
         queue'[b][k] = queue[b][k],
         ToPush(b, k)' = ToPush(b, k) + v, ToPop(b, k)' = ToPop(b, k)
  PROVE  Balanced(b, k)'
<1>1. PICK t \in Nat : /\ Total(Counters(b, k), Counted(b, k), t)
                       /\ Len(queue[b][k]) + ToPush(b, k) = t + ToPop(b, k)
  BY DEF Balanced
<1>2. BufferTyped(b, k)
  BY BufferTypes DEF QueueTyped
<1>3. Total(Counters(b, k) + 1, Counted(b, k)', t + v)
  <2>1. Counters(b, k) \in Nat
        /\ \A i \in 1 .. Counters(b, k) : Counted(b, k)'[i] \in Nat
    BY <1>2 DEF BufferTyped
  <2> QED BY <1>1, <2>1, TotalMore
<1>4. Len(queue'[b][k]) + ToPush(b, k)' = t + v + ToPop(b, k)'
  <2> DEFINE l == Len(queue[b][k])  u == ToPush(b, k)  o == ToPop(b, k)
  <2>1. l \in Nat /\ u \in Nat /\ o \in Nat /\ l + u = t + o
    BY <1>1, <1>2 DEF BufferTyped
  <2>2. Len(queue'[b][k]) = l /\ ToPush(b, k)' = u + v /\ ToPop(b, k)' = o
    OBVIOUS
  <2> HIDE DEF l, u, o
  <2>3. l + (u + v) = t + v + o
    BY <2>1
  <2> QED BY <2>2, <2>3
<1> QED BY <1>3, <1>4 DEF Balanced

(* A header, or a result with GPU measurements, is popped.                 *)
LEMMA BalancedPop ==
  ASSUME NEW b \in Buffers, NEW k \in Payload, Balanced(b, k), TypeOK, TypeOK',
         NEW v \in Nat, Counters(b, k) > 0, Counters(b, k)' = Counters(b, k) - 1,
         v = Counted(b, k)[1],
         \A i \in 1 .. Counters(b, k) - 1 : Counted(b, k)'[i] = Counted(b, k)[i + 1],
         queue'[b][k] = queue[b][k],
         ToPush(b, k)' = ToPush(b, k), ToPop(b, k)' = ToPop(b, k) + v
  PROVE  Balanced(b, k)'
<1>1. PICK t \in Nat : /\ Total(Counters(b, k), Counted(b, k), t)
                       /\ Len(queue[b][k]) + ToPush(b, k) = t + ToPop(b, k)
  BY DEF Balanced
<1>2. BufferTyped(b, k)
  BY BufferTypes DEF QueueTyped
<1>3. t - v \in Nat /\ Total(Counters(b, k) - 1, Counted(b, k)', t - v)
  <2>1. Counters(b, k) \in Nat
    BY <1>2 DEF BufferTyped
  <2> QED BY <1>1, <2>1, TotalLess
<1>4. Len(queue'[b][k]) + ToPush(b, k)' = t - v + ToPop(b, k)'
  <2> DEFINE l == Len(queue[b][k])  u == ToPush(b, k)  o == ToPop(b, k)
  <2>1. l \in Nat /\ u \in Nat /\ o \in Nat /\ l + u = t + o
    BY <1>1, <1>2 DEF BufferTyped
  <2>2. Len(queue'[b][k]) = l /\ ToPush(b, k)' = u /\ ToPop(b, k)' = o + v
    OBVIOUS
  <2> HIDE DEF l, u, o
  <2>3. l + u = t - v + (o + v)
    BY <2>1
  <2> QED BY <2>2, <2>3
<1> QED BY <1>3, <1>4 DEF Balanced

(* One element less of its own kind, and more GPU measurements only with a *)
(* result.                                                                 *)
LEMMA LessValues ==
  ASSUME NEW l \in Counts, NEW k \in Payload, NEW e \in Elements, Due(l, k),
         k \in {"usage", "cpu"} => e.gpus = 0
  PROVE  /\ Less(l, k, e)[k] + 1 = l[k]
         /\ k = "result" => Less(l, k, e)["gpu"] = l["gpu"] + e.gpus
         /\ \A j \in Payload \ {k} :
              (j = "gpu" /\ k = "result") \/ Less(l, k, e)[j] = l[j]
<1>1. \A j \in Payload : l[j] \in Nat
  BY DEF Counts
<1>2. l[k] - 1 + 1 = l[k] /\ e.gpus \in Nat
  BY <1>1 DEF Elements
<1>3. \A j \in Payload : Less(l, k, e)[j] = IF j = k THEN l[k] - 1
                     ELSE IF j = "gpu" THEN l["gpu"] + e.gpus ELSE l[j]
  BY DEF Less
<1>4. "gpu" \in Payload /\ "result" \in Payload
  BY DEF Payload
<1>5. k = "gpu" \/ k = "result" \/ k \in {"usage", "cpu"}
  BY DEF Payload
<1>6. ASSUME NEW j \in Payload \ {k}
      PROVE  (j = "gpu" /\ k = "result") \/ Less(l, k, e)[j] = l[j]
  BY <1>1, <1>2, <1>3, <1>4, <1>5
<1> QED BY <1>1, <1>2, <1>3, <1>4, <1>6

(* Steps of takein outside of the payload, of the watcher thread outside   *)
(* of a group, and of the scrapers.                                        *)
LEMMA BalanceOthers ==
  ASSUME TypeOK, TypeOK', BalanceInv, UNCHANGED queues,
         takein' # takein => /\ takein.pc = "payload" => takein.left = None
                             /\ takein'.pc # "payload",
         <<wpc', group', cur'>> # <<wpc, group, cur>> =>
           /\ wpc = "recombine" => group.left = None
           /\ wpc' # "recombine"
  PROVE  BalanceInv'
<1> SUFFICES ASSUME NEW b \in Buffers, NEW k \in Payload PROVE Balanced(b, k)'
  BY DEF BalanceInv
<1>1. Balanced(b, k) /\ header_queue'[b] = header_queue[b] /\ queue'[b] = queue[b]
  BY DEF BalanceInv, queues
<1>2. None[k] = 0
  BY DEF None
<1>3. ToPush(b, k)' = ToPush(b, k)
  BY <1>2 DEF ToPush
<1>4. ToPop(b, k)' = ToPop(b, k)
  BY <1>2 DEF ToPop, Frozen
<1> QED BY <1>1, <1>3, <1>4, BalancedKept

LEMMA BalanceHostname ==
  ASSUME TypeOK, TypeOK', BalanceInv, HeaderInv, RecvHostname
  PROVE  BalanceInv'
<1> SUFFICES ASSUME NEW b \in Buffers, NEW k \in Payload PROVE Balanced(b, k)'
  BY DEF BalanceInv
<1> DEFINE b0 == takein.cur_copy
<1>1. PICK h \in Headers :
        /\ h.cnt = takein.header.cnt
        /\ header_queue' = [header_queue EXCEPT ![b0] = Append(@, h)]
        /\ takein'.pc = "payload" /\ takein'.cur_copy = b0 /\ takein'.left = h.cnt
  <2> DEFINE h == IF Arrived THEN takein.header
                  ELSE [takein.header EXCEPT !.from = Nobody]
  <2>1. takein \in Conns /\ takein.header \in Headers
    BY DEF TypeOK, Conns
  <2>2. h \in Headers /\ h.cnt = takein.header.cnt
    BY <2>1 DEF Headers, Senders
  <2> HIDE DEF h
  <2>3. /\ header_queue' = [header_queue EXCEPT ![takein.cur_copy] = Append(@, h)]
        /\ takein' = [takein EXCEPT !.pc = "payload", !.header = h, !.left = h.cnt,
                                    !.got = IF Arrived THEN @ + 1 ELSE @]
    BY DEF RecvHostname, h
  <2>4. takein'.pc = "payload" /\ takein'.cur_copy = takein.cur_copy /\ takein'.left = h.cnt
    BY <2>1, <2>3 DEF Conns
  <2> QED BY <2>2, <2>3, <2>4
<1>2. /\ takein.pc = "hostname" /\ queue' = queue /\ UNCHANGED <<flip, watch>>
      /\ Balanced(b, k) /\ b0 \in Buffers
  BY DEF RecvHostname, BalanceInv, TypeOK, Conns
<1>3. ToPush(b, k) = 0 /\ ToPop(b, k)' = ToPop(b, k)
  BY <1>2 DEF ToPush, ToPop, flip, watch, Frozen
<1>4. CASE b # b0
  <2>1. header_queue'[b] = header_queue[b]
    BY <1>1, <1>4 DEF TypeOK
  <2>2. ToPush(b, k)' = 0
    BY <1>1, <1>4 DEF ToPush
  <2> QED BY <1>2, <1>3, <2>1, <2>2, BalancedKept
<1>5. CASE b = b0
  <2>1. ToPush(b, k)' = h.cnt[k] /\ h.cnt[k] \in Nat
    BY <1>1, <1>5 DEF ToPush, Headers, Counts
  <2>2. header_queue[b] \in Seq(Headers) /\ header_queue'[b] = Append(header_queue[b], h)
    BY <1>1, <1>5 DEF TypeOK
  <2>3. CASE k = "gpu"
    <3>1. ToPush(b, k)' = 0
      BY <1>1, <1>2, <2>1, <2>3 DEF HeaderInv
    <3>2. Counters(b, k)' = Counters(b, k) /\ Counted(b, k)' = Counted(b, k)
      BY <1>2, <2>3 DEF Counters, Counted
    <3> QED BY <1>2, <1>3, <3>1, <3>2, BalancedMoved
  <2>4. CASE k # "gpu"
    <3>1. Counters(b, k)' = Counters(b, k) + 1
      BY <2>2, <2>4 DEF Counters
    <3>2. \A i \in 1 .. Counters(b, k) : Counted(b, k)'[i] = Counted(b, k)[i]
      BY <2>2, <2>4, AppendProperties DEF Counters, Counted
    <3>3. Counted(b, k)'[Counters(b, k) + 1] = h.cnt[k]
      BY <2>2, <2>4, <3>1, AppendProperties DEF Counters, Counted
    <3>4. ToPush(b, k)' = ToPush(b, k) + h.cnt[k]
      BY <1>3, <2>1
    <3> QED BY <1>2, <1>3, <2>1, <3>1, <3>2, <3>3, <3>4, BalancedPush
  <2> QED BY <2>3, <2>4
<1> QED BY <1>4, <1>5

(* What takein receives for a usage or an available CPU counts nothing.    *)
LEMMA ReceivedPlain ==
  ASSUME TInv, HeaderInv, NEW k \in Payload \ {"result", "gpu"}, NEW e \in Received(k),
         takein.pc = "payload"
  PROVE  e.gpus = 0
<1>1. takein.last[k].gpus = 0
  BY DEF HeaderInv
<1>2. CASE Arrived
  BY <1>2 DEF Received, Sent
<1>3. CASE ~Arrived
  BY <1>1, <1>3 DEF Received
<1> QED BY <1>2, <1>3

LEMMA BalancePayload ==
  ASSUME TInv, TypeOK', BalanceInv, HeaderInv, NEW j \in Payload, RecvPayload(j)
  PROVE  BalanceInv'
<1> SUFFICES ASSUME NEW b \in Buffers, NEW k \in Payload PROVE Balanced(b, k)'
  BY DEF BalanceInv
<1> DEFINE b0 == takein.cur_copy
<1>0. TypeOK /\ takein \in Conns /\ b0 \in Buffers /\ queue[b0] \in Data
  BY DEF TInv, TypeOK, Conns
<1>1. PICK e \in Received(j) :
        /\ queue' = [queue EXCEPT ![b0][j] = Append(@, e)]
        /\ takein' = [takein EXCEPT !.left = Less(@, j, e), !.last[j] = e,
                                    !.got = IF Arrived THEN @ + 1 ELSE @]
  BY DEF RecvPayload
<1>2. takein'.pc = "payload" /\ takein'.cur_copy = b0 /\ takein'.left = Less(takein.left, j, e)
  BY <1>0, <1>1 DEF Conns, RecvPayload
<1>3. /\ takein.pc = "payload" /\ header_queue' = header_queue /\ UNCHANGED <<flip, watch>>
      /\ Balanced(b, k) /\ Due(takein.left, j)
  BY DEF RecvPayload, BalanceInv
<1>4. e \in Elements
  BY <1>3, ReceivedType
<1>5. ToPop(b, k)' = ToPop(b, k)
  BY <1>3 DEF ToPop, flip, watch, Frozen
<1>6. CASE b # b0
  <2>1. queue'[b] = queue[b] /\ header_queue'[b] = header_queue[b]
    BY <1>0, <1>1, <1>3, <1>6 DEF TypeOK
  <2>2. ToPush(b, k)' = 0 /\ ToPush(b, k) = 0
    BY <1>2, <1>6 DEF ToPush
  <2> QED BY <1>3, <1>5, <2>1, <2>2, BalancedKept
<1>7. CASE b = b0
  <2>0. /\ Less(takein.left, j, e)[j] + 1 = takein.left[j]
        /\ j = "result" => Less(takein.left, j, e)["gpu"] = takein.left["gpu"] + e.gpus
        /\ \A i \in Payload \ {j} :
             (i = "gpu" /\ j = "result") \/ Less(takein.left, j, e)[i] = takein.left[i]
    <3>1. takein.left \in Counts
      BY <1>0 DEF Conns
    <3>2. j \in {"usage", "cpu"} => e.gpus = 0
      BY <1>3, ReceivedPlain
    <3> QED BY <1>3, <1>4, <3>1, <3>2, LessValues
  <2>1. ToPush(b, k) = takein.left[k] /\ ToPush(b, k)' = Less(takein.left, j, e)[k]
    BY <1>2, <1>3, <1>7 DEF ToPush
  <2>2. queue[b][j] \in Seq(Elements) /\ queue'[b][j] = Append(queue[b][j], e)
        /\ \A i \in Payload \ {j} : queue'[b][i] = queue[b][i]
    BY <1>0, <1>1, <1>7 DEF TypeOK, Data
  <2>3. BufferTyped(b, k) /\ e.gpus \in Nat
    BY <1>0, <1>4, BufferTypes DEF QueueTyped, Elements
  <2>4. CASE k # "gpu" \/ j # "result"
    <3>1. Counters(b, k)' = Counters(b, k) /\ Counted(b, k)' = Counted(b, k)
      <4>1. k = "gpu" => queue'[b]["result"] = queue[b]["result"]
        BY <2>2, <2>4 DEF Payload
      <4> QED BY <1>3, <4>1 DEF Counters, Counted
    <3>2. CASE k = j
      <4>1. Len(queue'[b][k]) = Len(queue[b][k]) + 1
        BY <2>2, <3>2
      <4>2. ToPush(b, k)' + 1 = ToPush(b, k)
        BY <2>0, <2>1, <3>2
      <4>3. Len(queue'[b][k]) + ToPush(b, k)' + ToPop(b, k)
              = Len(queue[b][k]) + ToPush(b, k) + ToPop(b, k)'
        <5> DEFINE l == Len(queue[b][k])  u2 == ToPush(b, k)'  o == ToPop(b, k)
        <5>1. l \in Nat /\ u2 \in Nat /\ o \in Nat
          BY <1>0, <2>3, BufferTypesNext DEF QueueTyped, BufferTyped
        <5>2. u2 + 1 = ToPush(b, k)
          BY <4>2
        <5> HIDE DEF l, u2, o
        <5>3. l + 1 + u2 + o = l + (u2 + 1) + o
          BY <5>1
        <5> QED BY <1>5, <4>1, <5>2, <5>3 DEF l, u2, o
      <4> QED BY <1>0, <1>3, <3>1, <4>3, BalancedMoved
    <3>3. CASE k # j
      <4>1. queue'[b][k] = queue[b][k] /\ ToPush(b, k)' = ToPush(b, k)
        BY <2>0, <2>1, <2>2, <2>4, <3>3
      <4> QED BY <1>0, <1>3, <1>5, <3>1, <4>1, BalancedMoved
    <3> QED BY <3>2, <3>3
  <2>5. CASE k = "gpu" /\ j = "result"
    <3>1. Counters(b, k)' = Counters(b, k) + 1
      BY <2>2, <2>5 DEF Counters
    <3>2. \A i \in 1 .. Counters(b, k) : Counted(b, k)'[i] = Counted(b, k)[i]
      <4> SUFFICES ASSUME NEW i \in 1 .. Counters(b, k)
                   PROVE  Counted(b, k)'[i] = Counted(b, k)[i]
        OBVIOUS
      <4>1. i \in 1 .. Len(queue[b]["result"]) /\ i \in 1 .. Counters(b, k)'
        BY <1>4, <2>2, <2>5, <3>1, AppendProperties DEF Counters
      <4>2. queue'[b]["result"][i] = queue[b]["result"][i]
        BY <1>4, <2>2, <2>5, <4>1, AppendProperties
      <4> QED BY <2>5, <4>1, <4>2 DEF Counted
    <3>3. Counted(b, k)'[Counters(b, k) + 1] = e.gpus
      BY <1>4, <2>2, <2>5, <3>1, AppendProperties DEF Counters, Counted
    <3>4. queue'[b][k] = queue[b][k] /\ ToPush(b, k)' = ToPush(b, k) + e.gpus
      BY <2>0, <2>1, <2>2, <2>5 DEF Payload
    <3> QED BY <1>0, <1>3, <1>5, <2>3, <3>1, <3>2, <3>3, <3>4, BalancedPush
  <2> QED BY <2>4, <2>5
<1> QED BY <1>6, <1>7

LEMMA BalanceHeader ==
  ASSUME TypeOK, TypeOK', BalanceInv, HeaderInv, RecombineHeader
  PROVE  BalanceInv'
<1> SUFFICES ASSUME NEW b \in Buffers, NEW k \in Payload PROVE Balanced(b, k)'
  BY DEF BalanceInv
<1> DEFINE h == header_queue[Frozen]
<1>0. Frozen \in Buffers /\ Frozen' = Frozen
  BY DEF TypeOK, Frozen, Buffers, RecombineHeader, flip
<1>1. /\ wpc = "collect" /\ wpc' = "recombine" /\ takein' = takein /\ queue' = queue
      /\ h # <<>> /\ header_queue' = [header_queue EXCEPT ![Frozen] = Tail(h)]
      /\ group'.left = h[1].cnt /\ Balanced(b, k)
  BY DEF RecombineHeader, BalanceInv, DueAfter, NextHeader
<1>2. h \in Seq(Headers) /\ h[1] \in Headers /\ 1 \in 1 .. Len(h)
  BY <1>0, <1>1 DEF TypeOK
<1>3. ToPush(b, k)' = ToPush(b, k) /\ ToPop(b, k) = 0
  BY <1>1 DEF ToPush, ToPop
<1>4. CASE b # Frozen
  <2>1. header_queue'[b] = header_queue[b] /\ ToPop(b, k)' = 0
    BY <1>0, <1>1, <1>4 DEF TypeOK, ToPop
  <2> QED BY <1>1, <1>3, <2>1, BalancedKept
<1>5. CASE b = Frozen
  <2>1. ToPop(b, k)' = h[1].cnt[k] /\ h[1].cnt[k] \in Nat
    BY <1>0, <1>1, <1>2, <1>5 DEF ToPop, Headers, Counts
  <2>2. header_queue'[b] = Tail(h)
    BY <1>0, <1>1, <1>5 DEF TypeOK
  <2>3. CASE k = "gpu"
    <3>1. ToPop(b, k)' = 0
      BY <1>0, <1>2, <2>1, <2>3 DEF HeaderInv
    <3>2. Counters(b, k)' = Counters(b, k) /\ Counted(b, k)' = Counted(b, k)
      BY <1>1, <2>3 DEF Counters, Counted
    <3> QED BY <1>1, <1>3, <3>1, <3>2, BalancedMoved
  <2>4. CASE k # "gpu"
    <3>0. /\ Len(Tail(h)) = Len(h) - 1 /\ Len(h) \in Nat
          /\ \A i \in 1 .. Len(Tail(h)) : Tail(h)[i] = h[i + 1]
      BY <1>1, <1>2, HeadTailProperties
    <3>1. Counters(b, k) = Len(h) /\ Counters(b, k)' = Counters(b, k) - 1 /\ Counters(b, k) > 0
      BY <1>2, <1>5, <2>2, <2>4, <3>0 DEF Counters
    <3>2. \A i \in 1 .. Counters(b, k) - 1 : Counted(b, k)'[i] = Counted(b, k)[i + 1]
      BY <1>2, <1>5, <2>2, <2>4, <3>0, <3>1 DEF Counters, Counted
    <3>3. h[1].cnt[k] = Counted(b, k)[1]
      BY <1>2, <1>5, <2>4, <3>1 DEF Counted
    <3>4. ToPop(b, k)' = ToPop(b, k) + h[1].cnt[k]
      BY <1>3, <2>1
    <3> QED BY <1>1, <1>3, <2>1, <3>1, <3>2, <3>3, <3>4, BalancedPop
  <2> QED BY <2>3, <2>4
<1> QED BY <1>4, <1>5

(* The queue recombine_queue takes the next element from is not empty.     *)
LEMMA Filled ==
  ASSUME TypeOK, DrainExclusive, FlipInv, BalanceInv, NEW k \in Payload, RecombinePayload(k)
  PROVE  queue[Frozen][k] # <<>>
<1>0. Frozen \in Buffers
  BY DEF TypeOK, Frozen, Buffers
<1>1. ToPop(Frozen, k) = group.left[k] /\ group.left[k] > 0
  BY DEF RecombinePayload, ToPop, Due
<1>2. ToPush(Frozen, k) = 0
  <2>1. ~Straddling
    BY DEF DrainExclusive, FlipInv, RecombinePayload
  <2> QED BY <2>1 DEF Straddling, ToPush
<1>3. PICK t \in Nat : Len(queue[Frozen][k]) + ToPush(Frozen, k) = t + ToPop(Frozen, k)
  BY <1>0 DEF BalanceInv, Balanced
<1>4. ToPop(Frozen, k) \in Nat /\ queue[Frozen][k] \in Seq(Elements)
  BY <1>0, BufferTypes DEF QueueTyped, BufferTyped
<1>5. Len(queue[Frozen][k]) > 0
  BY <1>1, <1>2, <1>3, <1>4
<1> QED BY <1>4, <1>5

LEMMA BalanceElement ==
  ASSUME TypeOK, TypeOK', DrainExclusive, FlipInv, BalanceInv, HeaderInv,
         NEW j \in Payload, RecombinePayload(j)
  PROVE  BalanceInv'
<1> SUFFICES ASSUME NEW b \in Buffers, NEW k \in Payload PROVE Balanced(b, k)'
  BY DEF BalanceInv
<1> DEFINE q == queue[Frozen][j]
           e == q[1]
<1>0. Frozen \in Buffers /\ Frozen' = Frozen /\ queue[Frozen] \in Data /\ group \in Groups
  BY DEF TypeOK, Frozen, Buffers, RecombinePayload, flip
<1>1. q # <<>> /\ q \in Seq(Elements)
  BY <1>0, Filled DEF Data
<1>2. /\ wpc = "recombine" /\ wpc' = wpc /\ takein' = takein /\ header_queue' = header_queue
      /\ group' = [group EXCEPT !.data[j] = Append(@, e), !.left = Less(@, j, e)]
      /\ queue' = [queue EXCEPT ![Frozen][j] = Tail(@)]
      /\ Due(group.left, j) /\ Balanced(b, k)
  BY <1>1 DEF RecombinePayload, BalanceInv
<1>3. /\ e \in Elements /\ 1 \in 1 .. Len(q) /\ Len(Tail(q)) = Len(q) - 1 /\ Len(q) \in Nat
      /\ \A i \in 1 .. Len(Tail(q)) : Tail(q)[i] = q[i + 1]
  BY <1>1, HeadTailProperties
<1>4. ToPush(b, k)' = ToPush(b, k) /\ group'.left = Less(group.left, j, e)
  BY <1>0, <1>2 DEF ToPush, Groups
<1>5. CASE b # Frozen
  <2>1. queue'[b] = queue[b] /\ ToPop(b, k)' = 0 /\ ToPop(b, k) = 0
    BY <1>0, <1>2, <1>5 DEF TypeOK, ToPop
  <2> QED BY <1>2, <1>4, <2>1, BalancedKept
<1>6. CASE b = Frozen
  <2>0. /\ Less(group.left, j, e)[j] + 1 = group.left[j]
        /\ j = "result" => Less(group.left, j, e)["gpu"] = group.left["gpu"] + e.gpus
        /\ \A i \in Payload \ {j} :
             (i = "gpu" /\ j = "result") \/ Less(group.left, j, e)[i] = group.left[i]
    <3>1. group.left \in Counts
      BY <1>0 DEF Groups
    <3>2. j \in {"usage", "cpu"} => e.gpus = 0
      BY <1>0, <1>3 DEF HeaderInv, Payload
    <3> QED BY <1>2, <1>3, <3>1, <3>2, LessValues
  <2>1. ToPop(b, k) = group.left[k] /\ ToPop(b, k)' = Less(group.left, j, e)[k]
    BY <1>0, <1>2, <1>4, <1>6 DEF ToPop
  <2>2. queue[b][j] = q /\ queue'[b][j] = Tail(q)
        /\ \A i \in Payload \ {j} : queue'[b][i] = queue[b][i]
    BY <1>0, <1>2, <1>6 DEF TypeOK, Data
  <2>3. BufferTyped(b, k) /\ e.gpus \in Nat
    BY <1>3, BufferTypes DEF QueueTyped, Elements
  <2>a. header_queue' = header_queue
    BY <1>2
  <2> HIDE DEF q, e
  <2>4. CASE k # "gpu" \/ j # "result"
    <3>1. Counters(b, k)' = Counters(b, k) /\ Counted(b, k)' = Counted(b, k)
      <4>1. k = "gpu" => queue'[b]["result"] = queue[b]["result"]
        BY <2>2, <2>4 DEF Payload
      <4> QED BY <2>a, <4>1 DEF Counters, Counted
    <3>2. CASE k = j
      <4>1. Len(queue'[b][k]) = Len(q) - 1 /\ Len(queue[b][k]) = Len(q)
        BY <1>3, <2>2, <3>2
      <4>2. ToPop(b, k)' + 1 = ToPop(b, k)
        BY <2>0, <2>1, <3>2
      <4>3. Len(queue'[b][k]) + ToPush(b, k)' + ToPop(b, k)
              = Len(queue[b][k]) + ToPush(b, k) + ToPop(b, k)'
        <5> DEFINE l == Len(q)  u == ToPush(b, k)  o2 == ToPop(b, k)'
        <5>1. l \in Nat /\ u \in Nat /\ o2 \in Nat
          BY <1>3, <2>3, BufferTypesNext DEF QueueTyped, BufferTyped
        <5>2. o2 + 1 = ToPop(b, k)
          BY <4>2
        <5> HIDE DEF l, u, o2
        <5>3. l - 1 + u + (o2 + 1) = l + u + o2
          BY <5>1
        <5> QED BY <1>4, <4>1, <5>2, <5>3 DEF l, u, o2
      <4> QED BY <1>2, <3>1, <4>3, BalancedMoved
    <3>3. CASE k # j
      <4>1. queue'[b][k] = queue[b][k] /\ ToPop(b, k)' = ToPop(b, k)
        BY <2>0, <2>1, <2>2, <2>4, <3>3
      <4> QED BY <1>2, <1>4, <3>1, <4>1, BalancedMoved
    <3> QED BY <3>2, <3>3
  <2>5. CASE k = "gpu" /\ j = "result"
    <3>1. Counters(b, k) = Len(q) /\ Counters(b, k)' = Counters(b, k) - 1 /\ Counters(b, k) > 0
      BY <1>3, <2>2, <2>5 DEF Counters
    <3>c. /\ Counted(b, k)  = [i \in 1 .. Len(q) |-> q[i].gpus]
          /\ Counted(b, k)' = [i \in 1 .. Len(Tail(q)) |-> Tail(q)[i].gpus]
      BY <2>2, <2>5 DEF Counted, Counters
    <3>2. \A i \in 1 .. Counters(b, k) - 1 : Counted(b, k)'[i] = Counted(b, k)[i + 1]
      BY <1>3, <3>1, <3>c
    <3>3. e.gpus = Counted(b, k)[1]
      BY <1>3, <3>c DEF e
    <3>4. queue'[b][k] = queue[b][k] /\ ToPop(b, k)' = ToPop(b, k) + e.gpus
      BY <2>0, <2>1, <2>2, <2>5 DEF Payload
    <3> QED BY <1>2, <1>4, <2>3, <3>1, <3>2, <3>3, <3>4, BalancedPop
  <2> QED BY <2>4, <2>5
<1> QED BY <1>5, <1>6

-----------------------------------------------------------------------------
(* Only results count GPU measurements.                                    *)

PlainHeaders(h) == \A i \in 1 .. Len(h) : h[i].cnt["gpu"] = 0
PlainElements(q) == \A i \in 1 .. Len(q) : q[i].gpus = 0

LEMMA PlainAppended ==
  /\ \A h \in Seq(Headers), x \in Headers :
       PlainHeaders(h) /\ x.cnt["gpu"] = 0 => PlainHeaders(Append(h, x))
  /\ \A q \in Seq(Elements), e \in Elements :
       PlainElements(q) /\ e.gpus = 0 => PlainElements(Append(q, e))
<1>1. ASSUME NEW h \in Seq(Headers), NEW x \in Headers, PlainHeaders(h), x.cnt["gpu"] = 0
      PROVE  PlainHeaders(Append(h, x))
  BY <1>1, AppendProperties DEF PlainHeaders
<1>2. ASSUME NEW q \in Seq(Elements), NEW e \in Elements, PlainElements(q), e.gpus = 0
      PROVE  PlainElements(Append(q, e))
  BY <1>2, AppendProperties DEF PlainElements
<1> QED BY <1>1, <1>2

LEMMA PlainPopped ==
  /\ \A h \in Seq(Headers) : h # <<>> /\ PlainHeaders(h) => PlainHeaders(Tail(h))
  /\ \A q \in Seq(Elements) : q # <<>> /\ PlainElements(q) => PlainElements(Tail(q))
<1>1. ASSUME NEW h \in Seq(Headers), h # <<>>, PlainHeaders(h) PROVE PlainHeaders(Tail(h))
  BY <1>1, HeadTailProperties DEF PlainHeaders
<1>2. ASSUME NEW q \in Seq(Elements), q # <<>>, PlainElements(q) PROVE PlainElements(Tail(q))
  BY <1>2, HeadTailProperties DEF PlainElements
<1> QED BY <1>1, <1>2

(* The invariant by its four parts.                                        *)
Plain == Payload \ {"result", "gpu"}

LEMMA HeaderParts ==
  HeaderInv <=> /\ \A b \in Buffers : PlainHeaders(header_queue[b])
                /\ takein.pc = "hostname" => takein.header.cnt["gpu"] = 0
                /\ \A b \in Buffers : \A k \in Plain : PlainElements(queue[b][k])
                /\ \A k \in Plain : takein.last[k].gpus = 0
BY DEF HeaderInv, PlainHeaders, PlainElements, Plain

LEMMA HeaderConnMgr ==
  ASSUME TInv, HeaderInv, ConnMgr
  PROVE  HeaderInv'
<1>0. /\ TypeOK /\ takein \in Conns /\ takein.cur_copy \in Buffers
      /\ header_queue \in [Buffers -> Seq(Headers)] /\ queue \in [Buffers -> Data]
  BY DEF TInv, TypeOK, Conns
<1>1. /\ \A b \in Buffers : PlainHeaders(header_queue[b])
      /\ takein.pc = "hostname" => takein.header.cnt["gpu"] = 0
      /\ \A b \in Buffers : \A k \in Plain : PlainElements(queue[b][k])
      /\ \A k \in Plain : takein.last[k].gpus = 0
  BY HeaderParts
<1> SUFFICES /\ \A b \in Buffers : PlainHeaders(header_queue'[b])
             /\ takein'.pc = "hostname" => takein'.header.cnt["gpu"] = 0
             /\ \A b \in Buffers : \A k \in Plain : PlainElements(queue'[b][k])
             /\ \A k \in Plain : takein'.last[k].gpus = 0
  BY DEF HeaderInv, PlainHeaders, PlainElements, Plain
<1>2. CASE Accept
  <2>1. takein'.pc = "magic" /\ takein'.last = [k \in Payload |-> Blank]
    BY <1>0, <1>2 DEF Accept, Conns
  <2> QED BY <1>1, <1>2, <2>1 DEF Accept, queues, Blank, Plain
<1>3. CASE RecvMagic
  <2>1. takein'.pc # "hostname" /\ takein'.last = takein.last
    BY <1>0, <1>3 DEF RecvMagic, Conns
  <2> QED BY <1>1, <1>3, <2>1 DEF RecvMagic, queues
<1>4. CASE RecvHeader
  <2>1. takein'.last = takein.last
    BY <1>0, <1>4 DEF RecvHeader, Conns
  <2>2. takein'.pc = "hostname" => takein'.header.cnt["gpu"] = 0
    <3>1. CASE takein' = [takein EXCEPT !.pc = "accept"]
      BY <1>0, <3>1 DEF Conns
    <3>2. CASE takein' = [takein EXCEPT !.pc = "hostname", !.got = @ + 1,
                                        !.header = HeaderOf(takein.from)]
      <4>1. HeaderOf(takein.from).cnt["gpu"] = 0
        BY DEF HeaderOf, Payload
      <4>2. takein'.header = HeaderOf(takein.from)
        BY <1>0, <3>2 DEF Conns
      <4> QED BY <4>1, <4>2
    <3>3. ASSUME NEW r \in Garbage, NEW u \in Garbage, NEW c \in Garbage,
                 takein' = [takein EXCEPT !.pc = "hostname",
                              !.header = [from |-> Nobody,
                                          cnt |-> [None EXCEPT !["result"] = r,
                                                               !["usage"] = u,
                                                               !["cpu"] = c]]]
          PROVE  takein'.header.cnt["gpu"] = 0
      <4>1. takein'.header.cnt = [None EXCEPT !["result"] = r, !["usage"] = u, !["cpu"] = c]
        BY <1>0, <3>3 DEF Conns
      <4> QED BY <4>1 DEF None, Payload
    <3> QED BY <1>4, <3>1, <3>2, <3>3 DEF RecvHeader
  <2> QED BY <1>1, <1>4, <2>1, <2>2 DEF RecvHeader, queues
<1>5. CASE RecvHostname
  <2> DEFINE h == IF Arrived THEN takein.header
                  ELSE [takein.header EXCEPT !.from = Nobody]
  <2>1. takein.header \in Headers
    BY <1>0 DEF Conns
  <2>2. h \in Headers /\ h.cnt = takein.header.cnt
    BY <2>1 DEF Headers, Senders
  <2> HIDE DEF h
  <2>3. /\ header_queue' = [header_queue EXCEPT ![takein.cur_copy] = Append(@, h)]
        /\ takein' = [takein EXCEPT !.pc = "payload", !.header = h, !.left = h.cnt,
                                    !.got = IF Arrived THEN @ + 1 ELSE @]
        /\ queue' = queue /\ takein.pc = "hostname"
    BY <1>5 DEF RecvHostname, h
  <2>4. takein'.pc = "payload" /\ takein'.last = takein.last
    BY <1>0, <2>3 DEF Conns
  <2>5. PlainHeaders(Append(header_queue[takein.cur_copy], h))
    BY <1>0, <1>1, <2>2, <2>3, PlainAppended
  <2>6. \A b \in Buffers : PlainHeaders(header_queue'[b])
    BY <1>0, <1>1, <2>3, <2>5
  <2> QED BY <1>1, <2>3, <2>4, <2>6
<1>6. ASSUME NEW j \in Payload, RecvPayload(j)
      PROVE  /\ \A b \in Buffers : PlainHeaders(header_queue'[b])
             /\ takein'.pc = "hostname" => takein'.header.cnt["gpu"] = 0
             /\ \A b \in Buffers : \A k \in Plain : PlainElements(queue'[b][k])
             /\ \A k \in Plain : takein'.last[k].gpus = 0
  <2> DEFINE b0 == takein.cur_copy
  <2>1. PICK e \in Received(j) :
          /\ queue' = [queue EXCEPT ![b0][j] = Append(@, e)]
          /\ takein' = [takein EXCEPT !.left = Less(@, j, e), !.last[j] = e,
                                      !.got = IF Arrived THEN @ + 1 ELSE @]
    BY <1>6 DEF RecvPayload
  <2>2. takein.pc = "payload" /\ header_queue' = header_queue
    BY <1>6 DEF RecvPayload
  <2>3. takein'.pc = "payload" /\ takein'.last = [takein.last EXCEPT ![j] = e]
    BY <1>0, <2>1, <2>2 DEF Conns
  <2>4. e \in Elements /\ (j \in Plain => e.gpus = 0)
    BY <2>2, ReceivedType, ReceivedPlain DEF Plain
  <2>5. \A k \in Plain : takein'.last[k].gpus = 0
    BY <1>0, <1>1, <2>3, <2>4 DEF Conns, Plain
  <2>6. ASSUME NEW b \in Buffers, NEW k \in Plain PROVE PlainElements(queue'[b][k])
    <3>1. queue[b] \in Data /\ queue[b][k] \in Seq(Elements) /\ k \in Payload
      BY <1>0 DEF Data, Plain
    <3>2. queue'[b][k] = IF b = b0 /\ k = j THEN Append(queue[b][k], e) ELSE queue[b][k]
      BY <1>0, <2>1, <3>1 DEF Data
    <3>3. b = b0 /\ k = j => PlainElements(Append(queue[b][k], e))
      BY <1>1, <2>4, <3>1, PlainAppended
    <3> QED BY <1>1, <3>2, <3>3
  <2> QED BY <1>1, <2>2, <2>3, <2>5, <2>6
<1>7. CASE CloseConn
  <2>1. takein'.pc = "accept" /\ takein'.last = takein.last
    BY <1>0, <1>7 DEF CloseConn, Conns
  <2> QED BY <1>1, <1>7, <2>1 DEF CloseConn, queues
<1> QED BY <1>2, <1>3, <1>4, <1>5, <1>6, <1>7 DEF ConnMgr

LEMMA HeaderWatcher ==
  ASSUME TypeOK, HeaderInv, Watcher \/ Exit
  PROVE  HeaderInv'
<1>0. /\ Frozen \in Buffers /\ header_queue \in [Buffers -> Seq(Headers)]
      /\ queue \in [Buffers -> Data] /\ takein' = takein
  <2>1. takein' = takein
    BY DEF Watcher, Import, FreezeQueue, Analyze, RecombineHeader, RecombinePayload,
           RecombineEnd, CollectEnd, Exit
  <2> QED BY <2>1 DEF TypeOK, Frozen, Buffers
<1>1. /\ \A b \in Buffers : PlainHeaders(header_queue[b])
      /\ \A b \in Buffers : \A k \in Plain : PlainElements(queue[b][k])
  BY HeaderParts
<1> SUFFICES /\ \A b \in Buffers : PlainHeaders(header_queue'[b])
             /\ \A b \in Buffers : \A k \in Plain : PlainElements(queue'[b][k])
  BY <1>0 DEF HeaderInv, PlainHeaders, PlainElements, Plain
<1>2. CASE UNCHANGED queues
  BY <1>1, <1>2 DEF queues
<1>3. CASE RecombineHeader
  <2>1. header_queue[Frozen] # <<>>
        /\ header_queue' = [header_queue EXCEPT ![Frozen] = Tail(@)] /\ queue' = queue
    BY <1>3 DEF RecombineHeader
  <2>2. PlainHeaders(Tail(header_queue[Frozen]))
    BY <1>0, <1>1, <2>1, PlainPopped
  <2> QED BY <1>0, <1>1, <2>1, <2>2
<1>4. ASSUME NEW j \in Payload, RecombinePayload(j), ~UNCHANGED queues
      PROVE  /\ \A b \in Buffers : PlainHeaders(header_queue'[b])
             /\ \A b \in Buffers : \A k \in Plain : PlainElements(queue'[b][k])
  <2>1. queue[Frozen][j] # <<>> /\ queue' = [queue EXCEPT ![Frozen][j] = Tail(@)]
        /\ header_queue' = header_queue
    BY <1>4 DEF RecombinePayload, queues
  <2>2. ASSUME NEW b \in Buffers, NEW k \in Plain PROVE PlainElements(queue'[b][k])
    <3>1. queue[b] \in Data /\ queue[b][k] \in Seq(Elements) /\ k \in Payload
      BY <1>0 DEF Data, Plain
    <3>2. queue'[b][k] = IF b = Frozen /\ k = j THEN Tail(queue[b][k]) ELSE queue[b][k]
      BY <1>0, <2>1, <3>1 DEF Data
    <3>3. b = Frozen /\ k = j => PlainElements(Tail(queue[b][k]))
      BY <1>1, <2>1, <3>1, PlainPopped
    <3> QED BY <1>1, <3>2, <3>3
  <2> QED BY <1>1, <2>1, <2>2
<1>5. CASE Import \/ FreezeQueue \/ Analyze \/ RecombineEnd \/ CollectEnd \/ Exit
  <2>1. UNCHANGED queues
    BY <1>5 DEF Import, FreezeQueue, Analyze, RecombineEnd, CollectEnd, Exit
  <2> QED BY <1>2, <2>1
<1> QED BY <1>2, <1>3, <1>4, <1>5 DEF Watcher

-----------------------------------------------------------------------------
(* What is swapped in is empty.                                            *)

(* A buffer without headers that nobody works on has no payload either.    *)
LEMMA NothingLeft ==
  ASSUME TypeOK, BalanceInv, NEW b \in Buffers, header_queue[b] = <<>>,
         \A k \in Payload : ToPush(b, k) = 0 /\ ToPop(b, k) = 0
  PROVE  Blanked(b)
<1>0. queue[b] \in Data
  BY DEF TypeOK
<1>1. ASSUME NEW k \in Payload, Counters(b, k) = 0 PROVE queue[b][k] = <<>>
  <2>1. PICK t \in Nat : /\ Total(0, Counted(b, k), t)
                         /\ Len(queue[b][k]) + ToPush(b, k) = t + ToPop(b, k)
    BY <1>1 DEF BalanceInv, Balanced
  <2>2. t = 0
    BY <2>1, TotalNone
  <2>3. queue[b][k] \in Seq(Elements)
    BY <1>0 DEF Data
  <2>4. Len(queue[b][k]) = 0
    BY <2>1, <2>2, <2>3
  <2> QED BY <2>3, <2>4, EmptySeq
<1>2. \A k \in Payload \ {"gpu"} : queue[b][k] = <<>>
  BY <1>1 DEF Counters
<1>3. queue[b]["gpu"] = <<>>
  <2>1. Counters(b, "gpu") = 0
    BY <1>2 DEF Counters, Payload
  <2> QED BY <1>1, <2>1 DEF Payload
<1>4. \A k \in Payload : queue[b][k] = <<>>
  BY <1>2, <1>3
<1> QED BY <1>0, <1>4 DEF Blanked, Data, Empty

(* The flip is given up over an empty buffer.                              *)
LEMMA DrainedBlank ==
  ASSUME TypeOK, BalanceInv, DrainExclusive, in_flip, wpc \in {"collect", "recombine"},
         wpc = "recombine" => group.left = None, header_queue[Frozen] = <<>>
  PROVE  Blanked(Frozen) /\ ~Straddling
<1>1. ~Straddling /\ Frozen \in Buffers
  BY DEF DrainExclusive, TypeOK, Frozen, Buffers
<1>2. \A k \in Payload : ToPush(Frozen, k) = 0
  BY <1>1 DEF ToPush, Straddling
<1>3. \A k \in Payload : ToPop(Frozen, k) = 0
  BY DEF ToPop, None
<1> QED BY <1>1, <1>2, <1>3, NothingLeft

(* conn_mgr pushes into one buffer only, the one its connection was        *)
(* accepted for.                                                           *)
LEMMA PushedElsewhere ==
  ASSUME TypeOK, ConnMgr, NEW b \in Buffers, ~(takein.pc # "accept" /\ takein.cur_copy = b)
  PROVE  header_queue'[b] = header_queue[b] /\ queue'[b] = queue[b]
<1>0. /\ takein \in Conns /\ takein.cur_copy \in Buffers
      /\ header_queue \in [Buffers -> Seq(Headers)] /\ queue \in [Buffers -> Data]
  BY DEF TypeOK, Conns
<1>1. CASE RecvHostname
  BY <1>0, <1>1 DEF RecvHostname
<1>2. ASSUME NEW k \in Payload, RecvPayload(k)
      PROVE  header_queue'[b] = header_queue[b] /\ queue'[b] = queue[b]
  BY <1>0, <1>2 DEF RecvPayload
<1>3. CASE Accept \/ RecvMagic \/ RecvHeader \/ CloseConn
  BY <1>3 DEF Accept, RecvMagic, RecvHeader, CloseConn, queues
<1> QED BY <1>1, <1>2, <1>3 DEF ConnMgr

LEMMA FlipStep ==
  ASSUME QueueInv, ExclusiveInv', [Next]_vars
  PROVE  FlipInv'
<1> USE DEF FlipInv
<1>0. /\ TypeOK /\ TInv /\ BalanceInv /\ DrainExclusive /\ FlipInv /\ Frozen \in Buffers
      /\ cur \in {0, 1}
  BY DEF QueueInv, ExclusiveInv, TInv, TypeOK, Frozen, Buffers
<1>1. CASE UNCHANGED vars
  BY <1>0, <1>1 DEF vars, flip, watch, queues, Frozen, Straddling, Blanked
<1>2. ASSUME NEW s \in Scrapers,
             Connect(s) \/ Unreachable(s) \/ Sendout(s) \/ Killed(s)
      PROVE  FlipInv'
  <2>1. UNCHANGED <<flip, takein, watch, queues>>
    BY <1>2 DEF Connect, Unreachable, Sendout, Killed
  <2> QED BY <1>0, <2>1 DEF flip, watch, queues, Frozen, Straddling, Blanked
<1>3. CASE ConnMgr
  <2>1. UNCHANGED <<flip, watch>>
    BY <1>3, ConnMgrKeeps
  <2>2. ~Straddling => header_queue'[Frozen] = header_queue[Frozen]
                       /\ queue'[Frozen] = queue[Frozen]
    BY <1>0, <1>3, PushedElsewhere DEF Straddling
  <2>3. ~Straddling => ~Straddling'
    <3>1. CASE Accept
      BY <1>0, <3>1, AcceptElsewhere
    <3>2. CASE ~Accept
      <4>1. takein.pc # "accept" /\ takein'.cur_copy = takein.cur_copy
        BY <1>0, <1>3, <3>2, TakeinStays
      <4> QED BY <2>1, <4>1 DEF flip, Straddling, Frozen
    <3> QED BY <3>1, <3>2
  <2> QED BY <1>0, <2>1, <2>2, <2>3 DEF flip, watch, Frozen, Blanked
<1>4. CASE Import \/ Analyze \/ Exit
  BY <1>0, <1>4 DEF Import, Analyze, Exit, flip, queues, Frozen, Straddling, Blanked
<1>5. CASE FreezeQueue
  <2>1. wpc' # "recombine" /\ UNCHANGED <<queues, takein>>
    BY <1>5 DEF FreezeQueue, AfterFreeze
  <2>2. in_flip' /\ is_my_flip'
    BY <1>0, <1>5 DEF FreezeQueue, flip
  <2> QED BY <2>1, <2>2
<1>6. CASE RecombineHeader
  BY <1>0, <1>6 DEF RecombineHeader, flip
<1>7. ASSUME NEW k \in Payload, RecombinePayload(k) PROVE FlipInv'
  BY <1>0, <1>7 DEF RecombinePayload, flip
<1>8. CASE RecombineEnd
  <2>1. UNCHANGED <<queues, takein>> /\ wpc = "recombine" /\ group.left = None /\ wpc' = "collect"
    BY <1>8 DEF RecombineEnd
  <2>2. CASE NoHeaderLeft
    <3>1. Blanked(Frozen) /\ ~Straddling
      BY <1>0, <2>1, <2>2, DrainedBlank DEF NoHeaderLeft
    <3>2. is_my_flip' = FALSE /\ in_flip' = FALSE /\ cur' = cur
      BY <1>8, <2>2 DEF RecombineEnd, GiveUpFlip
    <3> QED BY <2>1, <3>1, <3>2 DEF Frozen, Straddling, Blanked, queues
  <2>3. CASE ~NoHeaderLeft
    <3>1. UNCHANGED flip
      BY <1>8, <2>3 DEF RecombineEnd
    <3> QED BY <1>0, <2>1, <3>1 DEF flip
  <2> QED BY <2>2, <2>3
<1>9. CASE CollectEnd
  <2>1. UNCHANGED <<queues, takein>> /\ wpc = "collect" /\ wpc' # "recombine"
    BY <1>9 DEF CollectEnd
  <2>2. CASE UNCHANGED flip
    BY <1>0, <2>1, <2>2 DEF flip, queues, Frozen, Straddling, Blanked
  <2>3. CASE in_flip /\ header_queue[Frozen] = <<>> /\ GiveUpFlip
    <3>1. Blanked(Frozen) /\ ~Straddling
      BY <1>0, <2>1, <2>3, DrainedBlank
    <3>2. is_my_flip' = FALSE /\ in_flip' = FALSE /\ cur' = cur
      BY <2>3 DEF GiveUpFlip
    <3> QED BY <2>1, <3>1, <3>2 DEF Frozen, Straddling, Blanked, queues
  <2> QED BY <1>9, <2>2, <2>3 DEF CollectEnd
<1> QED BY <1>1, <1>2, <1>3, <1>4, <1>5, <1>6, <1>7, <1>8, <1>9 DEF Next, Watcher

-----------------------------------------------------------------------------
(* worker_finalize.                                                        *)

(* A step of the watcher thread pops from the frozen buffer only.          *)
LEMMA PoppedElsewhere ==
  ASSUME TypeOK, Watcher \/ Exit
  PROVE  header_queue'[cur] = header_queue[cur] /\ queue'[cur] = queue[cur]
<1>0. /\ cur \in Buffers /\ Frozen # cur
      /\ header_queue \in [Buffers -> Seq(Headers)] /\ queue \in [Buffers -> Data]
  BY DEF TypeOK, Frozen, Buffers
<1>1. CASE RecombineHeader
  BY <1>0, <1>1 DEF RecombineHeader
<1>2. ASSUME NEW k \in Payload, RecombinePayload(k)
      PROVE  header_queue'[cur] = header_queue[cur] /\ queue'[cur] = queue[cur]
  BY <1>0, <1>2 DEF RecombinePayload
<1>3. CASE Import \/ FreezeQueue \/ Analyze \/ RecombineEnd \/ CollectEnd \/ Exit
  BY <1>3 DEF Import, FreezeQueue, Analyze, RecombineEnd, CollectEnd, Exit, queues
<1> QED BY <1>1, <1>2, <1>3 DEF Watcher

LEMMA FinalStep ==
  ASSUME QueueInv, [Next]_vars
  PROVE  FinalInv' /\ NoUnderrun' /\ ExitDrained'
<1> USE DEF FinalInv, NoUnderrun
<1>0. /\ TypeOK /\ BalanceInv /\ DrainExclusive /\ FlipInv /\ ExitIdle
      /\ FinalInv /\ NoUnderrun /\ ExitDrained
      /\ finals \in 0 .. 2 /\ cur \in {0, 1} /\ Frozen \in Buffers /\ cur \in Buffers
  BY DEF QueueInv, ExclusiveInv, TInv, TypeOK, Frozen, Buffers
<1>e. ExitDrained <=> (wpc = "exited" => \A b \in Buffers : Blanked(b))
  BY DEF ExitDrained, Blanked
<1>1. CASE UNCHANGED <<flip, watch, queues>>
  BY <1>0, <1>1 DEF flip, watch, queues, Blanked, ExitDrained
<1>2. ASSUME NEW s \in Scrapers,
             Connect(s) \/ Unreachable(s) \/ Sendout(s) \/ Killed(s)
      PROVE  UNCHANGED <<flip, watch, queues>>
  BY <1>2 DEF Connect, Unreachable, Sendout, Killed
<1>3. CASE ConnMgr
  <2>1. UNCHANGED <<flip, watch>>
    BY <1>3, ConnMgrKeeps
  <2>2. wpc # "exited"
    BY <1>3 DEF ConnMgr, Accept, RecvMagic, RecvHeader, RecvHostname, RecvPayload,
                CloseConn, Listening, Running
  <2>3. finals > 0 => header_queue'[cur] = header_queue[cur] /\ queue'[cur] = queue[cur]
    BY <1>0, <1>3, PushedElsewhere DEF ExitIdle
  <2> QED BY <1>0, <2>1, <2>2, <2>3 DEF flip, watch, Blanked, ExitDrained
<1>4. CASE Import \/ Analyze
  BY <1>0, <1>4 DEF Import, Analyze, ExitDrained
<1>5. CASE Exit
  BY <1>0, <1>5 DEF Exit, FinalRounds, ExitDrained
<1>6. CASE FreezeQueue
  <2>1. /\ wpc = "freeze" /\ wpc' \in {"collect", "analyze"} /\ finals' = finals
        /\ (finals > 0 => wpc' = "collect") /\ UNCHANGED queues
    BY <1>6 DEF FreezeQueue, AfterFreeze
  <2>2. finals = 1 => Blanked(Frozen) /\ cur' = Frozen
    BY <1>0, <1>6, <2>1 DEF FreezeQueue, FlipInv
  <2>3. finals = 1 => Blanked(cur)'
    BY <2>1, <2>2 DEF queues, Blanked
  <2> QED BY <2>1, <2>3 DEF ExitDrained
<1>7. CASE RecombineHeader \/ RecombineEnd
  <2>1. /\ wpc \in {"collect", "recombine"} /\ wpc' \in {"collect", "recombine"}
        /\ finals' = finals /\ cur' = cur
    BY <1>7 DEF RecombineHeader, RecombineEnd, GiveUpFlip, flip
  <2>2. Blanked(cur) => Blanked(cur)'
    BY <1>0, <1>7, <2>1, PoppedElsewhere DEF Watcher, Blanked
  <2> QED BY <1>0, <2>1, <2>2 DEF ExitDrained
<1>8. ASSUME NEW k \in Payload, RecombinePayload(k)
      PROVE  FinalInv' /\ NoUnderrun' /\ ExitDrained'
  <2>1. queue[Frozen][k] # <<>>
    BY <1>0, <1>8, Filled
  <2>2. wpc = "recombine" /\ wpc' = "recombine" /\ finals' = finals /\ cur' = cur
    BY <1>8, <2>1 DEF RecombinePayload, flip
  <2>3. Blanked(cur) => Blanked(cur)'
    BY <1>0, <1>8, <2>2, PoppedElsewhere DEF Watcher, Blanked
  <2> QED BY <1>0, <2>2, <2>3 DEF ExitDrained
<1>9. CASE CollectEnd
  <2>1. /\ wpc = "collect" /\ wpc' = (IF finals = 1 THEN "exited" ELSE "freeze")
        /\ finals' = (IF finals = 0 THEN 0 ELSE finals - 1) /\ UNCHANGED queues
    BY <1>9 DEF CollectEnd
  <2>2. ~in_flip' /\ cur' = cur /\ Blanked(Frozen)
    <3>1. CASE in_flip
      <4>1. header_queue[Frozen] = <<>> /\ GiveUpFlip
        BY <1>0, <1>9, <3>1 DEF CollectEnd, FlipInv
      <4>2. Blanked(Frozen)
        BY <1>0, <2>1, <3>1, <4>1, DrainedBlank
      <4> QED BY <4>1, <4>2 DEF GiveUpFlip
    <3>2. CASE ~in_flip
      <4>1. UNCHANGED flip
        BY <1>9, <3>2 DEF CollectEnd
      <4> QED BY <1>0, <3>2, <4>1 DEF FlipInv, flip
    <3> QED BY <3>1, <3>2
  <2>3. CASE finals = 1
    <3>1. Blanked(cur)
      BY <1>0, <2>1, <2>3
    <3>2. \A b \in Buffers : Blanked(b)
      BY <1>0, <2>2, <3>1 DEF Frozen, Buffers
    <3>3. ExitDrained'
      BY <2>1, <3>2 DEF ExitDrained, Blanked, queues
    <3> QED BY <2>1, <2>3, <3>3
  <2>4. CASE finals # 1
    BY <1>0, <2>1, <2>2, <2>4 DEF ExitDrained
  <2> QED BY <2>3, <2>4
<1> QED BY <1>1, <1>2, <1>3, <1>4, <1>5, <1>6, <1>7, <1>8, <1>9 DEF Next, Watcher, vars

-----------------------------------------------------------------------------
(* All of it is inductive together.                                        *)

LEMMA BalanceStep ==
  ASSUME QueueInv, TypeOK', [Next]_vars
  PROVE  BalanceInv'
<1>0. /\ TypeOK /\ TInv /\ BalanceInv /\ HeaderInv /\ FlipInv /\ DrainExclusive
      /\ takein \in Conns
  BY DEF QueueInv, ExclusiveInv, TInv, TypeOK
<1>1. CASE UNCHANGED <<queues, takein, flip, watch>>
  BY <1>0, <1>1, BalanceOthers DEF flip, watch
<1>2. ASSUME NEW s \in Scrapers,
             Connect(s) \/ Unreachable(s) \/ Sendout(s) \/ Killed(s)
      PROVE  UNCHANGED <<queues, takein, flip, watch>>
  BY <1>2 DEF Connect, Unreachable, Sendout, Killed
<1>3. CASE Accept \/ RecvMagic \/ RecvHeader \/ CloseConn
  <2>1. UNCHANGED <<flip, watch, queues>>
    BY <1>3 DEF Accept, RecvMagic, RecvHeader, CloseConn
  <2>2. takein'.pc # "payload" /\ (takein.pc = "payload" => takein.left = None)
    BY <1>0, <1>3 DEF Accept, RecvMagic, RecvHeader, CloseConn, StagedAll, Conns
  <2> QED BY <1>0, <2>1, <2>2, BalanceOthers DEF flip, watch
<1>4. CASE RecvHostname
  BY <1>0, <1>4, BalanceHostname
<1>5. ASSUME NEW k \in Payload, RecvPayload(k) PROVE BalanceInv'
  BY <1>0, <1>5, BalancePayload
<1>6. CASE Import \/ FreezeQueue \/ Analyze \/ CollectEnd \/ Exit
  <2>1. UNCHANGED <<queues, takein>> /\ wpc # "recombine" /\ wpc' # "recombine"
    BY <1>6 DEF Import, FreezeQueue, AfterFreeze, Analyze, CollectEnd, Exit
  <2> QED BY <1>0, <2>1, BalanceOthers
<1>7. CASE RecombineEnd
  <2>1. UNCHANGED <<queues, takein>> /\ group.left = None /\ wpc' # "recombine"
    BY <1>7 DEF RecombineEnd
  <2> QED BY <1>0, <2>1, BalanceOthers
<1>8. CASE RecombineHeader
  BY <1>0, <1>8, BalanceHeader
<1>9. ASSUME NEW k \in Payload, RecombinePayload(k) PROVE BalanceInv'
  BY <1>0, <1>9, BalanceElement
<1> QED BY <1>1, <1>2, <1>3, <1>4, <1>5, <1>6, <1>7, <1>8, <1>9
        DEF Next, ConnMgr, Watcher, vars

LEMMA QueueInit == Init => QueueInv
<1> SUFFICES ASSUME Init PROVE QueueInv
  OBVIOUS
<1>1. ExclusiveInv
  BY ExclusiveInit
<1>2. /\ \A b \in Buffers : Blanked(b)
      /\ takein.pc = "accept" /\ wpc = "import" /\ finals = 0 /\ cur = 0
      /\ is_my_flip = FALSE /\ in_flip = FALSE
      /\ takein.last = [k \in Payload |-> Blank]
  BY DEF Init, Blanked
<1>3. BalanceInv
  <2> SUFFICES ASSUME NEW b \in Buffers, NEW k \in Payload PROVE Balanced(b, k)
    BY DEF BalanceInv
  <2>1. Counters(b, k) = 0 /\ Len(queue[b][k]) = 0
    BY <1>2 DEF Counters, Blanked, Empty, Payload
  <2>2. ToPush(b, k) = 0 /\ ToPop(b, k) = 0
    BY <1>2 DEF ToPush, ToPop
  <2>3. Total(0, Counted(b, k), 0)
    BY TotalNone
  <2> QED BY <2>1, <2>2, <2>3 DEF Balanced
<1>4. HeaderInv
  BY <1>2 DEF HeaderInv, Blanked, Empty, Blank
<1>5. FlipInv /\ FinalInv /\ NoUnderrun /\ ExitDrained
  <2>1. Frozen \in Buffers
    BY <1>2 DEF Frozen, Buffers
  <2>2. FlipInv
    BY <1>2, <2>1 DEF FlipInv, Straddling
  <2> QED BY <1>2, <2>2 DEF FinalInv, NoUnderrun, ExitDrained
<1> QED BY <1>1, <1>3, <1>4, <1>5 DEF QueueInv

LEMMA QueueStep ==
  ASSUME Prompt, ExitWhen # "any", QueueInv, [Next]_vars
  PROVE  QueueInv'
<1>1. ExclusiveInv'
  BY ExclusiveStep DEF QueueInv
<1>2. BalanceInv'
  BY <1>1, BalanceStep DEF ExclusiveInv, TInv
<1>3. HeaderInv'
  <2>1. TInv /\ TypeOK /\ HeaderInv
    BY DEF QueueInv, ExclusiveInv, TInv
  <2>2. CASE ConnMgr
    BY <2>1, <2>2, HeaderConnMgr
  <2>3. CASE Watcher \/ Exit
    BY <2>1, <2>3, HeaderWatcher
  <2>4. CASE UNCHANGED <<queues, takein>>
    BY <2>1, <2>4 DEF HeaderInv, queues
  <2>5. ASSUME NEW s \in Scrapers,
               Connect(s) \/ Unreachable(s) \/ Sendout(s) \/ Killed(s)
        PROVE  UNCHANGED <<queues, takein>>
    BY <2>5 DEF Connect, Unreachable, Sendout, Killed
  <2> QED BY <2>2, <2>3, <2>4, <2>5 DEF Next, vars
<1>4. FlipInv'
  BY <1>1, FlipStep
<1>5. FinalInv' /\ NoUnderrun' /\ ExitDrained'
  BY FinalStep
<1> QED BY <1>1, <1>2, <1>3, <1>4, <1>5 DEF QueueInv

-----------------------------------------------------------------------------

LEMMA QueueInvariant == ASSUME Prompt, ExitWhen # "any" PROVE Spec => []QueueInv
<1>1. QueueInv /\ [Next]_vars => QueueInv'
  BY QueueStep
<1> QED BY <1>1, QueueInit, PTL DEF Spec

(* recombine_queue finds every element its header announces                *)
(* (messaging.cpp:122-163), although the header is pushed first.           *)
THEOREM NeverUnderrun ==
  ASSUME Prompt, ExitWhen # "any"
  PROVE  Spec => []NoUnderrun
<1>1. QueueInv => NoUnderrun
  BY DEF QueueInv
<1> QED BY <1>1, QueueInvariant, PTL

(* worker_finalize leaves no message in either buffer.                     *)
THEOREM ExitsDrained ==
  ASSUME Prompt, ExitWhen # "any"
  PROVE  Spec => []ExitDrained
<1>1. QueueInv => ExitDrained
  BY DEF QueueInv
<1> QED BY <1>1, QueueInvariant, PTL

(* The buffer that a freeze makes the current one is empty.                *)
THEOREM SwapsEmpty ==
  ASSUME Prompt, ExitWhen # "any"
  PROVE  Spec => SwapsEmptyBuffer
<1>1. QueueInv /\ [Next]_vars
        => [cur' # cur => header_queue[cur'] = <<>> /\ queue[cur'] = Empty]_vars
  <2> SUFFICES ASSUME QueueInv, Next, cur' # cur
               PROVE  Blanked(cur')
    BY DEF Blanked
  <2>1. FlipInv
    BY DEF QueueInv
  <2>2. FreezeQueue
    BY DEF Next, Connect, Unreachable, Sendout, Killed, ConnMgr, Accept, RecvMagic, RecvHeader,
           RecvHostname, RecvPayload, CloseConn, Watcher, Import, Analyze, RecombineHeader,
           RecombinePayload, RecombineEnd, CollectEnd, GiveUpFlip, Exit, flip
  <2>3. ~in_flip /\ cur' = Frozen
    BY <2>2 DEF FreezeQueue, flip
  <2> QED BY <2>1, <2>3 DEF FlipInv
<1> QED BY <1>1, QueueInvariant, PTL DEF Spec, SwapsEmptyBuffer
=============================================================================
