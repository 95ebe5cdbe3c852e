------------------------- MODULE MessageBuffer_proof -------------------------
(***************************************************************************)
(* The two buffers implement MessageBuffer: one FIFO of whole groups, each *)
(* delivered once, with a batch boundary in it; and what is delivered as a *)
(* group is the payload of one scraper.                                    *)
(***************************************************************************)
EXTENDS Messaging_proof, Folds_proof

-----------------------------------------------------------------------------
(* The abstract variables.                                                 *)

Batched == Drained \o Current \o Froms(Complete(Frozen))
Log     == Batched \o Froms(Complete(cur))

(* The header takein works on is the last one of its queue, and a          *)
(* connection that was open at the freeze is older than all of the current *)
(* buffer.                                                                 *)
LastInv ==
  /\ takein.pc = "payload" =>
       LET h == header_queue[takein.cur_copy]
       IN  h # <<>> /\ h[Len(h)] = takein.header
  /\ takein.pc \in {"hostname", "payload"} => takein.header.from \in {takein.from, Nobody}
  /\ Straddling => header_queue[cur] = <<>>

(* A scraper connects once, is accepted once and is logged once.           *)
Logged(s)  == \E i \in 1 .. Len(Log) : Log[i] = s
Waiting(s) == \E i \in 1 .. Len(backlog) : backlog[i] = s
Serving(s) == takein.pc # "accept" /\ takein.from = s
OnceInv ==
  /\ \A s \in Scrapers : scraper[s].st = "scraping" =>
       ~Logged(s) /\ ~Waiting(s) /\ ~Serving(s)
  /\ \A s \in Scrapers : Waiting(s) => ~Logged(s) /\ ~Serving(s)
  /\ \A s \in Scrapers : Serving(s) => ~Logged(s)
  /\ \A i, j \in 1 .. Len(backlog) : backlog[i] = backlog[j] => i = j

BufferInv == QueueInv /\ LastInv /\ OnceInv

-----------------------------------------------------------------------------
(* The senders of a sequence of headers or groups.                         *)

LEMMA FromsType ==
  ASSUME NEW S, \A x \in S : x.from \in Senders, NEW seq \in Seq(S)
  PROVE  /\ Froms(seq) \in Seq(Senders) /\ Len(Froms(seq)) = Len(seq)
         /\ \A i \in 1 .. Len(seq) : Froms(seq)[i] = seq[i].from
<1>1. Froms(seq) = [i \in 1 .. Len(seq) |-> seq[i].from] /\ Len(seq) \in Nat
  BY DEF Froms
<1>2. \A i \in 1 .. Len(seq) : seq[i].from \in Senders
  OBVIOUS
<1> QED BY <1>1, <1>2

LEMMA FromsEmpty == Froms(<<>>) = <<>>
BY DEF Froms

LEMMA FromsAppend ==
  ASSUME NEW S, \A x \in S : x.from \in Senders, NEW seq \in Seq(S), NEW x \in S
  PROVE  Froms(Append(seq, x)) = Append(Froms(seq), x.from)
<1> DEFINE f == Froms(Append(seq, x))
           g == Append(Froms(seq), x.from)
<1>1. Append(seq, x) \in Seq(S) /\ Len(Append(seq, x)) = Len(seq) + 1
      /\ (\A i \in 1 .. Len(seq) : Append(seq, x)[i] = seq[i])
      /\ Append(seq, x)[Len(seq) + 1] = x
  BY AppendProperties
<1>2. f \in Seq(Senders) /\ Len(f) = Len(seq) + 1
      /\ \A i \in 1 .. Len(seq) + 1 : f[i] = Append(seq, x)[i].from
  BY <1>1, FromsType
<1>3. Froms(seq) \in Seq(Senders) /\ Len(Froms(seq)) = Len(seq) /\ x.from \in Senders
      /\ \A i \in 1 .. Len(seq) : Froms(seq)[i] = seq[i].from
  BY FromsType
<1>4. g \in Seq(Senders) /\ Len(g) = Len(seq) + 1 /\ g[Len(seq) + 1] = x.from
      /\ \A i \in 1 .. Len(seq) : g[i] = seq[i].from
  BY <1>3, AppendProperties
<1>5. ASSUME NEW i \in 1 .. Len(f) PROVE f[i] = g[i]
  <2>1. i \in 1 .. Len(seq) \/ i = Len(seq) + 1
    BY <1>2
  <2> QED BY <1>1, <1>2, <1>4, <2>1
<1> HIDE DEF f, g
<1>6. f = g
  BY <1>2, <1>4, <1>5, SeqEqual
<1> QED BY <1>6 DEF f, g

LEMMA FrontProperties ==
  ASSUME NEW S, NEW seq \in Seq(S), seq # <<>>
  PROVE  /\ SubSeq(seq, 1, Len(seq) - 1) \in Seq(S)
         /\ Len(SubSeq(seq, 1, Len(seq) - 1)) = Len(seq) - 1
         /\ \A i \in 1 .. Len(seq) - 1 : SubSeq(seq, 1, Len(seq) - 1)[i] = seq[i]
<1> DEFINE n == Len(seq) - 1
<1>1. Len(seq) \in Nat \ {0}
  BY EmptySeq
<1>2. n \in Nat /\ \A i \in 1 .. n : i \in 1 .. Len(seq)
  BY <1>1
<1>3. \A i \in 1 .. n : seq[i] \in S
  BY <1>2
<1> HIDE DEF n
<1>4. /\ SubSeq(seq, 1, n) \in Seq(S)
      /\ Len(SubSeq(seq, 1, n)) = IF 1 <= n THEN n - 1 + 1 ELSE 0
      /\ \A i \in 1 .. n - 1 + 1 : SubSeq(seq, 1, n)[i] = seq[1 + i - 1]
  BY <1>2, <1>3, SubSeqProperties
<1>5. Len(SubSeq(seq, 1, n)) = n /\ \A i \in 1 .. n : SubSeq(seq, 1, n)[i] = seq[i]
  BY <1>2, <1>4
<1> QED BY <1>4, <1>5 DEF n

LEMMA FromsLast ==
  ASSUME NEW S, \A x \in S : x.from \in Senders, NEW seq \in Seq(S), seq # <<>>
  PROVE  Froms(seq) = Append(Froms(SubSeq(seq, 1, Len(seq) - 1)), seq[Len(seq)].from)
<1> DEFINE front == SubSeq(seq, 1, Len(seq) - 1)
<1>1. Len(seq) \in Nat \ {0} /\ seq[Len(seq)] \in S
  BY EmptySeq
<1>2. front \in Seq(S) /\ Len(front) = Len(seq) - 1
      /\ \A i \in 1 .. Len(seq) - 1 : front[i] = seq[i]
  BY FrontProperties
<1>3. seq = Append(front, seq[Len(seq)])
  <2> DEFINE a == Append(front, seq[Len(seq)])
  <2>1. a \in Seq(S) /\ Len(a) = Len(seq) /\ a[Len(seq)] = seq[Len(seq)]
        /\ \A i \in 1 .. Len(seq) - 1 : a[i] = seq[i]
    BY <1>1, <1>2, AppendProperties
  <2>2. ASSUME NEW i \in 1 .. Len(seq) PROVE seq[i] = a[i]
    BY <1>1, <2>1
  <2> HIDE DEF a
  <2>3. seq = a
    BY <2>1, <2>2, SeqEqual
  <2> QED BY <2>3 DEF a
<1> HIDE DEF front
<1>4. Froms(Append(front, seq[Len(seq)])) = Append(Froms(front), seq[Len(seq)].from)
  BY <1>1, <1>2, FromsAppend
<1> QED BY <1>2, <1>3, <1>4 DEF front

LEMMA FromsHead ==
  ASSUME NEW S, \A x \in S : x.from \in Senders, NEW seq \in Seq(S), seq # <<>>
  PROVE  Froms(seq) = <<Head(seq).from>> \o Froms(Tail(seq))
<1> DEFINE g == <<Head(seq).from>> \o Froms(Tail(seq))
<1>1. Len(seq) \in Nat \ {0} /\ Head(seq) = seq[1] /\ seq[1] \in S
  BY EmptySeq
<1>2. Tail(seq) \in Seq(S) /\ Len(Tail(seq)) = Len(seq) - 1
      /\ \A i \in 1 .. Len(Tail(seq)) : Tail(seq)[i] = seq[i + 1]
  BY HeadTailProperties
<1>3. Froms(Tail(seq)) \in Seq(Senders) /\ Len(Froms(Tail(seq))) = Len(seq) - 1
      /\ \A i \in 1 .. Len(seq) - 1 : Froms(Tail(seq))[i] = seq[i + 1].from
  <2> DEFINE t == Tail(seq)
  <2>1. t \in Seq(S) /\ Len(t) = Len(seq) - 1 /\ \A i \in 1 .. Len(t) : t[i] = seq[i + 1]
    BY <1>2
  <2> HIDE DEF t
  <2>2. Froms(t) \in Seq(Senders) /\ Len(Froms(t)) = Len(t)
        /\ \A i \in 1 .. Len(t) : Froms(t)[i] = t[i].from
    BY <2>1, FromsType
  <2>3. \A i \in 1 .. Len(t) : Froms(t)[i] = seq[i + 1].from
    BY <2>1, <2>2
  <2> QED BY <2>1, <2>2, <2>3 DEF t
<1>4. <<Head(seq).from>> \in Seq(Senders) /\ Len(<<Head(seq).from>>) = 1
      /\ <<Head(seq).from>>[1] = seq[1].from
  BY <1>1
<1>5. g \in Seq(Senders) /\ Len(g) = Len(seq)
      /\ \A i \in 1 .. Len(seq) : g[i] = IF i <= 1 THEN <<Head(seq).from>>[i]
                                                ELSE Froms(Tail(seq))[i - 1]
  BY <1>1, <1>3, <1>4, ConcatProperties
<1>6. Froms(seq) \in Seq(Senders) /\ Len(Froms(seq)) = Len(seq)
      /\ \A i \in 1 .. Len(seq) : Froms(seq)[i] = seq[i].from
  BY FromsType
<1>7. ASSUME NEW i \in 1 .. Len(seq) PROVE Froms(seq)[i] = g[i]
  <2>1. CASE i = 1
    BY <1>4, <1>5, <1>6, <2>1
  <2>2. CASE i > 1
    <3>1. i - 1 \in 1 .. Len(seq) - 1 /\ i - 1 + 1 = i
      BY <1>1, <2>2
    <3>2. Froms(Tail(seq))[i - 1] = seq[i].from
      BY <1>3, <3>1
    <3>3. g[i] = Froms(Tail(seq))[i - 1]
      BY <1>5, <2>2
    <3> HIDE DEF g
    <3> QED BY <1>6, <3>2, <3>3
  <2>3. i = 1 \/ i > 1
    OBVIOUS
  <2> HIDE DEF g
  <2> QED BY <2>1, <2>2, <2>3
<1> HIDE DEF g
<1>8. Froms(seq) = g
  BY <1>5, <1>6, <1>7, SeqEqual
<1> QED BY <1>8 DEF g

(* The header pushed last is not part of the complete ones.                *)
LEMMA FrontOfAppend ==
  ASSUME NEW S, NEW seq \in Seq(S), NEW x \in S
  PROVE  SubSeq(Append(seq, x), 1, Len(Append(seq, x)) - 1) = seq
<1>1. Append(seq, x) \in Seq(S) /\ Append(seq, x) # <<>> /\ Len(Append(seq, x)) = Len(seq) + 1
      /\ \A i \in 1 .. Len(seq) : Append(seq, x)[i] = seq[i]
  BY AppendProperties
<1> DEFINE a == Append(seq, x)
           f == SubSeq(a, 1, Len(a) - 1)
<1> HIDE DEF a
<1>2. f \in Seq(S) /\ Len(f) = Len(a) - 1 /\ \A i \in 1 .. Len(a) - 1 : f[i] = a[i]
  BY <1>1, FrontProperties DEF a
<1>3. Len(f) = Len(seq) /\ \A i \in 1 .. Len(f) : f[i] = seq[i]
  BY <1>1, <1>2 DEF a
<1> HIDE DEF f
<1>4. f = seq
  BY <1>2, <1>3, SeqEqual
<1> QED BY <1>4 DEF f, a

LEMMA AppendConcat ==
  ASSUME NEW S, NEW s \in Seq(S), NEW t \in Seq(S), NEW x \in S
  PROVE  s \o Append(t, x) = Append(s \o t, x)
<1>1. Append(t, x) = t \o <<x>>
  BY AppendIsConcat
<1>2. s \o t \in Seq(S)
  BY ConcatProperties
<1>3. Append(s \o t, x) = (s \o t) \o <<x>>
  BY <1>2, AppendIsConcat
<1>4. (s \o t) \o <<x>> = s \o (t \o <<x>>)
  BY ConcatAssociative, SMTT(60)
<1> QED BY <1>1, <1>3, <1>4

-----------------------------------------------------------------------------
(* The steps on the abstract variables.                                    *)

Part(b) == Froms(Complete(b))

LEMMA PartTypes ==
  TypeOK => /\ Drained \in Seq(Senders) /\ Current \in Seq(Senders)
            /\ \A b \in Buffers : Complete(b) \in Seq(Headers) /\ Part(b) \in Seq(Senders)
            /\ Frozen \in Buffers /\ cur \in Buffers
<1> SUFFICES ASSUME TypeOK
             PROVE  /\ Drained \in Seq(Senders) /\ Current \in Seq(Senders)
                    /\ \A b \in Buffers : Complete(b) \in Seq(Headers) /\ Part(b) \in Seq(Senders)
                    /\ Frozen \in Buffers /\ cur \in Buffers
  OBVIOUS
<1>1. Drained \in Seq(Senders)
  <2> DEFINE G == [from : Senders, data : Data]
  <2>1. collected \in Seq(G) /\ \A x \in G : x.from \in Senders
    BY DEF TypeOK
  <2> HIDE DEF G
  <2> QED BY <2>1, FromsType DEF Drained
<1>2. Current \in Seq(Senders)
  BY DEF TypeOK, Groups, Current
<1>3. ASSUME NEW b \in Buffers PROVE Complete(b) \in Seq(Headers)
  <2>1. header_queue[b] \in Seq(Headers)
    BY DEF TypeOK
  <2>2. CASE header_queue[b] = <<>>
    <3>1. SubSeq(header_queue[b], 1, Len(header_queue[b]) - 1) = <<>>
      BY <2>2, SubSeqEmpty
    <3> QED BY <2>1, <2>2, <3>1 DEF Complete
  <2>3. CASE header_queue[b] # <<>>
    <3>1. SubSeq(header_queue[b], 1, Len(header_queue[b]) - 1) \in Seq(Headers)
      BY <2>1, <2>3, FrontProperties
    <3> QED BY <2>1, <3>1 DEF Complete
  <2> QED BY <2>2, <2>3
<1>4. \A x \in Headers : x.from \in Senders
  BY DEF Headers
<1>5. \A b \in Buffers : Part(b) \in Seq(Senders)
  BY <1>3, <1>4, FromsType DEF Part
<1>6. Frozen \in Buffers /\ cur \in Buffers
  BY DEF TypeOK, Buffers, Frozen
<1> QED BY <1>1, <1>2, <1>3, <1>5, <1>6

(* The log in parts.                                                       *)
LEMMA LogTypes ==
  TypeOK => /\ Batched \in Seq(Senders) /\ Log \in Seq(Senders)
            /\ Len(Drained) \in Nat /\ Len(Batched) \in Nat /\ Len(Log) \in Nat
            /\ Len(Batched) = Len(Drained) + Len(Current) + Len(Part(Frozen))
            /\ Len(Log) = Len(Batched) + Len(Part(cur))
<1> SUFFICES ASSUME TypeOK
             PROVE  /\ Batched \in Seq(Senders) /\ Log \in Seq(Senders)
                    /\ Len(Drained) \in Nat /\ Len(Batched) \in Nat /\ Len(Log) \in Nat
                    /\ Len(Batched) = Len(Drained) + Len(Current) + Len(Part(Frozen))
                    /\ Len(Log) = Len(Batched) + Len(Part(cur))
  OBVIOUS
<1>1. /\ Drained \in Seq(Senders) /\ Current \in Seq(Senders)
      /\ Part(Frozen) \in Seq(Senders) /\ Part(cur) \in Seq(Senders)
  BY PartTypes
<1>2. /\ Drained \o Current \in Seq(Senders)
      /\ Len(Drained \o Current) = Len(Drained) + Len(Current)
  BY <1>1, ConcatProperties
<1>3. /\ Batched \in Seq(Senders)
      /\ Len(Batched) = Len(Drained \o Current) + Len(Part(Frozen))
  BY <1>1, <1>2, ConcatProperties DEF Batched, Part
<1>4. Log \in Seq(Senders) /\ Len(Log) = Len(Batched) + Len(Part(cur))
  BY <1>1, <1>3, ConcatProperties DEF Log, Part
<1>5. Len(Drained) \in Nat /\ Len(Batched) \in Nat /\ Len(Log) \in Nat
  BY <1>1, <1>3, <1>4, LenProperties
<1> QED BY <1>2, <1>3, <1>4, <1>5

(* Steps that touch neither a complete header nor a collected group.       *)
Kept == Drained' = Drained /\ Batched' = Batched /\ Log' = Log

LEMMA LogKept ==
  ASSUME TypeOK, collected' = collected, cur' = cur, Current' = Current,
         \A b \in Buffers : Complete(b)' = Complete(b)
  PROVE  Kept
<1>1. cur \in Buffers /\ Frozen \in Buffers /\ Frozen' = Frozen
  BY PartTypes DEF Frozen
<1>2. Complete(cur)' = Complete(cur)
  BY <1>1 DEF Complete
<1>3. Complete(Frozen)' = Complete(Frozen)
  BY <1>1 DEF Complete
<1>4. Drained' = Drained
  BY DEF Drained
<1>5. Batched' = Batched
  BY <1>3, <1>4 DEF Batched
<1> QED BY <1>2, <1>4, <1>5 DEF Log, Kept

LEMMA CurrentKept ==
  ASSUME wpc = "recombine" <=> wpc' = "recombine", wpc = "recombine" => group'.from = group.from
  PROVE  Current' = Current
BY DEF Current

(* takein before it has staged everything; the header it pushes is not     *)
(* complete.                                                               *)
LEMMA LogConnMgr ==
  ASSUME TypeOK, ConnMgr, ~CloseConn
  PROVE  Kept
<1>0. /\ takein \in Conns /\ takein.cur_copy \in Buffers
      /\ header_queue \in [Buffers -> Seq(Headers)]
  BY DEF TypeOK, Conns
<1>1. UNCHANGED <<flip, watch>>
  BY ConnMgrKeeps
<1>2. collected' = collected /\ cur' = cur /\ Current' = Current
  BY <1>1 DEF flip, watch, Current
<1> SUFFICES ASSUME NEW b \in Buffers PROVE Complete(b)' = Complete(b)
  BY <1>2, LogKept
<1>3. CASE Accept \/ RecvMagic \/ RecvHeader
  <2>1. takein.pc # "payload" /\ takein'.pc # "payload" /\ header_queue' = header_queue
    BY <1>0, <1>3 DEF Accept, RecvMagic, RecvHeader, queues, Conns
  <2> QED BY <2>1 DEF Complete
<1>4. CASE RecvHostname
  <2>1. PICK h \in Headers :
          /\ header_queue' = [header_queue EXCEPT ![takein.cur_copy] = Append(@, h)]
          /\ takein'.pc = "payload" /\ takein'.cur_copy = takein.cur_copy
    <3> DEFINE h == IF Arrived THEN takein.header ELSE [takein.header EXCEPT !.from = Nobody]
    <3>1. takein.header \in Headers
      BY <1>0 DEF Conns
    <3>2. h \in Headers
      BY <3>1 DEF Headers, Senders
    <3> HIDE DEF h
    <3>3. /\ header_queue' = [header_queue EXCEPT ![takein.cur_copy] = Append(@, h)]
          /\ takein' = [takein EXCEPT !.pc = "payload", !.header = h, !.left = h.cnt,
                                      !.got = IF Arrived THEN @ + 1 ELSE @]
      BY <1>4 DEF RecvHostname, h
    <3>4. takein'.pc = "payload" /\ takein'.cur_copy = takein.cur_copy
      BY <1>0, <3>3 DEF Conns
    <3> QED BY <3>2, <3>3, <3>4
  <2>2. takein.pc = "hostname" /\ header_queue[b] \in Seq(Headers)
    BY <1>0, <1>4 DEF RecvHostname
  <2>3. CASE b = takein.cur_copy
    <3>1. header_queue'[b] = Append(header_queue[b], h)
      BY <1>0, <2>1, <2>3
    <3>2. SubSeq(Append(header_queue[b], h), 1, Len(Append(header_queue[b], h)) - 1)
            = header_queue[b]
      BY <2>2, FrontOfAppend
    <3> QED BY <2>1, <2>2, <2>3, <3>1, <3>2 DEF Complete
  <2>4. CASE b # takein.cur_copy
    BY <1>0, <2>1, <2>2, <2>4 DEF Complete
  <2> QED BY <2>3, <2>4
<1>5. ASSUME NEW k \in Payload, RecvPayload(k) PROVE Complete(b)' = Complete(b)
  <2>1. takein'.pc = takein.pc /\ takein'.cur_copy = takein.cur_copy /\ header_queue' = header_queue
    BY <1>0, <1>5 DEF RecvPayload, Conns
  <2> QED BY <2>1 DEF Complete
<1> QED BY <1>3, <1>4, <1>5 DEF ConnMgr

(* A connection ends: its header is the next one of the log.  When it was  *)
(* accepted before the freeze it still belongs to the frozen batch.        *)
LEMMA LogClose ==
  ASSUME TypeOK, TypeOK', LastInv, CloseConn
  PROVE  /\ Log' = Append(Log, takein.header.from) /\ takein.header.from \in Senders
         /\ Drained' = Drained
         /\ \/ Batched' = Batched
            \/ Batched = Log /\ Batched' = Append(Batched, takein.header.from)
<1> DEFINE x  == takein.header.from
           b0 == takein.cur_copy
           h0 == header_queue[b0]
<1>0. /\ takein \in Conns /\ b0 \in Buffers /\ h0 \in Seq(Headers) /\ x \in Senders
      /\ \A r \in Headers : r.from \in Senders
  BY DEF TypeOK, Conns, Headers
<1>1. /\ takein.pc = "payload" /\ takein'.pc = "accept" /\ header_queue' = header_queue
      /\ cur' = cur /\ collected' = collected /\ wpc' = wpc /\ group' = group
  BY <1>0 DEF CloseConn, queues, flip, watch, Conns
<1>2. h0 # <<>> /\ h0[Len(h0)] = takein.header
  BY <1>1 DEF LastInv
<1>3. Drained' = Drained /\ Current' = Current
  BY <1>1 DEF Drained, Current
<1>4. Froms(h0) = Append(Froms(SubSeq(h0, 1, Len(h0) - 1)), x)
  <2> HIDE DEF h0
  <2>1. Froms(h0) = Append(Froms(SubSeq(h0, 1, Len(h0) - 1)), h0[Len(h0)].from)
    BY <1>0, <1>2, FromsLast
  <2> QED BY <1>2, <2>1
<1>5. cur \in Buffers /\ Frozen \in Buffers /\ Frozen # cur /\ Frozen' = Frozen
      /\ Buffers = {cur, Frozen}
  BY <1>1 DEF TypeOK, Frozen, Buffers
<1>6. /\ Drained \in Seq(Senders) /\ Current \in Seq(Senders) /\ Batched \in Seq(Senders)
      /\ Drained \o Current \in Seq(Senders)
      /\ Part(Frozen) \in Seq(Senders) /\ Part(cur) \in Seq(Senders)
  BY PartTypes, LogTypes, ConcatProperties
<1>7. CASE b0 = cur
  <2>1. Froms(Complete(Frozen))' = Froms(Complete(Frozen))
    BY <1>1, <1>5, <1>7 DEF Complete
  <2>2. Froms(Complete(cur))' = Append(Froms(Complete(cur)), x)
    BY <1>1, <1>4, <1>7 DEF Complete
  <2>3. Batched' = Batched
    BY <1>3, <2>1 DEF Batched
  <2>4. Log' = Batched \o Append(Part(cur), x)
    BY <2>2, <2>3 DEF Log, Part
  <2>5. Batched \o Append(Part(cur), x) = Append(Batched \o Part(cur), x)
    <3> DEFINE t == Part(cur)
    <3>1. Batched \in Seq(Senders) /\ t \in Seq(Senders) /\ x \in Senders
      BY <1>0, <1>6
    <3> HIDE DEF t, x
    <3>2. Batched \o Append(t, x) = Append(Batched \o t, x)
      BY <3>1, AppendConcat
    <3> QED BY <3>2 DEF t
  <2> QED BY <1>0, <1>3, <2>3, <2>4, <2>5 DEF Log, Part
<1>8. CASE b0 = Frozen
  <2>1. header_queue[cur] = <<>>
    BY <1>1, <1>8 DEF LastInv, Straddling
  <2>2. Froms(Complete(cur))' = <<>> /\ Froms(Complete(cur)) = <<>>
    BY <1>1, <1>5, <1>8, <2>1, FromsEmpty DEF Complete
  <2>3. Froms(Complete(Frozen))' = Append(Froms(Complete(Frozen)), x)
    BY <1>1, <1>4, <1>5, <1>8 DEF Complete
  <2>4. Batched' = Drained \o Current \o Append(Part(Frozen), x)
    BY <1>3, <2>3 DEF Batched, Part
  <2>5. Drained \o Current \o Append(Part(Frozen), x) = Append(Batched, x)
    <3>1. (Drained \o Current) \o Append(Part(Frozen), x)
            = Append((Drained \o Current) \o Part(Frozen), x)
      <4> DEFINE s == Drained \o Current
                 t == Part(Frozen)
      <4>1. s \in Seq(Senders) /\ t \in Seq(Senders) /\ x \in Senders
        BY <1>0, <1>6
      <4> HIDE DEF s, t, x
      <4>2. s \o Append(t, x) = Append(s \o t, x)
        BY <4>1, AppendConcat
      <4> QED BY <4>2 DEF s, t
    <3>2. Batched = (Drained \o Current) \o Part(Frozen)
      BY DEF Batched, Part
    <3> QED BY <3>1, <3>2
  <2>6. Batched' = Append(Batched, x) /\ Append(Batched, x) \in Seq(Senders)
    BY <1>0, <1>6, <2>4, <2>5, AppendProperties
  <2>7. Log = Batched
    BY <1>6, <2>2, ConcatEmptySeq DEF Log
  <2>8. Log' = Batched' \o <<>>
    BY <2>2 DEF Log
  <2>9. Log' = Append(Batched, x)
    BY <2>6, <2>8, ConcatEmptySeq
  <2> QED BY <1>0, <1>3, <2>6, <2>7, <2>9
<1> QED BY <1>0, <1>5, <1>7, <1>8

(* A header is popped: its group is no longer in the buffer, but next.     *)
LEMMA LogHeader ==
  ASSUME TypeOK, DrainExclusive, RecombineHeader
  PROVE  Kept
<1> DEFINE h == header_queue[Frozen]
<1>1. /\ wpc = "collect" /\ in_flip /\ h # <<>> /\ wpc' = "recombine"
      /\ group'.from = Head(h).from /\ collected' = collected
      /\ header_queue' = [header_queue EXCEPT ![Frozen] = Tail(@)]
      /\ cur' = cur /\ takein' = takein
  BY DEF RecombineHeader, NextHeader, flip
<1>2. /\ cur \in Buffers /\ Frozen \in Buffers /\ Frozen # cur /\ Frozen' = Frozen
      /\ header_queue \in [Buffers -> Seq(Headers)] /\ h \in Seq(Headers)
      /\ \A r \in Headers : r.from \in Senders
  BY <1>1 DEF TypeOK, Frozen, Buffers, Headers
<1>3. ~(takein.pc = "payload" /\ takein.cur_copy = Frozen)
  BY <1>1 DEF DrainExclusive, Straddling
<1>4. Complete(Frozen) = h /\ Complete(Frozen)' = Tail(h)
  BY <1>1, <1>2, <1>3 DEF Complete
<1>5. Complete(cur)' = Complete(cur)
  BY <1>1, <1>2 DEF Complete
<1>6. Drained' = Drained /\ Current = <<>> /\ Current' = <<Head(h).from>>
  BY <1>1 DEF Drained, Current
<1>7. /\ Head(h) \in Headers /\ Tail(h) \in Seq(Headers)
      /\ Froms(Tail(h)) \in Seq(Senders) /\ <<Head(h).from>> \in Seq(Senders)
      /\ Froms(h) = <<Head(h).from>> \o Froms(Tail(h))
  <2>1. Head(h) \in Headers /\ Tail(h) \in Seq(Headers)
    BY <1>1, <1>2, HeadTailProperties
  <2>2. Froms(h) = <<Head(h).from>> \o Froms(Tail(h))
    <3> HIDE DEF h
    <3> QED BY <1>1, <1>2, FromsHead
  <2>3. Froms(Tail(h)) \in Seq(Senders)
    BY <1>2, <2>1, FromsType
  <2> QED BY <1>2, <2>1, <2>2, <2>3
<1>8. Drained \in Seq(Senders) /\ Drained \o <<>> = Drained
  BY PartTypes, ConcatEmptySeq
<1> HIDE DEF h
<1>9. Batched' = Drained \o <<Head(h).from>> \o Froms(Tail(h))
  BY <1>4, <1>6 DEF Batched
<1>10. Batched = Drained \o Froms(h)
  BY <1>4, <1>6, <1>8 DEF Batched
<1>11. Batched' = Batched
  BY <1>7, <1>8, <1>9, <1>10, ConcatAssociative
<1> QED BY <1>5, <1>6, <1>11 DEF Log, Kept

(* A group is complete and collected: the first of the batch not yet taken. *)
LEMMA LogCollect ==
  ASSUME TypeOK, RecombineEnd
  PROVE  /\ Batched' = Batched /\ Log' = Log
         /\ Len(Drained)' = Len(Drained) + 1 /\ Len(Drained) < Len(Batched)
<1>1. /\ wpc = "recombine" /\ wpc' = "collect" /\ header_queue' = header_queue
      /\ cur' = cur /\ takein' = takein
      /\ collected' = Append(collected, [from |-> group.from, data |-> group.data])
  BY DEF RecombineEnd, GiveUpFlip, flip, queues
<1>2. /\ cur \in Buffers /\ Frozen \in Buffers /\ Frozen' = Frozen
      /\ group.from \in Senders /\ group.data \in Data
  BY <1>1 DEF TypeOK, Frozen, Buffers, Groups
<1>3. Complete(Frozen)' = Complete(Frozen) /\ Complete(cur)' = Complete(cur)
  BY <1>1, <1>2 DEF Complete
<1>4. Current = <<group.from>> /\ Current' = <<>>
  BY <1>1 DEF Current
<1>5. Drained' = Append(Drained, group.from)
  <2> DEFINE G == [from : Senders, data : Data]
             g == [from |-> group.from, data |-> group.data]
  <2>1. collected \in Seq(G) /\ (\A r \in G : r.from \in Senders) /\ g \in G
        /\ g.from = group.from /\ collected' = Append(collected, g)
    BY <1>1, <1>2 DEF TypeOK
  <2> HIDE DEF G, g
  <2>2. Froms(Append(collected, g)) = Append(Froms(collected), g.from)
    BY <2>1, FromsAppend
  <2> QED BY <2>1, <2>2 DEF Drained
<1>6. /\ Drained \in Seq(Senders) /\ Append(Drained, group.from) \in Seq(Senders)
      /\ Append(Drained, group.from) = Drained \o <<group.from>>
      /\ Len(Append(Drained, group.from)) = Len(Drained) + 1
  BY <1>2, PartTypes, AppendProperties, AppendIsConcat
<1>7. Append(Drained, group.from) \o <<>> = Append(Drained, group.from)
  BY <1>6, ConcatEmptySeq
<1>8. Batched' = Append(Drained, group.from) \o <<>> \o Froms(Complete(Frozen))
  BY <1>3, <1>4, <1>5 DEF Batched
<1>9. Batched = Drained \o <<group.from>> \o Froms(Complete(Frozen))
  BY <1>4 DEF Batched
<1>10. Batched' = Batched
  BY <1>6, <1>7, <1>8, <1>9
<1>11. Log' = Log
  BY <1>3, <1>10 DEF Log
<1>12. Len(Drained)' = Len(Drained) + 1
  BY <1>5, <1>6
<1>13. Len(Drained) < Len(Batched)
  <2>1. Part(Frozen) \in Seq(Senders) /\ Len(Part(Frozen)) \in Nat /\ Len(Current) = 1
    BY <1>2, <1>4, PartTypes, LenProperties
  <2> DEFINE d == Len(Drained)  c == Len(Current)  p == Len(Part(Frozen))  b == Len(Batched)
  <2>2. d \in Nat /\ c = 1 /\ p \in Nat /\ b = d + c + p
    BY <2>1, LogTypes
  <2> HIDE DEF d, c, p, b
  <2>3. d < b
    BY <2>2
  <2> QED BY <2>3 DEF d, b
<1> QED BY <1>10, <1>11, <1>12, <1>13

(* The buffers are swapped: everything that was batched is collected, and  *)
(* everything in the log becomes the batch.                                *)
LEMMA LogFreeze ==
  ASSUME TypeOK, FlipInv, FreezeQueue, ~in_flip
  PROVE  Drained' = Drained /\ Drained = Batched /\ Log' = Log /\ Batched' = Log
<1>1. /\ wpc = "freeze" /\ wpc' \in {"collect", "analyze"} /\ header_queue' = header_queue
      /\ cur' = Frozen /\ takein' = takein /\ collected' = collected
  BY DEF FreezeQueue, AfterFreeze, flip, queues
<1>2. header_queue[Frozen] = <<>> /\ ~Straddling
  BY DEF FlipInv, Blanked
<1>3. cur \in Buffers /\ Frozen \in Buffers /\ Frozen' = cur
  BY <1>1 DEF TypeOK, Frozen, Buffers
<1>4. Complete(Frozen) = <<>>
  BY <1>2 DEF Complete, Straddling
<1>5. Complete(Frozen)' = Complete(cur)
  BY <1>1, <1>3 DEF Complete
<1>6. Complete(cur)' = Complete(Frozen)
  BY <1>1, <1>3 DEF Complete
<1>7. Drained' = Drained /\ Current = <<>> /\ Current' = <<>>
  BY <1>1 DEF Drained, Current
<1>8. Drained \in Seq(Senders) /\ Part(cur) \in Seq(Senders) /\ Drained \o <<>> = Drained
      /\ Drained \o Part(cur) \in Seq(Senders)
      /\ (Drained \o Part(cur)) \o <<>> = Drained \o Part(cur)
  BY <1>3, PartTypes, ConcatProperties, ConcatEmptySeq
<1>9. Batched = Drained
  BY <1>4, <1>7, <1>8, FromsEmpty DEF Batched
<1>10. Log = Drained \o Part(cur)
  BY <1>9 DEF Log, Part
<1>11. Batched' = Drained \o Part(cur)
  BY <1>5, <1>7, <1>8 DEF Batched, Part
<1>12. Log' = (Drained \o Part(cur)) \o <<>>
  BY <1>4, <1>6, <1>11, FromsEmpty DEF Log
<1> QED BY <1>7, <1>8, <1>9, <1>10, <1>11, <1>12

(* Every other step leaves the abstract variables alone.                   *)
LEMMA LogStep ==
  ASSUME QueueInv, NoUnderrun', [Next]_vars
  PROVE  Kept \/ CloseConn \/ RecombineEnd \/ (FreezeQueue /\ ~in_flip)
<1>0. /\ TypeOK /\ DrainExclusive
  BY DEF QueueInv, ExclusiveInv, TInv
<1>1. ASSUME UNCHANGED <<header_queue, cur, takein, collected>>, Current' = Current
      PROVE  Kept
  <2>1. \A b \in Buffers : Complete(b)' = Complete(b)
    BY <1>1 DEF Complete
  <2> QED BY <1>0, <1>1, <2>1, LogKept
<1>2. CASE UNCHANGED vars
  BY <1>1, <1>2 DEF vars, queues, flip, watch, Current
<1>3. ASSUME NEW s \in Scrapers, Connect(s) \/ Unreachable(s) \/ Sendout(s) \/ Killed(s)
      PROVE  Kept
  BY <1>1, <1>3 DEF Connect, Unreachable, Sendout, Killed, queues, flip, watch, Current
<1>4. CASE ConnMgr
  BY <1>0, <1>4, LogConnMgr
<1>5. CASE Import \/ Analyze \/ Exit
  BY <1>1, <1>5 DEF Import, Analyze, Exit, queues, flip, Current
<1>6. CASE FreezeQueue /\ in_flip
  BY <1>1, <1>6 DEF FreezeQueue, AfterFreeze, queues, flip, Current
<1>7. CASE RecombineHeader
  BY <1>0, <1>7, LogHeader
<1>8. ASSUME NEW k \in Payload, RecombinePayload(k) PROVE Kept
  <2>1. wpc = "recombine" /\ wpc' = "recombine" /\ group'.from = group.from
    BY <1>0, <1>8 DEF RecombinePayload, NoUnderrun, TypeOK, Groups
  <2>2. UNCHANGED <<header_queue, cur, takein, collected>>
    BY <1>8 DEF RecombinePayload, flip
  <2> QED BY <1>1, <2>1, <2>2, CurrentKept
<1>9. CASE CollectEnd
  <2>1. wpc = "collect" /\ wpc' \in {"exited", "freeze"}
        /\ UNCHANGED <<header_queue, cur, takein, collected>>
    BY <1>9 DEF CollectEnd, GiveUpFlip, queues, flip
  <2> QED BY <1>1, <2>1 DEF Current
<1> QED BY <1>2, <1>3, <1>4, <1>5, <1>6, <1>7, <1>8, <1>9 DEF Next, Watcher

-----------------------------------------------------------------------------
(* The header takein works on.                                             *)

LEMMA LastStep ==
  ASSUME QueueInv, LastInv, [Next]_vars
  PROVE  LastInv'
<1>0. /\ TypeOK /\ TInv /\ DrainExclusive /\ FlipInv /\ takein \in Conns
      /\ takein.cur_copy \in Buffers /\ cur \in Buffers /\ Frozen \in Buffers /\ Frozen # cur
      /\ Buffers = {cur, Frozen}
      /\ header_queue \in [Buffers -> Seq(Headers)]
  BY DEF QueueInv, ExclusiveInv, TInv, TypeOK, Conns, Buffers, Frozen
<1>1. ASSUME UNCHANGED <<header_queue, cur, takein>> PROVE LastInv'
  BY <1>1 DEF LastInv, Straddling, Frozen
<1>2. CASE UNCHANGED vars
  BY <1>1, <1>2 DEF vars, queues, flip
<1>3. ASSUME NEW s \in Scrapers, Connect(s) \/ Unreachable(s) \/ Sendout(s) \/ Killed(s)
      PROVE  LastInv'
  BY <1>1, <1>3 DEF Connect, Unreachable, Sendout, Killed, queues, flip
<1>4. CASE ConnMgr
  <2>0. cur' = cur /\ Frozen' = Frozen
    BY <1>4, ConnMgrKeeps DEF flip, Frozen
  <2>1. Straddling' => header_queue'[cur'] = <<>>
    <3>1. CASE Accept
      BY <1>0, <3>1, AcceptElsewhere
    <3>2. CASE ~Accept
      <4>1. takein.pc # "accept" /\ takein'.cur_copy = takein.cur_copy
        BY <1>0, <1>4, <3>2, TakeinStays
      <4>2. CASE takein.cur_copy = Frozen
        <5>1. header_queue[cur] = <<>>
          BY <4>1, <4>2 DEF LastInv, Straddling
        <5>2. header_queue'[cur] = header_queue[cur]
          BY <1>0, <1>4, <4>2, PushedElsewhere
        <5> QED BY <2>0, <5>1, <5>2
      <4>3. CASE takein.cur_copy # Frozen
        BY <2>0, <4>1, <4>3 DEF Straddling
      <4> QED BY <4>2, <4>3
    <3> QED BY <3>1, <3>2
  <2>2. CASE Accept \/ RecvMagic \/ CloseConn
    <3>1. takein'.pc \notin {"hostname", "payload"}
      BY <1>0, <2>2 DEF Accept, RecvMagic, CloseConn, Conns
    <3> QED BY <2>1, <3>1 DEF LastInv
  <2>3. CASE RecvHeader
    <3>1. takein'.pc \in {"accept", "hostname"} /\ takein'.from = takein.from
          /\ (takein'.pc = "hostname" => takein'.header.from \in {takein.from, Nobody})
      <4>1. CASE takein' = [takein EXCEPT !.pc = "accept"]
        BY <1>0, <4>1 DEF Conns
      <4>2. CASE takein' = [takein EXCEPT !.pc = "hostname", !.got = @ + 1,
                                          !.header = HeaderOf(takein.from)]
        <5>1. takein'.pc = "hostname" /\ takein'.from = takein.from
              /\ takein'.header = HeaderOf(takein.from)
          BY <1>0, <4>2 DEF Conns
        <5> QED BY <5>1 DEF HeaderOf
      <4>3. ASSUME NEW c,
                   takein' = [takein EXCEPT !.pc = "hostname",
                                            !.header = [from |-> Nobody, cnt |-> c]]
            PROVE  takein'.pc = "hostname" /\ takein'.from = takein.from
                   /\ takein'.header.from = Nobody
        BY <1>0, <4>3 DEF Conns
      <4> QED BY <2>3, <4>1, <4>2, <4>3 DEF RecvHeader
    <3> QED BY <2>1, <3>1 DEF LastInv
  <2>4. CASE RecvHostname
    <3> DEFINE h == IF Arrived THEN takein.header ELSE [takein.header EXCEPT !.from = Nobody]
    <3>1. takein.header \in Headers /\ takein.pc = "hostname"
          /\ takein.header.from \in {takein.from, Nobody}
      BY <1>0, <2>4 DEF Conns, RecvHostname, LastInv
    <3>2. h \in Headers /\ h.from \in {takein.from, Nobody}
      BY <3>1 DEF Headers, Senders
    <3> HIDE DEF h
    <3>3. /\ header_queue' = [header_queue EXCEPT ![takein.cur_copy] = Append(@, h)]
          /\ takein' = [takein EXCEPT !.pc = "payload", !.header = h, !.left = h.cnt,
                                      !.got = IF Arrived THEN @ + 1 ELSE @]
      BY <2>4 DEF RecvHostname, h
    <3>4. takein'.pc = "payload" /\ takein'.cur_copy = takein.cur_copy
          /\ takein'.header = h /\ takein'.from = takein.from
      BY <1>0, <3>3 DEF Conns
    <3>5. header_queue'[takein.cur_copy] = Append(header_queue[takein.cur_copy], h)
          /\ header_queue[takein.cur_copy] \in Seq(Headers)
      BY <1>0, <3>3
    <3>6. /\ Append(header_queue[takein.cur_copy], h) # <<>>
          /\ Append(header_queue[takein.cur_copy], h)
               [Len(Append(header_queue[takein.cur_copy], h))] = h
      BY <3>2, <3>5, AppendProperties
    <3> QED BY <2>1, <3>2, <3>4, <3>5, <3>6 DEF LastInv
  <2>5. ASSUME NEW k \in Payload, RecvPayload(k) PROVE LastInv'
    <3>1. /\ takein'.pc = takein.pc /\ takein'.cur_copy = takein.cur_copy
          /\ takein'.header = takein.header /\ takein'.from = takein.from
          /\ header_queue' = header_queue
      BY <1>0, <2>5 DEF RecvPayload, Conns
    <3> QED BY <2>1, <3>1 DEF LastInv
  <2> QED BY <1>4, <2>2, <2>3, <2>4, <2>5 DEF ConnMgr
<1>5. CASE Import \/ Analyze \/ Exit
  BY <1>1, <1>5 DEF Import, Analyze, Exit, queues, flip
<1>6. CASE FreezeQueue
  <2>1. CASE in_flip
    BY <1>1, <1>6, <2>1 DEF FreezeQueue, queues, flip
  <2>2. CASE ~in_flip
    <3>1. cur' = Frozen /\ takein' = takein /\ header_queue' = header_queue
      BY <1>6, <2>2 DEF FreezeQueue, queues, flip
    <3>2. header_queue[Frozen] = <<>>
      BY <1>0, <2>2 DEF FlipInv, Blanked
    <3> QED BY <3>1, <3>2 DEF LastInv
  <2> QED BY <2>1, <2>2
<1>7. CASE RecombineHeader
  <2>1. /\ cur' = cur /\ takein' = takein /\ ~Straddling
        /\ header_queue' = [header_queue EXCEPT ![Frozen] = Tail(@)]
    BY <1>0, <1>7 DEF RecombineHeader, flip, DrainExclusive
  <2>2. takein.pc # "accept" => header_queue'[takein.cur_copy] = header_queue[takein.cur_copy]
    BY <1>0, <2>1 DEF Straddling
  <2>3. ~Straddling'
    BY <2>1 DEF Straddling, Frozen
  <2> QED BY <2>1, <2>2, <2>3 DEF LastInv
<1>8. ASSUME NEW k \in Payload, RecombinePayload(k) PROVE LastInv'
  BY <1>1, <1>8 DEF RecombinePayload, flip
<1>9. CASE RecombineEnd \/ CollectEnd
  BY <1>1, <1>9 DEF RecombineEnd, CollectEnd, GiveUpFlip, queues, flip
<1> QED BY <1>2, <1>3, <1>4, <1>5, <1>6, <1>7, <1>8, <1>9 DEF Next, Watcher

-----------------------------------------------------------------------------
(* Nobody is logged twice.                                                 *)

(* A step that brings no connection forward.                               *)
LEMMA OnceKept ==
  ASSUME OnceInv, Log' = Log, UNCHANGED backlog,
         \A s \in Scrapers : scraper'[s].st = "scraping" => scraper[s].st = "scraping",
         \A s \in Scrapers : Serving(s)' => Serving(s)
  PROVE  OnceInv'
<1>1. \A s \in Scrapers : (Logged(s)' <=> Logged(s)) /\ (Waiting(s)' <=> Waiting(s))
  BY DEF Logged, Waiting
<1>2. \A i, j \in 1 .. Len(backlog') : backlog'[i] = backlog'[j] => i = j
  BY DEF OnceInv
<1>3. /\ \A s \in Scrapers : scraper[s].st = "scraping" =>
           ~Logged(s) /\ ~Waiting(s) /\ ~Serving(s)
      /\ \A s \in Scrapers : Waiting(s) => ~Logged(s) /\ ~Serving(s)
      /\ \A s \in Scrapers : Serving(s) => ~Logged(s)
  BY DEF OnceInv
<1> QED BY <1>1, <1>2, <1>3 DEF OnceInv

LEMMA OnceScrapers ==
  ASSUME TypeOK, OnceInv, Log' = Log, NEW s \in Scrapers,
         Connect(s) \/ Unreachable(s) \/ Sendout(s) \/ Killed(s)
  PROVE  OnceInv'
<1>1. /\ scraper \in [Scrapers -> Procs] /\ backlog \in Seq(Scrapers) /\ takein' = takein
      /\ scraper[s] \in Procs
  BY DEF TypeOK, Connect, Unreachable, Sendout, Killed
<1>2. \A r \in Scrapers : Serving(r)' => Serving(r)
  BY <1>1 DEF Serving
<1>3. CASE Unreachable(s) \/ Sendout(s) \/ Killed(s)
  <2>1. backlog' = backlog
    BY <1>3 DEF Unreachable, Sendout, Killed
  <2>2. \A r \in Scrapers : scraper'[r].st = "scraping" => scraper[r].st = "scraping"
    BY <1>1, <1>3 DEF Unreachable, Sendout, Killed, Procs
  <2> QED BY <1>2, <2>1, <2>2, OnceKept
<1>4. CASE Connect(s)
  <2>1. /\ scraper[s].st = "scraping" /\ backlog' = Append(backlog, s)
        /\ scraper' = [scraper EXCEPT ![s].st = "connected"]
    BY <1>4 DEF Connect
  <2>2. /\ Len(backlog') = Len(backlog) + 1 /\ backlog'[Len(backlog) + 1] = s
        /\ Len(backlog) \in Nat
        /\ \A i \in 1 .. Len(backlog) : backlog'[i] = backlog[i]
    BY <1>1, <2>1, AppendProperties
  <2>3. \A i \in 1 .. Len(backlog') : i \in 1 .. Len(backlog) \/ i = Len(backlog) + 1
    BY <2>2
  <2>4. ~Logged(s) /\ ~Waiting(s) /\ ~Serving(s)
    BY <2>1 DEF OnceInv
  <2>5. scraper'[s].st = "connected"
        /\ \A r \in Scrapers \ {s} : scraper'[r].st = scraper[r].st
    BY <1>1, <2>1 DEF Procs
  <2>6. ASSUME NEW r \in Scrapers
        PROVE  /\ Logged(r)' <=> Logged(r)
               /\ Waiting(r)' => Waiting(r) \/ r = s
               /\ Serving(r)' => Serving(r)
    <3>1. Waiting(r)' => Waiting(r) \/ r = s
      BY <2>2, <2>3 DEF Waiting
    <3> QED BY <1>2, <3>1 DEF Logged
  <2>7. \A i, j \in 1 .. Len(backlog') : backlog'[i] = backlog'[j] => i = j
    <3>1. \A i \in 1 .. Len(backlog) : backlog[i] # s
      BY <2>4 DEF Waiting
    <3>2. \A i, j \in 1 .. Len(backlog) : backlog[i] = backlog[j] => i = j
      BY DEF OnceInv
    <3> QED BY <2>2, <2>3, <3>1, <3>2
  <2>8. /\ \A r \in Scrapers : scraper[r].st = "scraping" =>
             ~Logged(r) /\ ~Waiting(r) /\ ~Serving(r)
        /\ \A r \in Scrapers : Waiting(r) => ~Logged(r) /\ ~Serving(r)
        /\ \A r \in Scrapers : Serving(r) => ~Logged(r)
    BY DEF OnceInv
  <2>9. /\ \A r \in Scrapers : scraper'[r].st = "scraping" =>
             ~Logged(r)' /\ ~Waiting(r)' /\ ~Serving(r)'
        /\ \A r \in Scrapers : Waiting(r)' => ~Logged(r)' /\ ~Serving(r)'
        /\ \A r \in Scrapers : Serving(r)' => ~Logged(r)'
    BY <2>4, <2>5, <2>6, <2>8
  <2> QED BY <2>7, <2>9 DEF OnceInv
<1> QED BY <1>3, <1>4

LEMMA OnceAccept ==
  ASSUME TypeOK, OnceInv, Log' = Log, Accept
  PROVE  OnceInv'
<1>0. PICK s \in Scrapers : s = Head(backlog)
  BY HeadTailProperties DEF Accept, TypeOK
<1>1. /\ scraper \in [Scrapers -> Procs] /\ backlog \in Seq(Scrapers) /\ takein \in Conns
      /\ backlog # <<>> /\ backlog' = Tail(backlog) /\ takein.pc = "accept"
      /\ scraper' = [scraper EXCEPT ![s].st = IF @ = "connected" THEN Greet ELSE @]
  BY <1>0 DEF TypeOK, Accept
<1>2. takein'.pc = "magic" /\ takein'.from = s
  BY <1>0, <1>1 DEF Accept, Conns
<1>3. /\ Len(backlog) \in Nat \ {0} /\ s = backlog[1] /\ s \in Scrapers
      /\ Len(backlog') = Len(backlog) - 1
      /\ \A i \in 1 .. Len(backlog') : backlog'[i] = backlog[i + 1]
  BY <1>0, <1>1, HeadTailProperties, EmptySeq
<1>4. Waiting(s)
  BY <1>3 DEF Waiting
<1>5. \A i, j \in 1 .. Len(backlog) : backlog[i] = backlog[j] => i = j
  BY DEF OnceInv
<1>6. ~Waiting(s)'
  <2> SUFFICES ASSUME NEW i \in 1 .. Len(backlog') PROVE backlog'[i] # s
    BY DEF Waiting
  <2>1. i + 1 \in 1 .. Len(backlog) /\ 1 \in 1 .. Len(backlog) /\ i + 1 # 1
    BY <1>3
  <2> QED BY <1>3, <1>5, <2>1
<1>7. \A i, j \in 1 .. Len(backlog') : backlog'[i] = backlog'[j] => i = j
  <2> SUFFICES ASSUME NEW i \in 1 .. Len(backlog'), NEW j \in 1 .. Len(backlog'),
                      backlog'[i] = backlog'[j]
               PROVE  i = j
    OBVIOUS
  <2>1. i + 1 \in 1 .. Len(backlog) /\ j + 1 \in 1 .. Len(backlog)
    BY <1>3
  <2>2. i + 1 = j + 1
    BY <1>3, <1>5, <2>1
  <2> QED BY <2>2
<1>8. ASSUME NEW r \in Scrapers
      PROVE  /\ Logged(r)' <=> Logged(r)
             /\ Waiting(r)' => Waiting(r)
             /\ Serving(r)' <=> r = s
  <2>1. \A i \in 1 .. Len(backlog') : i + 1 \in 1 .. Len(backlog)
    BY <1>3
  <2>2. Waiting(r)' => Waiting(r)
    BY <1>3, <2>1 DEF Waiting
  <2>3. Serving(r)' <=> r = s
    BY <1>2 DEF Serving
  <2> QED BY <2>2, <2>3 DEF Logged
<1>9. /\ \A r \in Scrapers : scraper[r].st = "scraping" =>
           ~Logged(r) /\ ~Waiting(r) /\ ~Serving(r)
      /\ \A r \in Scrapers : Waiting(r) => ~Logged(r) /\ ~Serving(r)
      /\ \A r \in Scrapers : Serving(r) => ~Logged(r)
  BY DEF OnceInv
<1>10. \A r \in Scrapers : scraper'[r].st = "scraping" => scraper[r].st = "scraping"
  BY <1>1, <1>3 DEF Procs, Greet
<1>11. /\ \A r \in Scrapers : scraper'[r].st = "scraping" =>
            ~Logged(r)' /\ ~Waiting(r)' /\ ~Serving(r)'
       /\ \A r \in Scrapers : Waiting(r)' => ~Logged(r)' /\ ~Serving(r)'
       /\ \A r \in Scrapers : Serving(r)' => ~Logged(r)'
  BY <1>4, <1>6, <1>8, <1>9, <1>10
<1> QED BY <1>7, <1>11 DEF OnceInv

(* The scraper of the connection that ends is logged now, and is neither   *)
(* waiting nor served any more.                                            *)
LEMMA OnceClose ==
  ASSUME TypeOK, OnceInv, LastInv, CloseConn, Log' = Append(Log, takein.header.from)
  PROVE  OnceInv'
<1> DEFINE x == takein.header.from
<1>1. /\ takein \in Conns /\ x \in Senders /\ takein.pc = "payload" /\ takein'.pc = "accept"
      /\ backlog' = backlog /\ scraper' = scraper
  BY DEF TypeOK, Conns, Headers, CloseConn
<1>2. x \in {takein.from, Nobody} /\ Nobody \notin Scrapers
  BY <1>1, MessagingAssumption DEF LastInv
<1>3. /\ Len(Log') = Len(Log) + 1 /\ Log'[Len(Log) + 1] = x /\ Len(Log) \in Nat
      /\ \A i \in 1 .. Len(Log) : Log'[i] = Log[i]
  <2>1. Log \in Seq(Senders)
    BY LogTypes
  <2> QED BY <1>1, <2>1, AppendProperties
<1>4. ASSUME NEW s \in Scrapers PROVE Logged(s)' => Logged(s) \/ Serving(s)
  <2>1. \A i \in 1 .. Len(Log') : i \in 1 .. Len(Log) \/ i = Len(Log) + 1
    BY <1>3
  <2>2. Logged(s)' => Logged(s) \/ s = x
    BY <1>3, <2>1 DEF Logged
  <2>3. s = x => Serving(s)
    BY <1>1, <1>2 DEF Serving
  <2> QED BY <2>2, <2>3
<1>5. \A s \in Scrapers : ~Serving(s)' /\ (Waiting(s)' <=> Waiting(s))
  BY <1>1 DEF Serving, Waiting
<1>6. \A i, j \in 1 .. Len(backlog') : backlog'[i] = backlog'[j] => i = j
  BY <1>1 DEF OnceInv
<1>7. /\ \A s \in Scrapers : scraper[s].st = "scraping" =>
           ~Logged(s) /\ ~Waiting(s) /\ ~Serving(s)
      /\ \A s \in Scrapers : Waiting(s) => ~Logged(s) /\ ~Serving(s)
  BY DEF OnceInv
<1>8. /\ \A s \in Scrapers : scraper'[s].st = "scraping" =>
           ~Logged(s)' /\ ~Waiting(s)' /\ ~Serving(s)'
      /\ \A s \in Scrapers : Waiting(s)' => ~Logged(s)' /\ ~Serving(s)'
      /\ \A s \in Scrapers : Serving(s)' => ~Logged(s)'
  BY <1>1, <1>4, <1>5, <1>7
<1> QED BY <1>6, <1>8 DEF OnceInv

LEMMA OnceStep ==
  ASSUME QueueInv, QueueInv', LastInv, OnceInv, [Next]_vars
  PROVE  OnceInv'
<1>0. TypeOK /\ TypeOK' /\ FlipInv /\ takein \in Conns
  BY DEF QueueInv, ExclusiveInv, TInv, TypeOK
<1>1. CASE CloseConn
  <2>1. Log' = Append(Log, takein.header.from)
    BY <1>0, <1>1, LogClose
  <2> QED BY <1>0, <1>1, <2>1, OnceClose
<1>2. CASE ~CloseConn
  <2>1. Log' = Log
    <3>1. Kept \/ RecombineEnd \/ (FreezeQueue /\ ~in_flip)
      BY <1>2, LogStep DEF QueueInv
    <3> QED BY <1>0, <3>1, LogCollect, LogFreeze DEF Kept
  <2>2. CASE \E s \in Scrapers : Connect(s) \/ Unreachable(s) \/ Sendout(s) \/ Killed(s)
    BY <1>0, <2>1, <2>2, OnceScrapers
  <2>3. CASE Accept
    BY <1>0, <2>1, <2>3, OnceAccept
  <2>4. CASE ConnMgr /\ ~Accept
    <3>1. takein.pc # "accept" /\ takein'.from = takein.from
          /\ UNCHANGED <<scraper, backlog>>
      <4>1. takein.pc # "accept"
        BY <1>0, <2>4, TakeinStays DEF QueueInv, ExclusiveInv
      <4>2. UNCHANGED <<scraper, backlog>>
        BY <2>4 DEF ConnMgr, RecvMagic, RecvHeader, RecvHostname, RecvPayload, CloseConn
      <4>3. takein'.from = takein.from
        BY <1>0, <2>4 DEF ConnMgr, RecvMagic, RecvHeader, RecvHostname, RecvPayload,
                          CloseConn, Conns
      <4> QED BY <4>1, <4>2, <4>3
    <3>2. \A s \in Scrapers : Serving(s)' => Serving(s)
      BY <3>1 DEF Serving
    <3> QED BY <2>1, <3>1, <3>2, OnceKept
  <2>5. CASE Watcher \/ Exit \/ UNCHANGED vars
    <3>1. UNCHANGED <<takein, scraper, backlog>>
      BY <2>5 DEF Watcher, Import, FreezeQueue, Analyze, RecombineHeader, RecombinePayload,
                  RecombineEnd, CollectEnd, Exit, vars
    <3>2. \A s \in Scrapers : Serving(s)' => Serving(s)
      BY <3>1 DEF Serving
    <3> QED BY <2>1, <3>1, <3>2, OnceKept
  <2> QED BY <2>2, <2>3, <2>4, <2>5 DEF Next
<1> QED BY <1>1, <1>2

-----------------------------------------------------------------------------
(* The refinement.                                                         *)

LEMMA EmptyLog == Init => Drained = <<>> /\ Batched = <<>> /\ Log = <<>>
<1> SUFFICES ASSUME Init PROVE Drained = <<>> /\ Batched = <<>> /\ Log = <<>>
  OBVIOUS
<1>1. /\ collected = <<>> /\ wpc = "import" /\ takein.pc = "accept" /\ cur = 0
      /\ header_queue = [b \in Buffers |-> <<>>]
  BY DEF Init
<1>2. Drained = <<>> /\ Current = <<>>
  BY <1>1, FromsEmpty DEF Drained, Current
<1>3. Froms(Complete(Frozen)) = <<>> /\ Froms(Complete(cur)) = <<>>
  BY <1>1, FromsEmpty DEF Complete, Frozen, Buffers
<1>4. <<>> \o <<>> = <<>>
  OBVIOUS
<1>5. Batched = <<>>
  BY <1>2, <1>3, <1>4 DEF Batched
<1> QED BY <1>2, <1>3, <1>4, <1>5 DEF Log

LEMMA BufferInvInit == Init => BufferInv
<1> SUFFICES ASSUME Init PROVE BufferInv
  OBVIOUS
<1>1. takein.pc = "accept" /\ backlog = <<>>
  BY DEF Init
<1>2. LastInv
  BY <1>1 DEF LastInv, Straddling
<1>3. Len(Log) = 0 /\ Len(backlog) = 0
  BY <1>1, EmptyLog
<1>4. \A s \in Scrapers : ~Logged(s) /\ ~Waiting(s) /\ ~Serving(s)
  BY <1>1, <1>3 DEF Logged, Waiting, Serving
<1>5. OnceInv
  BY <1>3, <1>4 DEF OnceInv
<1> QED BY <1>2, <1>5, QueueInit DEF BufferInv

LEMMA BufferInvStep ==
  ASSUME Prompt, ExitWhen # "any", BufferInv, [Next]_vars
  PROVE  BufferInv'
<1>1. QueueInv'
  BY QueueStep DEF BufferInv
<1>2. LastInv'
  BY LastStep DEF BufferInv
<1>3. OnceInv'
  BY <1>1, OnceStep DEF BufferInv
<1> QED BY <1>1, <1>2, <1>3 DEF BufferInv

LEMMA StepImplements ==
  ASSUME BufferInv, BufferInv', [Next]_vars
  PROVE  [Buffer!Next]_Buffer!vars
<1>0. TypeOK /\ TypeOK' /\ QueueInv /\ NoUnderrun' /\ LastInv /\ OnceInv /\ FlipInv
  BY DEF BufferInv, QueueInv, ExclusiveInv, TInv
<1>1. CASE Kept
  BY <1>1 DEF Kept, Buffer!vars, Log, Batched
<1>2. CASE CloseConn
  <2> DEFINE x == takein.header.from
  <2>1. /\ Log' = Append(Log, x) /\ x \in Senders /\ Drained' = Drained
        /\ (Batched' = Batched \/ (Batched = Log /\ Batched' = Append(Batched, x)))
    BY <1>0, <1>2, LogClose
  <2>2. x \in Scrapers => \A i \in 1 .. Len(Log) : Log[i] # x
    <3>1. takein.pc = "payload"
      BY <1>2 DEF CloseConn
    <3>2. x \in {takein.from, Nobody} /\ Nobody \notin Scrapers
      BY <1>0, <3>1, MessagingAssumption DEF LastInv
    <3>3. x \in Scrapers => Serving(x)
      BY <3>1, <3>2 DEF Serving
    <3> QED BY <1>0, <3>3 DEF OnceInv, Logged
  <2>3. \/ Len(Batched)' = Len(Batched)
        \/ Len(Batched) = Len(Log) /\ Len(Batched)' = Len(Batched) + 1
    <3>1. Batched \in Seq(Senders)
      BY <1>0, LogTypes
    <3>2. Len(Append(Batched, x)) = Len(Batched) + 1
      BY <2>1, <3>1, AppendProperties
    <3> QED BY <2>1, <3>2
  <2>4. Len(Drained)' = Len(Drained)
    BY <2>1
  <2> HIDE DEF x
  <2>5. PICK y \in Senders : y = x
    BY <2>1
  <2>6. Buffer!Deliver(y)
    BY <2>1, <2>2, <2>3, <2>4, <2>5 DEF Buffer!Deliver, Log, Batched
  <2> QED BY <2>6 DEF Buffer!Next, Senders
<1>3. CASE RecombineEnd
  <2>1. /\ Batched' = Batched /\ Log' = Log
        /\ Len(Drained)' = Len(Drained) + 1 /\ Len(Drained) < Len(Batched)
    BY <1>0, <1>3, LogCollect
  <2>2. Buffer!Collect
    BY <2>1 DEF Buffer!Collect, Log, Batched
  <2> QED BY <2>2 DEF Buffer!Next
<1>4. CASE FreezeQueue /\ ~in_flip
  <2>1. Drained' = Drained /\ Drained = Batched /\ Log' = Log /\ Batched' = Log
    BY <1>0, <1>4, LogFreeze
  <2>2. Buffer!Freeze
    BY <2>1 DEF Buffer!Freeze, Log, Batched
  <2> QED BY <2>2 DEF Buffer!Next
<1> QED BY <1>0, <1>1, <1>2, <1>3, <1>4, LogStep

(* The two buffers behave as one FIFO of whole groups: each is handed over *)
(* once, in the order the connections ended, and only after the freeze of  *)
(* its batch (messaging.cpp:101-113, 171-235).                             *)
THEOREM BuffersImplement ==
  ASSUME Prompt, ExitWhen # "any"
  PROVE  Spec => BufferSpec
<1>1. Init => Buffer!Init
  BY EmptyLog DEF Buffer!Init, Log, Batched
<1>2. BufferInv /\ [Next]_vars => BufferInv'
  BY BufferInvStep
<1>3. BufferInv /\ BufferInv' /\ [Next]_vars => [Buffer!Next]_Buffer!vars
  BY StepImplements
<1> QED BY <1>1, <1>2, <1>3, BufferInvInit, PTL DEF Spec, BufferSpec, Buffer!Spec

-----------------------------------------------------------------------------
(* Groups: sums and concatenations of payload.                             *)

(* Total is the sum of the community modules.                              *)
LEMMA TotalSum ==
  ASSUME NEW n \in Nat, NEW f \in [1 .. n -> Nat], NEW t \in Nat, Total(n, f, t)
  PROVE  SumFunction(f) = t
<1>01. IsFiniteSet(1 .. n)
  BY FS_Interval
<1>02. \A i \in 1 .. n : f[i] \in Nat
  OBVIOUS
<1>0. IsFiniteSet(1 .. n) /\ \A i \in 1 .. n : f[i] \in Nat
  BY <1>01, <1>02
<1>1. PICK g \in [SUBSET (1 .. n) -> Nat] : g = Adding(f, 1 .. n, g)
  BY <1>0, SumsExist
<1>2. SumFunction(f) = g[1 .. n]
  BY <1>1, SumOf
<1>3. \A s \in SUBSET (1 .. n) : \A x \in s : g[s] = f[x] + g[s \ {x}]
  <2> DEFINE S == 1 .. n
  <2>1. IsFiniteSet(S) /\ (\A x \in S : f[x] \in Nat)
        /\ g \in [SUBSET S -> Nat] /\ g = Adding(f, S, g)
    BY <1>0, <1>1
  <2> HIDE DEF S
  <2>2. AnyOrder(f, S, g)
    BY <2>1, SumsAny
  <2> QED BY <2>2 DEF S, AnyOrder
<1>4. PICK rest \in [0 .. n -> Nat] :
        rest[0] = t /\ rest[n] = 0 /\ \A i \in 1 .. n : rest[i - 1] = f[i] + rest[i]
  BY DEF Total
<1> DEFINE T == {k \in 0 .. n : rest[n - k] = g[(n - k + 1) .. n]}
<1>5. 0 \in T
  <2>1. (n - 0 + 1) .. n = {} /\ n - 0 = n
    OBVIOUS
  <2>2. g[{}] = 0
    BY <1>1 DEF Adding
  <2> QED BY <1>4, <2>1, <2>2
<1>6. ASSUME NEW k \in 1 .. n, k - 1 \in T PROVE k \in T
  <2> DEFINE i == n - k + 1
  <2>1. i \in 1 .. n /\ n - (k - 1) = i /\ n - k = i - 1
    OBVIOUS
  <2>2. rest[i] = g[(i + 1) .. n]
    BY <1>6, <2>1
  <2>3. i \in i .. n /\ i .. n \in SUBSET (1 .. n) /\ (i .. n) \ {i} = (i + 1) .. n
    BY <2>1, SMTT(20)
  <2>4. g[i .. n] = f[i] + g[(i + 1) .. n]
    <3> HIDE DEF i
    <3>1. g[i .. n] = f[i] + g[(i .. n) \ {i}]
      BY <1>3, <2>3
    <3> QED BY <2>3, <3>1
  <2>5. rest[i - 1] = f[i] + rest[i]
    BY <1>4, <2>1
  <2> QED BY <2>1, <2>2, <2>4, <2>5
<1> HIDE DEF T
<1>7. n \in T
  <2>1. 0 .. n \subseteq T
    BY <1>5, <1>6, StepsTo
  <2> QED BY <2>1
<1>8. n - n = 0 /\ 0 + 1 = 1
  OBVIOUS
<1> QED BY <1>2, <1>4, <1>7, <1>8 DEF T

-----------------------------------------------------------------------------
(* Payload put together.                                                   *)

Joined(d, r) == [k \in Payload |-> d[k] \o r[k]]
Push(d, k, e) == [d EXCEPT ![k] = Append(@, e)]
Pop(d, k)     == [d EXCEPT ![k] = Tail(@)]

LEMMA PushPopTypes ==
  ASSUME NEW d \in Data, NEW k \in Payload, NEW e \in Elements
  PROVE  /\ Push(d, k, e) \in Data /\ Push(d, k, e)[k] = Append(d[k], e)
         /\ \A j \in Payload \ {k} : Push(d, k, e)[j] = d[j]
         /\ d[k] # <<>> => /\ Pop(d, k) \in Data /\ Pop(d, k)[k] = Tail(d[k])
                           /\ \A j \in Payload \ {k} : Pop(d, k)[j] = d[j]
<1>1. \A j \in Payload : d[j] \in Seq(Elements)
  BY DEF Data
<1>2. Append(d[k], e) \in Seq(Elements)
  BY <1>1, AppendProperties
<1>3. d[k] # <<>> => Tail(d[k]) \in Seq(Elements)
  BY <1>1, HeadTailProperties
<1> QED BY <1>1, <1>2, <1>3 DEF Data, Push, Pop

LEMMA JoinedTypes ==
  ASSUME NEW d \in Data, NEW r \in Data
  PROVE  /\ Joined(d, r) \in Data
         /\ Joined(d, Empty) = d /\ Joined(Empty, r) = r
<1>1. \A k \in Payload : d[k] \in Seq(Elements) /\ r[k] \in Seq(Elements)
  BY DEF Data
<1>2. \A k \in Payload : d[k] \o r[k] \in Seq(Elements)
  BY <1>1, ConcatProperties
<1>3. \A k \in Payload : d[k] \o <<>> = d[k] /\ <<>> \o r[k] = r[k]
  BY <1>1, ConcatEmptySeq
<1>4. d = [k \in Payload |-> d[k]] /\ r = [k \in Payload |-> r[k]]
  BY DEF Data
<1>5. Joined(d, r) \in Data
  BY <1>2 DEF Data, Joined
<1>6. Joined(d, Empty) = d
  BY <1>3, <1>4 DEF Joined, Empty
<1>7. Joined(Empty, r) = r
  BY <1>3, <1>4 DEF Joined, Empty
<1> QED BY <1>5, <1>6, <1>7

LEMMA ConcatHead ==
  ASSUME NEW S, NEW s \in Seq(S), NEW t \in Seq(S), s # <<>>
  PROVE  /\ Head(s \o t) = Head(s) /\ Tail(s \o t) = Tail(s) \o t /\ s \o t # <<>>
<1>1. /\ s \o t \in Seq(S) /\ Len(s \o t) = Len(s) + Len(t)
      /\ \A i \in 1 .. Len(s) + Len(t) : (s \o t)[i] = IF i <= Len(s) THEN s[i] ELSE t[i - Len(s)]
  BY ConcatProperties
<1>2. Len(s) \in Nat \ {0} /\ Len(t) \in Nat
  BY EmptySeq
<1>3. s \o t # <<>>
  BY <1>1, <1>2
<1>4. Tail(s) \in Seq(S) /\ Len(Tail(s)) = Len(s) - 1
      /\ \A i \in 1 .. Len(Tail(s)) : Tail(s)[i] = s[i + 1]
  BY HeadTailProperties
<1> DEFINE a == Tail(s \o t)
           b == Tail(s) \o t
<1>5. a \in Seq(S) /\ Len(a) = Len(s) + Len(t) - 1 /\ \A i \in 1 .. Len(a) : a[i] = (s \o t)[i + 1]
  BY <1>1, <1>2, <1>3, HeadTailProperties
<1>6. b \in Seq(S) /\ Len(b) = Len(s) - 1 + Len(t)
      /\ \A i \in 1 .. Len(b) : b[i] = IF i <= Len(s) - 1 THEN Tail(s)[i] ELSE t[i - (Len(s) - 1)]
  BY <1>2, <1>4, ConcatProperties
<1>7. ASSUME NEW i \in 1 .. Len(a) PROVE a[i] = b[i]
  <2>1. i + 1 \in 1 .. Len(s) + Len(t) /\ i \in 1 .. Len(b)
    BY <1>2, <1>5, <1>6
  <2>2. a[i] = IF i + 1 <= Len(s) THEN s[i + 1] ELSE t[i + 1 - Len(s)]
    BY <1>1, <1>5, <2>1
  <2>3. b[i] = IF i <= Len(s) - 1 THEN s[i + 1] ELSE t[i - (Len(s) - 1)]
    BY <1>4, <1>6, <2>1
  <2>4. (i + 1 <= Len(s) <=> i <= Len(s) - 1) /\ i + 1 - Len(s) = i - (Len(s) - 1)
    BY <1>2
  <2> HIDE DEF a, b
  <2> QED BY <2>2, <2>3, <2>4
<1>8. a = b
  <2> HIDE DEF a, b
  <2>1. Len(a) = Len(b)
    BY <1>2, <1>5, <1>6
  <2> QED BY <1>5, <1>6, <1>7, <2>1, SeqEqual
<1>9. Head(s \o t) = Head(s)
  <2>1. 1 \in 1 .. Len(s) + Len(t) /\ 1 <= Len(s)
    BY <1>2
  <2>2. (s \o t)[1] = s[1]
    BY <1>1, <2>1
  <2> QED BY <1>1, <1>3, <2>2
<1> QED BY <1>3, <1>8, <1>9

LEMMA MoveHead ==
  ASSUME NEW S, NEW s \in Seq(S), NEW t \in Seq(S), t # <<>>
  PROVE  Append(s, Head(t)) \o Tail(t) = s \o t
<1>1. Head(t) \in S /\ Tail(t) \in Seq(S) /\ Len(Tail(t)) = Len(t) - 1
      /\ \A i \in 1 .. Len(Tail(t)) : Tail(t)[i] = t[i + 1]
  BY HeadTailProperties
<1>2. Len(t) \in Nat \ {0} /\ Len(s) \in Nat /\ Head(t) = t[1]
  BY EmptySeq
<1> DEFINE u == Append(s, Head(t))
           a == u \o Tail(t)
           b == s \o t
<1>3. u \in Seq(S) /\ Len(u) = Len(s) + 1 /\ u[Len(s) + 1] = t[1]
      /\ \A i \in 1 .. Len(s) : u[i] = s[i]
  BY <1>1, <1>2, AppendProperties
<1>4. a \in Seq(S) /\ Len(a) = Len(s) + Len(t)
      /\ \A i \in 1 .. Len(s) + Len(t) : a[i] = IF i <= Len(s) + 1 THEN u[i] ELSE Tail(t)[i - (Len(s) + 1)]
  <2> HIDE DEF u
  <2>1. a \in Seq(S) /\ Len(a) = Len(u) + Len(Tail(t))
        /\ \A i \in 1 .. Len(u) + Len(Tail(t)) : a[i] = IF i <= Len(u) THEN u[i] ELSE Tail(t)[i - Len(u)]
    BY <1>1, <1>3, ConcatProperties
  <2>2. Len(u) + Len(Tail(t)) = Len(s) + Len(t)
    BY <1>1, <1>2, <1>3
  <2> QED BY <1>3, <2>1, <2>2
<1>5. b \in Seq(S) /\ Len(b) = Len(s) + Len(t)
      /\ \A i \in 1 .. Len(s) + Len(t) : b[i] = IF i <= Len(s) THEN s[i] ELSE t[i - Len(s)]
  BY ConcatProperties
<1>6. ASSUME NEW i \in 1 .. Len(a) PROVE a[i] = b[i]
  <2> HIDE DEF u, a, b
  <2>1. i \in 1 .. Len(s) + Len(t)
    BY <1>4
  <2>2. CASE i <= Len(s)
    BY <1>2, <1>3, <1>4, <1>5, <2>1, <2>2, SMTT(20)
  <2>3. CASE i = Len(s) + 1
    <3>1. i - Len(s) = 1 /\ ~(i <= Len(s)) /\ i <= Len(s) + 1
      BY <1>2, <2>3
    <3> QED BY <1>3, <1>4, <1>5, <2>1, <2>3, <3>1
  <2>4. CASE i > Len(s) + 1
    <3>1. i - (Len(s) + 1) \in 1 .. Len(Tail(t)) /\ i - (Len(s) + 1) + 1 = i - Len(s)
      BY <1>1, <1>2, <2>1, <2>4
    <3>2. Tail(t)[i - (Len(s) + 1)] = t[i - Len(s)]
      BY <1>1, <3>1
    <3>3. ~(i <= Len(s)) /\ ~(i <= Len(s) + 1)
      BY <1>2, <2>1, <2>4
    <3> QED BY <1>4, <1>5, <2>1, <3>2, <3>3
  <2> QED BY <1>2, <2>1, <2>2, <2>3, <2>4
<1>7. a = b
  <2> HIDE DEF u, a, b
  <2> QED BY <1>4, <1>5, <1>6, SeqEqual
<1> QED BY <1>7

(* An element goes from what is left to what is there; a new one goes to   *)
(* the end; the first one is taken out.                                    *)
LEMMA JoinedMove ==
  ASSUME NEW d \in Data, NEW r \in Data, NEW k \in Payload, r[k] # <<>>
  PROVE  Joined(Push(d, k, Head(r[k])), Pop(r, k)) = Joined(d, r)
<1>1. d[k] \in Seq(Elements) /\ r[k] \in Seq(Elements)
  BY DEF Data
<1>2. Head(r[k]) \in Elements
  BY <1>1, HeadTailProperties
<1> DEFINE d2 == Push(d, k, Head(r[k]))
           r2 == Pop(r, k)
<1>3. d2[k] = Append(d[k], Head(r[k])) /\ r2[k] = Tail(r[k])
      /\ \A j \in Payload \ {k} : d2[j] = d[j] /\ r2[j] = r[j]
  BY <1>2, PushPopTypes
<1> HIDE DEF d2, r2
<1>4. d2[k] \o r2[k] = d[k] \o r[k]
  BY <1>1, <1>3, MoveHead
<1>5. \A j \in Payload : d2[j] \o r2[j] = d[j] \o r[j]
  BY <1>3, <1>4
<1>6. Joined(d2, r2) = Joined(d, r)
  BY <1>5 DEF Joined
<1> QED BY <1>6 DEF d2, r2

LEMMA JoinedPush ==
  ASSUME NEW d \in Data, NEW r \in Data, NEW k \in Payload, NEW e \in Elements
  PROVE  Joined(d, Push(r, k, e)) = Push(Joined(d, r), k, e)
<1>1. d[k] \in Seq(Elements) /\ r[k] \in Seq(Elements)
  BY DEF Data
<1>2. Push(r, k, e)[k] = Append(r[k], e) /\ \A j \in Payload \ {k} : Push(r, k, e)[j] = r[j]
  BY PushPopTypes
<1>3. \A s, t \in Seq(Elements) : s \o Append(t, e) = Append(s \o t, e)
  BY AppendConcat
<1>4. d[k] \o Append(r[k], e) = Append(d[k] \o r[k], e)
  BY <1>1, <1>3
<1> DEFINE a == Joined(d, Push(r, k, e))
           b == Push(Joined(d, r), k, e)
<1>5. ASSUME NEW j \in Payload PROVE a[j] = b[j]
  <2>1. a[j] = d[j] \o Push(r, k, e)[j]
    BY DEF Joined
  <2>2. b[j] = IF j = k THEN Append(d[k] \o r[k], e) ELSE d[j] \o r[j]
    BY DEF Joined, Push
  <2> QED BY <1>2, <1>4, <2>1, <2>2
<1>6. a \in Data /\ b \in Data
  BY PushPopTypes, JoinedTypes
<1> HIDE DEF a, b
<1>7. a = b
  BY <1>5, <1>6 DEF Data
<1> QED BY <1>7 DEF a, b

LEMMA JoinedPop ==
  ASSUME NEW d \in Data, NEW r \in Data, NEW k \in Payload, d[k] # <<>>
  PROVE  /\ Joined(Pop(d, k), r) = Pop(Joined(d, r), k)
         /\ Head(Joined(d, r)[k]) = Head(d[k]) /\ Joined(d, r)[k] # <<>>
<1>1. d[k] \in Seq(Elements) /\ r[k] \in Seq(Elements)
  BY DEF Data
<1>2. Pop(d, k)[k] = Tail(d[k]) /\ \A j \in Payload \ {k} : Pop(d, k)[j] = d[j]
  BY PushPopTypes, BlankTypes
<1>3. /\ Head(d[k] \o r[k]) = Head(d[k]) /\ Tail(d[k] \o r[k]) = Tail(d[k]) \o r[k]
      /\ d[k] \o r[k] # <<>>
  BY <1>1, ConcatHead
<1> DEFINE a == Joined(Pop(d, k), r)
           b == Pop(Joined(d, r), k)
<1>4. ASSUME NEW j \in Payload PROVE a[j] = b[j]
  <2>1. a[j] = Pop(d, k)[j] \o r[j]
    BY DEF Joined
  <2>2. b[j] = IF j = k THEN Tail(d[k] \o r[k]) ELSE d[j] \o r[j]
    BY DEF Joined, Pop
  <2> QED BY <1>2, <1>3, <2>1, <2>2
<1>5. a \in Data /\ b \in Data
  <2>1. Pop(d, k) \in Data /\ Joined(d, r) \in Data
    BY PushPopTypes, BlankTypes, JoinedTypes
  <2>2. Joined(d, r)[k] # <<>>
    BY <1>3 DEF Joined
  <2> QED BY <2>1, <2>2, PushPopTypes, BlankTypes, JoinedTypes
<1>6. a = b
  <2> HIDE DEF a, b
  <2> QED BY <1>4, <1>5 DEF Data
<1>7. Joined(d, r)[k] = d[k] \o r[k]
  BY DEF Joined
<1> QED BY <1>3, <1>6, <1>7
-----------------------------------------------------------------------------
(* What counters announce.                                                 *)

Gpus(q) == [i \in 1 .. Len(q) |-> q[i].gpus]

(* d is what c announces but for what l says is still to come: results,    *)
(* usages and available CPUs by their number, the GPU measurements by what *)
(* the results in d say.                                                   *)
Announced(c, d, l) ==
  /\ \A k \in Payload \ {"gpu"} : Len(d[k]) + l[k] = c[k]
  /\ \E t \in Nat : /\ Total(Len(d["result"]), Gpus(d["result"]), t)
                    /\ Len(d["gpu"]) + l["gpu"] = t + c["gpu"]

LEMMA GpusPushed ==
  ASSUME NEW q \in Seq(Elements), NEW e \in Elements, NEW t \in Nat,
         Total(Len(q), Gpus(q), t)
  PROVE  /\ t + e.gpus \in Nat
         /\ Total(Len(Append(q, e)), Gpus(Append(q, e)), t + e.gpus)
<1>1. /\ Len(Append(q, e)) = Len(q) + 1 /\ Append(q, e)[Len(q) + 1] = e
      /\ \A i \in 1 .. Len(q) : Append(q, e)[i] = q[i]
  BY AppendProperties
<1>2. Len(q) \in Nat /\ e.gpus \in Nat /\ \A i \in 1 .. Len(q) : q[i].gpus \in Nat
  <2>1. \A x \in Elements : x.gpus \in Nat
    BY DEF Elements
  <2>2. \A i \in 1 .. Len(q) : q[i] \in Elements
    OBVIOUS
  <2> QED BY <2>1, <2>2
<1> DEFINE w == Gpus(q)    w2 == Gpus(Append(q, e))
<1>3. /\ \A i \in 1 .. Len(q) : w2[i] = w[i] /\ w2[i] \in Nat
      /\ w2[Len(q) + 1] = e.gpus
  BY <1>1, <1>2 DEF Gpus
<1>4. Total(Len(q), w, t)
  OBVIOUS
<1> HIDE DEF w, w2
<1>5. Total(Len(q) + 1, w2, t + e.gpus)
  BY <1>2, <1>3, <1>4, TotalMore
<1> QED BY <1>1, <1>2, <1>5 DEF w2

LEMMA GpusPopped ==
  ASSUME NEW q \in Seq(Elements), q # <<>>, NEW t \in Nat, Total(Len(q), Gpus(q), t)
  PROVE  /\ t - Head(q).gpus \in Nat
         /\ Total(Len(Tail(q)), Gpus(Tail(q)), t - Head(q).gpus)
<1>1. /\ Len(Tail(q)) = Len(q) - 1 /\ Head(q) = q[1]
      /\ \A i \in 1 .. Len(Tail(q)) : Tail(q)[i] = q[i + 1]
  BY HeadTailProperties
<1>2. Len(q) \in Nat /\ Len(q) > 0
  BY EmptySeq
<1>3. Head(q).gpus \in Nat
  <2>1. Head(q) \in Elements
    BY HeadTailProperties
  <2> QED BY <2>1 DEF Elements
<1> DEFINE w == Gpus(q)    w2 == Gpus(Tail(q))    v == Head(q).gpus
<1>4. v = w[1] /\ \A i \in 1 .. Len(q) - 1 : w2[i] = w[i + 1]
  BY <1>1, <1>2 DEF Gpus
<1>5. Total(Len(q), w, t) /\ v \in Nat
  BY <1>3
<1> HIDE DEF w, w2, v
<1>6. t - v \in Nat /\ Total(Len(q) - 1, w2, t - v)
  BY <1>2, <1>4, <1>5, TotalLess
<1> QED BY <1>1, <1>6 DEF w2, v

LEMMA AnnouncedTypes ==
  ASSUME NEW d \in Data, NEW l \in Counts
  PROVE  \A k \in Payload : d[k] \in Seq(Elements) /\ Len(d[k]) \in Nat /\ l[k] \in Nat
BY DEF Data, Counts

(* takein receives an element of kind k.                                   *)
LEMMA AnnouncedPush ==
  ASSUME NEW c \in Counts, NEW d \in Data, NEW l \in Counts, Announced(c, d, l),
         NEW k \in Payload, NEW e \in Elements, Due(l, k), k \in {"usage", "cpu"} => e.gpus = 0
  PROVE  Announced(c, Push(d, k, e), Less(l, k, e))
<1> DEFINE d2 == Push(d, k, e)    l2 == Less(l, k, e)
<1>1. l2[k] + 1 = l[k] /\ (k = "result" => l2["gpu"] = l["gpu"] + e.gpus)
      /\ \A j \in Payload \ {k} : (j = "gpu" /\ k = "result") \/ l2[j] = l[j]
  BY LessValues
<1>2. l2 \in Counts /\ c \in Counts /\ e.gpus \in Nat
  BY LessType DEF Elements
<1>3. d2 \in Data /\ d2[k] = Append(d[k], e) /\ \A j \in Payload \ {k} : d2[j] = d[j]
  BY PushPopTypes
<1>4. /\ \A j \in Payload : Len(d[j]) \in Nat /\ l[j] \in Nat /\ l2[j] \in Nat /\ c[j] \in Nat
      /\ \A j \in Payload : d[j] \in Seq(Elements)
  BY <1>2 DEF Data, Counts
<1>5. Len(d2[k]) = Len(d[k]) + 1
  BY <1>3, <1>4, AppendProperties
<1> HIDE DEF d2, l2
<1>6. ASSUME NEW j \in Payload \ {"gpu"} PROVE Len(d2[j]) + l2[j] = c[j]
  <2>1. Len(d[j]) + l[j] = c[j]
    BY DEF Announced
  <2>2. CASE j = k
    <3>1. Len(d[k]) \in Nat /\ l2[k] \in Nat
      BY <1>4
    <3>2. Len(d[k]) + (l2[k] + 1) = c[j]
      BY <1>1, <2>1, <2>2
    <3>3. Len(d2[j]) = Len(d[k]) + 1 /\ l2[j] = l2[k]
      BY <1>5, <2>2
    <3> QED BY <3>1, <3>2, <3>3
  <2>3. CASE j # k
    BY <1>1, <1>3, <2>1, <2>3
  <2> QED BY <2>2, <2>3
<1>7. PICK t \in Nat : /\ Total(Len(d["result"]), Gpus(d["result"]), t)
                       /\ Len(d["gpu"]) + l["gpu"] = t + c["gpu"]
  BY DEF Announced
<1>8. "gpu" \in Payload /\ "result" \in Payload
  BY DEF Payload
<1>9. \E s \in Nat : /\ Total(Len(d2["result"]), Gpus(d2["result"]), s)
                     /\ Len(d2["gpu"]) + l2["gpu"] = s + c["gpu"]
  <2>1. CASE k = "result"
    <3>1. t + e.gpus \in Nat /\ Total(Len(d2["result"]), Gpus(d2["result"]), t + e.gpus)
      BY <1>3, <1>4, <1>7, <1>8, <2>1, GpusPushed
    <3>2. Len(d2["gpu"]) + l2["gpu"] = t + e.gpus + c["gpu"]
      <4>1. d2["gpu"] = d["gpu"] /\ l2["gpu"] = l["gpu"] + e.gpus
        BY <1>1, <1>3, <1>8, <2>1
      <4> DEFINE n == Len(d["gpu"])    v == e.gpus    m == l["gpu"]    z == c["gpu"]
      <4>2. n \in Nat /\ v \in Nat /\ m \in Nat /\ z \in Nat /\ n + m = t + z
        BY <1>2, <1>4, <1>7, <1>8
      <4> HIDE DEF n, v, m, z
      <4>3. n + (m + v) = t + v + z
        BY <4>2
      <4> QED BY <4>1, <4>3 DEF n, v, m, z
    <3> QED BY <3>1, <3>2
  <2>2. CASE k # "result"
    <3>1. d2["result"] = d["result"]
      BY <1>3, <1>8, <2>2
    <3>2. Len(d2["gpu"]) + l2["gpu"] = Len(d["gpu"]) + l["gpu"]
      <4>1. CASE k = "gpu"
        <5>1. /\ Len(d2["gpu"]) = Len(d["gpu"]) + 1 /\ l2["gpu"] + 1 = l["gpu"]
              /\ Len(d["gpu"]) \in Nat /\ l2["gpu"] \in Nat
          BY <1>1, <1>4, <1>5, <1>8, <4>1
        <5> QED BY <5>1
      <4>2. CASE k # "gpu"
        BY <1>1, <1>3, <1>8, <2>2, <4>2
      <4> QED BY <4>1, <4>2
    <3> QED BY <1>7, <3>1, <3>2
  <2> QED BY <2>1, <2>2
<1>10. Announced(c, d2, l2)
  BY <1>6, <1>9 DEF Announced
<1> QED BY <1>10 DEF d2, l2

(* recombine_queue finds what is due, and takes the first element of it.   *)
LEMMA AnnouncedDue ==
  ASSUME NEW r \in Data, NEW l \in Counts, Announced(l, r, None), NEW k \in Payload, Due(l, k)
  PROVE  r[k] # <<>>
<1>1. l[k] > 0 /\ l[k] \in Nat /\ Len(r[k]) \in Nat /\ None[k] = 0
  BY DEF Due, Counts, Data, None
<1>2. CASE k = "gpu"
  <2>1. PICK t \in Nat : Len(r["gpu"]) + None["gpu"] = t + l["gpu"]
    BY DEF Announced
  <2>2. Len(r["gpu"]) > 0
    BY <1>1, <1>2, <2>1
  <2> QED BY <1>2, <2>2
<1>3. CASE k # "gpu"
  <2>1. Len(r[k]) + None[k] = l[k]
    BY <1>3 DEF Announced
  <2> QED BY <1>1, <2>1
<1> QED BY <1>2, <1>3

LEMMA AnnouncedPop ==
  ASSUME NEW r \in Data, NEW l \in Counts, Announced(l, r, None), NEW k \in Payload, Due(l, k),
         r[k] # <<>>, k \in {"usage", "cpu"} => Head(r[k]).gpus = 0
  PROVE  Announced(Less(l, k, Head(r[k])), Pop(r, k), None)
<1> DEFINE e == Head(r[k])    r2 == Pop(r, k)    l2 == Less(l, k, e)
<1>0. r[k] \in Seq(Elements)
  BY DEF Data
<1>1. e \in Elements /\ e.gpus \in Nat
  <2>1. e \in Elements
    BY <1>0, HeadTailProperties
  <2> HIDE DEF e
  <2> QED BY <2>1 DEF Elements
<1>2. l2[k] + 1 = l[k] /\ (k = "result" => l2["gpu"] = l["gpu"] + e.gpus)
      /\ \A j \in Payload \ {k} : (j = "gpu" /\ k = "result") \/ l2[j] = l[j]
  <2> HIDE DEF e
  <2>1. k \in {"usage", "cpu"} => e.gpus = 0
    BY DEF e
  <2> QED BY <1>1, <2>1, LessValues
<1>3. l2 \in Counts
  <2> HIDE DEF e
  <2> QED BY <1>1, LessType
<1>4. r2 \in Data /\ r2[k] = Tail(r[k]) /\ \A j \in Payload \ {k} : r2[j] = r[j]
  BY PushPopTypes, BlankTypes
<1>5. \A j \in Payload : /\ Len(r[j]) \in Nat /\ l[j] \in Nat /\ l2[j] \in Nat /\ None[j] = 0
                         /\ r[j] \in Seq(Elements)
  BY <1>3 DEF Data, Counts, None
<1>6. Len(r2[k]) = Len(r[k]) - 1
  BY <1>0, <1>4, HeadTailProperties
<1> HIDE DEF r2, l2
<1>7. ASSUME NEW j \in Payload \ {"gpu"} PROVE Len(r2[j]) + None[j] = l2[j]
  <2>1. Len(r[j]) + None[j] = l[j]
    BY DEF Announced
  <2>2. CASE j = k
    BY <1>2, <1>5, <1>6, <2>1, <2>2
  <2>3. CASE j # k
    BY <1>2, <1>4, <2>1, <2>3
  <2> QED BY <2>2, <2>3
<1>8. PICK t \in Nat : /\ Total(Len(r["result"]), Gpus(r["result"]), t)
                       /\ Len(r["gpu"]) + None["gpu"] = t + l["gpu"]
  BY DEF Announced
<1>9. "gpu" \in Payload /\ "result" \in Payload
  BY DEF Payload
<1>10. \E s \in Nat : /\ Total(Len(r2["result"]), Gpus(r2["result"]), s)
                      /\ Len(r2["gpu"]) + None["gpu"] = s + l2["gpu"]
  <2>1. CASE k = "result"
    <3>1. t - e.gpus \in Nat /\ Total(Len(r2["result"]), Gpus(r2["result"]), t - e.gpus)
      BY <1>0, <1>4, <1>8, <2>1, GpusPopped
    <3>2. Len(r2["gpu"]) + None["gpu"] = t - e.gpus + l2["gpu"]
      <4> HIDE DEF e
      <4>1. r2["gpu"] = r["gpu"] /\ l2["gpu"] = l["gpu"] + e.gpus
        BY <1>2, <1>4, <1>9, <2>1
      <4>2. l["gpu"] \in Nat /\ Len(r["gpu"]) + None["gpu"] = t + l["gpu"]
        BY <1>5, <1>8, <1>9
      <4> QED BY <1>1, <4>1, <4>2
    <3> QED BY <3>1, <3>2
  <2>2. CASE k = "gpu"
    <3>1. r2["result"] = r["result"]
      BY <1>4, <1>9, <2>2
    <3>2. Len(r2["gpu"]) + None["gpu"] = t + l2["gpu"]
      <4>1. /\ Len(r2["gpu"]) = Len(r["gpu"]) - 1 /\ l2["gpu"] + 1 = l["gpu"]
            /\ Len(r["gpu"]) \in Nat /\ l2["gpu"] \in Nat /\ None["gpu"] = 0
        BY <1>2, <1>5, <1>6, <1>9, <2>2
      <4>2. Len(r["gpu"]) = t + (l2["gpu"] + 1)
        BY <1>8, <4>1
      <4> QED BY <4>1, <4>2
    <3> QED BY <1>8, <3>1, <3>2
  <2>3. CASE k # "result" /\ k # "gpu"
    <3>1. r2["result"] = r["result"] /\ r2["gpu"] = r["gpu"] /\ l2["gpu"] = l["gpu"]
      BY <1>2, <1>4, <1>9, <2>3
    <3> QED BY <1>8, <3>1
  <2> QED BY <2>1, <2>2, <2>3
<1>11. Announced(l2, r2, None)
  BY <1>7, <1>10 DEF Announced
<1> QED BY <1>11 DEF l2, r2, e

LEMMA AnnouncedAll ==
  ASSUME NEW r \in Data, Announced(None, r, None)
  PROVE  r = Empty
<1>1. \A k \in Payload : None[k] = 0 /\ Len(r[k]) \in Nat /\ r[k] \in Seq(Elements)
  BY DEF None, Data
<1>2. "gpu" \in Payload /\ "result" \in Payload
  BY DEF Payload
<1>3. \A k \in Payload \ {"gpu"} : Len(r[k]) = 0
  BY <1>1 DEF Announced
<1>4. PICK t \in Nat : /\ Total(Len(r["result"]), Gpus(r["result"]), t)
                       /\ Len(r["gpu"]) + None["gpu"] = t + None["gpu"]
  BY DEF Announced
<1>5. t = 0
  <2>1. Len(r["result"]) = 0
    BY <1>2, <1>3
  <2> QED BY <1>4, <2>1, TotalNone
<1>6. Len(r["gpu"]) = 0
  BY <1>1, <1>2, <1>4, <1>5
<1>7. \A k \in Payload : r[k] = <<>>
  BY <1>1, <1>3, <1>6, EmptySeq
<1> QED BY <1>7 DEF Data, Empty

LEMMA AnnouncedNew ==
  ASSUME NEW c \in Counts
  PROVE  Announced(c, Empty, c)
<1>1. \A k \in Payload : Len(Empty[k]) = 0 /\ c[k] \in Nat
  BY DEF Empty, Counts
<1>2. "gpu" \in Payload /\ "result" \in Payload
  BY DEF Payload
<1>3. Total(Len(Empty["result"]), Gpus(Empty["result"]), 0)
  BY <1>1, <1>2, TotalNone
<1> QED BY <1>1, <1>2, <1>3 DEF Announced

-----------------------------------------------------------------------------
(* Sequences on top of each other.                                         *)

(* q is w[1], ..., w[n] one after the other, by what is left of it after   *)
(* each of them.                                                           *)
Piled(n, w, q) ==
  \E rest \in [0 .. n -> Seq(Elements)] :
    /\ rest[0] = q
    /\ rest[n] = <<>>
    /\ \A i \in 1 .. n : rest[i - 1] = w[i] \o rest[i]

LEMMA PiledNone ==
  ASSUME NEW w
  PROVE  Piled(0, w, <<>>)
<1> DEFINE rest == [i \in 0 .. 0 |-> <<>>]
<1>1. rest \in [0 .. 0 -> Seq(Elements)] /\ rest[0] = <<>>
      /\ \A i \in 1 .. 0 : rest[i - 1] = w[i] \o rest[i]
  OBVIOUS
<1> HIDE DEF rest
<1> QED BY <1>1 DEF Piled

LEMMA PiledNew ==
  ASSUME NEW n \in Nat, NEW w, NEW w2, NEW q, Piled(n, w, q),
         \A i \in 1 .. n : w2[i] = w[i], w2[n + 1] = <<>>
  PROVE  Piled(n + 1, w2, q)
<1>1. PICK rest \in [0 .. n -> Seq(Elements)] :
        rest[0] = q /\ rest[n] = <<>> /\ \A i \in 1 .. n : rest[i - 1] = w[i] \o rest[i]
  BY DEF Piled
<1> DEFINE more == [i \in 0 .. n + 1 |-> IF i = n + 1 THEN <<>> ELSE rest[i]]
<1>2. more \in [0 .. n + 1 -> Seq(Elements)] /\ more[0] = q /\ more[n + 1] = <<>>
  BY <1>1
<1>3. ASSUME NEW i \in 1 .. n + 1 PROVE more[i - 1] = w2[i] \o more[i]
  <2>1. CASE i = n + 1
    <3>1. more[i - 1] = <<>> /\ more[i] = <<>> /\ w2[i] = <<>>
      BY <1>1, <2>1
    <3> HIDE DEF more
    <3>2. <<>> \o <<>> = <<>>
      OBVIOUS
    <3>3. w2[i] \o more[i] = <<>>
      BY <3>1, <3>2
    <3> QED BY <3>1, <3>3
  <2>2. CASE i \in 1 .. n
    <3>1. more[i - 1] = rest[i - 1] /\ more[i] = rest[i] /\ w2[i] = w[i]
      BY <2>2
    <3>2. rest[i - 1] = w[i] \o rest[i]
      BY <1>1, <2>2
    <3> HIDE DEF more
    <3> QED BY <3>1, <3>2
  <2>3. i = n + 1 \/ i \in 1 .. n
    OBVIOUS
  <2> HIDE DEF more
  <2> QED BY <2>1, <2>2, <2>3
<1> HIDE DEF more
<1> QED BY <1>2, <1>3 DEF Piled

LEMMA PiledPush ==
  ASSUME NEW n \in Nat, n > 0, NEW w, NEW w2, NEW q \in Seq(Elements), NEW e \in Elements,
         Piled(n, w, q), \A i \in 1 .. n : w[i] \in Seq(Elements),
         \A i \in 1 .. n - 1 : w2[i] = w[i], w2[n] = Append(w[n], e)
  PROVE  Piled(n, w2, Append(q, e))
<1>0. \A s, t \in Seq(Elements) : s \o Append(t, e) = Append(s \o t, e)
  BY AppendConcat
<1>1. PICK rest \in [0 .. n -> Seq(Elements)] :
        rest[0] = q /\ rest[n] = <<>> /\ \A i \in 1 .. n : rest[i - 1] = w[i] \o rest[i]
  BY DEF Piled
<1> DEFINE more == [i \in 0 .. n |-> IF i = n THEN <<>> ELSE Append(rest[i], e)]
<1>2. more \in [0 .. n -> Seq(Elements)] /\ more[0] = Append(q, e) /\ more[n] = <<>>
  <2>1. \A i \in 0 .. n : Append(rest[i], e) \in Seq(Elements)
    BY AppendProperties
  <2> QED BY <1>1, <2>1
<1>3. ASSUME NEW i \in 1 .. n PROVE more[i - 1] = w2[i] \o more[i]
  <2>00. i - 1 \in 0 .. n /\ i - 1 # n /\ i \in 0 .. n
    OBVIOUS
  <2>01. more[i - 1] = Append(rest[i - 1], e)
    BY <2>00
  <2>0. more[i - 1] = Append(rest[i - 1], e) /\ rest[i - 1] = w[i] \o rest[i]
        /\ w[i] \in Seq(Elements) /\ rest[i] \in Seq(Elements)
    <3> HIDE DEF more
    <3> QED BY <1>1, <2>00, <2>01
  <2>1. CASE i = n
    <3>1. rest[i] = <<>> /\ more[i] = <<>> /\ w2[i] = Append(w[i], e)
      BY <1>1, <2>1
    <3>2. w[i] \o <<>> = w[i] /\ Append(w[i], e) \in Seq(Elements)
      BY <2>0, ConcatEmptySeq, AppendProperties
    <3>3. Append(w[i], e) \o <<>> = Append(w[i], e)
      BY <3>2, ConcatEmptySeq
    <3> HIDE DEF more
    <3> QED BY <2>0, <3>1, <3>2, <3>3
  <2>2. CASE i \in 1 .. n - 1
    <3>1. more[i] = Append(rest[i], e) /\ w2[i] = w[i]
      BY <2>2, SMTT(20)
    <3>2. w[i] \o Append(rest[i], e) = Append(w[i] \o rest[i], e)
      <4> HIDE DEF more
      <4> QED BY <1>0, <2>0
    <3> HIDE DEF more
    <3> QED BY <2>0, <3>1, <3>2
  <2>3. i = n \/ i \in 1 .. n - 1
    OBVIOUS
  <2> HIDE DEF more
  <2> QED BY <2>1, <2>2, <2>3
<1> HIDE DEF more
<1>4. \A i \in 1 .. n : more[i - 1] = w2[i] \o more[i]
  BY <1>3
<1> QED BY <1>2, <1>4 DEF Piled

LEMMA PiledPop ==
  ASSUME NEW n \in Nat, n > 0, NEW w, NEW w2, NEW q, Piled(n, w, q),
         \A i \in 1 .. n - 1 : w2[i] = w[i + 1]
  PROVE  \E q1 \in Seq(Elements) : q = w[1] \o q1 /\ Piled(n - 1, w2, q1)
<1>1. PICK rest \in [0 .. n -> Seq(Elements)] :
        rest[0] = q /\ rest[n] = <<>> /\ \A i \in 1 .. n : rest[i - 1] = w[i] \o rest[i]
  BY DEF Piled
<1> DEFINE less == [i \in 0 .. n - 1 |-> rest[i + 1]]
<1>2. /\ less \in [0 .. n - 1 -> Seq(Elements)] /\ less[0] = rest[1] /\ less[n - 1] = <<>>
      /\ rest[1] \in Seq(Elements) /\ q = w[1] \o rest[1]
  <2>1. \A i \in 0 .. n - 1 : i + 1 \in 0 .. n
    OBVIOUS
  <2>2. less \in [0 .. n - 1 -> Seq(Elements)]
    BY <2>1
  <2>3. less[0] = rest[1] /\ less[n - 1] = rest[n] /\ rest[1] \in Seq(Elements)
    OBVIOUS
  <2>4. 1 \in 1 .. n /\ 1 - 1 = 0
    OBVIOUS
  <2>5. rest[0] = w[1] \o rest[1]
    BY <1>1, <2>4
  <2> QED BY <1>1, <2>2, <2>3, <2>5
<1>3. ASSUME NEW i \in 1 .. n - 1 PROVE less[i - 1] = w2[i] \o less[i]
  <2>1. i + 1 \in 1 .. n /\ (i + 1) - 1 = i
    OBVIOUS
  <2>2. rest[i] = w[i + 1] \o rest[i + 1]
    BY <1>1, <2>1
  <2>3. less[i - 1] = rest[i] /\ less[i] = rest[i + 1]
    OBVIOUS
  <2> QED BY <2>2, <2>3
<1> HIDE DEF less
<1>4. Piled(n - 1, w2, rest[1])
  BY <1>2, <1>3 DEF Piled
<1> QED BY <1>2, <1>4
-----------------------------------------------------------------------------
(* Whose payload is whose.                                                 *)

(* A sender whose fate is settled; one that sent everything.               *)
Settled(procs, s)  == s \in Scrapers => procs[s].st \in {"sent", "dead"}
Faithful(procs, s) == s \in Scrapers /\ procs[s].st = "sent"

(* d is from s, or made up; in order from the first on if s sent it all.   *)
Own(procs, s, d) ==
  /\ Settled(procs, s)
  /\ \A k \in Payload : \A i \in 1 .. Len(d[k]) :
       /\ d[k][i].from \in {s, Nobody}
       /\ Faithful(procs, s) => d[k][i] = Sent(s, k, i)

Whole(procs, s, d) ==
  /\ Own(procs, s, d)
  /\ Faithful(procs, s) => Announced(HeaderOf(s).cnt, d, None)

(* q is one piece of payload after the other, one for each header in h; of *)
(* the last one left is still to come.                                     *)
Layout(procs, h, left, p, q) ==
  /\ p \in [1 .. Len(h) -> Data]
  /\ q \in Data
  /\ \A i \in 1 .. Len(h) :
       /\ Own(procs, h[i].from, p[i])
       /\ Announced(h[i].cnt, p[i], IF i = Len(h) THEN left ELSE None)
  /\ \A k \in Payload : Piled(Len(h), [i \in 1 .. Len(h) |-> p[i][k]], q[k])

(* Scrapers that are settled stay as they are.                             *)
Settles(procs, procs2) ==
  \A s \in Scrapers : procs[s].st \in {"sent", "dead"} => procs2[s] = procs[s]

LEMMA OwnSettled ==
  ASSUME NEW procs, NEW procs2, Settles(procs, procs2)
  PROVE  /\ \A s : Settled(procs, s) => Settled(procs2, s)
                                       /\ (Faithful(procs, s) <=> Faithful(procs2, s))
         /\ \A s, d : Own(procs, s, d) => Own(procs2, s, d)
         /\ \A s, d : Whole(procs, s, d) => Whole(procs2, s, d)
<1>1. \A s : Settled(procs, s) => Settled(procs2, s)
                                 /\ (Faithful(procs, s) <=> Faithful(procs2, s))
  BY DEF Settles, Settled, Faithful
<1>2. ASSUME NEW s, NEW d, Own(procs, s, d) PROVE Own(procs2, s, d)
  <2>1. Settled(procs2, s) /\ (Faithful(procs, s) <=> Faithful(procs2, s))
    BY <1>1, <1>2 DEF Own
  <2> QED BY <1>2, <2>1 DEF Own
<1>3. ASSUME NEW s, NEW d, Whole(procs, s, d) PROVE Whole(procs2, s, d)
  <2>1. Own(procs, s, d) /\ Settled(procs, s)
    BY <1>3 DEF Whole, Own
  <2> QED BY <1>1, <1>2, <1>3, <2>1 DEF Whole
<1> QED BY <1>1, <1>2, <1>3

LEMMA LayoutSettled ==
  ASSUME NEW procs, NEW procs2, Settles(procs, procs2), NEW h, NEW left, NEW p, NEW q,
         Layout(procs, h, left, p, q)
  PROVE  Layout(procs2, h, left, p, q)
BY OwnSettled DEF Layout

(* Nothing of it was received yet.                                         *)
LEMMA OwnEmpty ==
  ASSUME NEW procs, NEW s, Settled(procs, s)
  PROVE  Own(procs, s, Empty)
BY DEF Own, Empty

LEMMA OwnPush ==
  ASSUME NEW procs, NEW s, NEW d \in Data, Own(procs, s, d), NEW k \in Payload,
         NEW e \in Elements, e.from \in {s, Nobody},
         Faithful(procs, s) => e = Sent(s, k, Len(d[k]) + 1)
  PROVE  Own(procs, s, Push(d, k, e))
<1> DEFINE d2 == Push(d, k, e)
           n == Len(d[k])
<1>1. d2[k] = Append(d[k], e) /\ \A j \in Payload \ {k} : d2[j] = d[j]
  BY PushPopTypes
<1>2. d[k] \in Seq(Elements)
  BY DEF Data
<1>3. /\ n \in Nat /\ Len(Append(d[k], e)) = n + 1 /\ Append(d[k], e)[n + 1] = e
      /\ \A i \in 1 .. n : Append(d[k], e)[i] = d[k][i]
  BY <1>2, AppendProperties, LenProperties
<1> HIDE DEF d2
<1>4. ASSUME NEW j \in Payload, NEW i \in 1 .. Len(d2[j])
      PROVE  d2[j][i].from \in {s, Nobody} /\ (Faithful(procs, s) => d2[j][i] = Sent(s, j, i))
  <2>1. CASE j # k
    BY <1>1, <2>1 DEF Own
  <2>2. CASE j = k
    <3>1. Len(d2[j]) = n + 1
      BY <1>1, <1>3, <2>2
    <3>2. CASE i = n + 1
      BY <1>1, <1>3, <2>2, <3>2
    <3>3. CASE i \in 1 .. n
      <4>1. d2[j][i] = d[k][i]
        BY <1>1, <1>3, <2>2, <3>3
      <4> QED BY <2>2, <3>3, <4>1 DEF Own
    <3>4. i = n + 1 \/ i \in 1 .. n
      BY <1>3, <3>1
    <3> QED BY <3>2, <3>3, <3>4
  <2> QED BY <2>1, <2>2
<1>5. Own(procs, s, d2)
  BY <1>4 DEF Own
<1> QED BY <1>5 DEF d2

(* takein pushes a header.                                                 *)
LEMMA LayoutNew ==
  ASSUME NEW procs, NEW h \in Seq(Headers), NEW x \in Headers, NEW p, NEW q,
         Layout(procs, h, None, p, q), Settled(procs, x.from)
  PROVE  \E p2 : Layout(procs, Append(h, x), x.cnt, p2, q) /\ p2[Len(h) + 1] = Empty
<1> DEFINE n == Len(h)
           h2 == Append(h, x)
           p2 == [i \in 1 .. n + 1 |-> IF i = n + 1 THEN Empty ELSE p[i]]
<1>1. /\ n \in Nat /\ Len(h2) = n + 1 /\ h2[n + 1] = x
      /\ \A i \in 1 .. n : h2[i] = h[i] /\ h2[i] \in Headers
  BY AppendProperties, LenProperties
<1>2. p \in [1 .. n -> Data] /\ q \in Data
  BY DEF Layout
<1>3. /\ p2 \in [1 .. n + 1 -> Data] /\ p2[n + 1] = Empty
      /\ \A i \in 1 .. n : p2[i] = p[i]
  BY <1>1, <1>2, BlankTypes
<1> HIDE DEF p2, h2
<1>4. ASSUME NEW i \in 1 .. n + 1
      PROVE  Own(procs, h2[i].from, p2[i])
             /\ Announced(h2[i].cnt, p2[i], IF i = n + 1 THEN x.cnt ELSE None)
  <2>1. CASE i = n + 1
    <3>1. Own(procs, x.from, Empty)
      BY OwnEmpty
    <3>2. x.cnt \in Counts
      BY DEF Headers
    <3>3. Announced(x.cnt, Empty, x.cnt)
      BY <3>2, AnnouncedNew
    <3> QED BY <1>1, <1>3, <2>1, <3>1, <3>3
  <2>2. CASE i \in 1 .. n
    <3>1. Own(procs, h[i].from, p[i])
          /\ Announced(h[i].cnt, p[i], None)
      BY <2>2 DEF Layout
    <3>2. h2[i] = h[i] /\ p2[i] = p[i] /\ i # n + 1
      BY <1>1, <1>3, <2>2
    <3> QED BY <3>1, <3>2
  <2>3. i = n + 1 \/ i \in 1 .. n
    BY <1>1
  <2> QED BY <2>1, <2>2, <2>3
<1>5. ASSUME NEW k \in Payload PROVE Piled(n + 1, [i \in 1 .. n + 1 |-> p2[i][k]], q[k])
  <2> DEFINE w == [i \in 1 .. n |-> p[i][k]]
             w2 == [i \in 1 .. n + 1 |-> p2[i][k]]
  <2>1. Piled(n, w, q[k])
    BY DEF Layout
  <2>2. \A i \in 1 .. n : w2[i] = w[i]
    BY <1>1, <1>3
  <2>3. w2[n + 1] = <<>>
    BY <1>1, <1>3 DEF Empty
  <2> HIDE DEF w, w2
  <2>4. Piled(n + 1, w2, q[k])
    BY <1>1, <2>1, <2>2, <2>3, PiledNew
  <2> QED BY <2>4 DEF w2
<1>6. Layout(procs, h2, x.cnt, p2, q)
  BY <1>1, <1>2, <1>3, <1>4, <1>5 DEF Layout
<1> QED BY <1>3, <1>6 DEF h2

(* takein pushes an element of the last header.                            *)
LEMMA LayoutPush ==
  ASSUME NEW procs, NEW h \in Seq(Headers), h # <<>>, NEW left \in Counts, NEW p, NEW q,
         Layout(procs, h, left, p, q), NEW k \in Payload, NEW e \in Elements, Due(left, k),
         k \in {"usage", "cpu"} => e.gpus = 0, e.from \in {h[Len(h)].from, Nobody},
         Faithful(procs, h[Len(h)].from) => e = Sent(h[Len(h)].from, k, Len(p[Len(h)][k]) + 1)
  PROVE  \E p2 : /\ Layout(procs, h, Less(left, k, e), p2, Push(q, k, e))
                 /\ p2[Len(h)] = Push(p[Len(h)], k, e)
<1> DEFINE n == Len(h)
           l2 == Less(left, k, e)
           d2 == Push(p[n], k, e)
           p2 == [i \in 1 .. n |-> IF i = n THEN d2 ELSE p[i]]
           q2 == Push(q, k, e)
<1>1. n \in Nat \ {0} /\ n \in 1 .. n /\ h[n] \in Headers
  BY EmptySeq
<1>2. p \in [1 .. n -> Data] /\ q \in Data /\ p[n] \in Data
  BY <1>1 DEF Layout
<1>3. d2 \in Data /\ q2 \in Data
  BY <1>2, PushPopTypes
<1>4. p2 \in [1 .. n -> Data] /\ p2[n] = d2 /\ \A i \in 1 .. n - 1 : p2[i] = p[i]
  BY <1>1, <1>2, <1>3
<1>5. /\ \A i \in 1 .. n : Own(procs, h[i].from, p[i])
      /\ \A i \in 1 .. n - 1 : Announced(h[i].cnt, p[i], None)
      /\ Announced(h[n].cnt, p[n], left)
  BY <1>1 DEF Layout
<1>6. Own(procs, h[n].from, d2)
  BY <1>1, <1>2, <1>5, OwnPush
<1>7. Announced(h[n].cnt, d2, l2)
  <2>1. h[n].cnt \in Counts
    BY <1>1 DEF Headers
  <2> QED BY <1>2, <1>5, <2>1, AnnouncedPush
<1>8. ASSUME NEW j \in Payload PROVE Piled(n, [i \in 1 .. n |-> p2[i][j]], q2[j])
  <2> DEFINE w == [i \in 1 .. n |-> p[i][j]]
             w2 == [i \in 1 .. n |-> p2[i][j]]
  <2>1. Piled(n, w, q[j]) /\ q[j] \in Seq(Elements)
    BY <1>2 DEF Layout, Data
  <2>2. \A i \in 1 .. n : w[i] \in Seq(Elements)
    BY <1>2 DEF Data
  <2>3. \A i \in 1 .. n - 1 : w2[i] = w[i]
    BY <1>1, <1>4
  <2>4. w2[n] = d2[j] /\ w[n] = p[n][j]
    BY <1>1, <1>4
  <2> HIDE DEF p2
  <2>5. CASE j = k
    <3>1. d2[k] = Append(p[n][k], e) /\ q2[k] = Append(q[k], e)
      BY <1>2, PushPopTypes
    <3>2. w2[n] = Append(w[n], e) /\ q2[j] = Append(q[j], e)
      BY <2>4, <2>5, <3>1
    <3> DEFINE r == q[j]
    <3>3. Piled(n, w, r) /\ r \in Seq(Elements) /\ n \in Nat /\ n > 0
      BY <1>1, <2>1
    <3>4. \A i \in 1 .. n : w[i] \in Seq(Elements)
      BY <2>2
    <3>5. (\A i \in 1 .. n - 1 : w2[i] = w[i]) /\ w2[n] = Append(w[n], e)
      BY <2>3, <3>2
    <3> HIDE DEF w, w2, d2, q2, n, r
    <3>6. Piled(n, w2, Append(r, e))
      BY <3>3, <3>4, <3>5, PiledPush
    <3>7. Piled(n, w2, q2[j])
      BY <3>2, <3>6 DEF r
    <3> QED BY <3>7 DEF w2, n
  <2>6. CASE j # k
    <3>1. d2[j] = p[n][j] /\ q2[j] = q[j]
      BY <1>2, <2>6, PushPopTypes
    <3>2. ASSUME NEW i \in 1 .. n PROVE w2[i] = w[i]
      <4>1. i = n \/ i \in 1 .. n - 1
        BY <1>1
      <4>2. w2[n] = w[n]
        BY <2>4, <3>1
      <4> HIDE DEF w, w2
      <4> QED BY <2>3, <4>1, <4>2
    <3>3. w2 = w
      BY <3>2
    <3> HIDE DEF w, w2, d2, q2
    <3> QED BY <2>1, <3>1, <3>3 DEF w2
  <2> QED BY <2>5, <2>6
<1> HIDE DEF p2, d2, l2, q2
<1>9. ASSUME NEW i \in 1 .. n
      PROVE  /\ Own(procs, h[i].from, p2[i])
             /\ Announced(h[i].cnt, p2[i], IF i = n THEN l2 ELSE None)
  <2>1. CASE i = n
    BY <1>4, <1>6, <1>7, <2>1
  <2>2. CASE i \in 1 .. n - 1
    <3>1. i # n /\ p2[i] = p[i]
      BY <1>1, <1>4, <2>2
    <3> QED BY <1>5, <2>2, <3>1
  <2>3. i = n \/ i \in 1 .. n - 1
    BY <1>1
  <2> QED BY <2>1, <2>2, <2>3
<1>10. Layout(procs, h, l2, p2, q2)
  BY <1>3, <1>4, <1>8, <1>9 DEF Layout
<1> QED BY <1>4, <1>10 DEF l2, q2, d2

(* recombine_queue pops a header.                                          *)
LEMMA LayoutPop ==
  ASSUME NEW procs, NEW h \in Seq(Headers), h # <<>>, NEW p, NEW q,
         Layout(procs, h, None, p, q)
  PROVE  /\ p[1] \in Data /\ Own(procs, Head(h).from, p[1])
         /\ Announced(Head(h).cnt, p[1], None)
         /\ \E p2, q2 : /\ Layout(procs, Tail(h), None, p2, q2) /\ q2 \in Data
                        /\ q = Joined(p[1], q2)
<1> DEFINE n == Len(h)
           h2 == Tail(h)
           p2 == [i \in 1 .. n - 1 |-> p[i + 1]]
<1>1. /\ n \in Nat \ {0} /\ 1 \in 1 .. n /\ Head(h) = h[1] /\ Len(h2) = n - 1
      /\ n - 1 \in Nat /\ \A i \in 1 .. n - 1 : h2[i] = h[i + 1] /\ i + 1 \in 1 .. n
  BY EmptySeq, HeadTailProperties
<1>2. p \in [1 .. n -> Data] /\ q \in Data /\ p[1] \in Data
  BY <1>1 DEF Layout
<1>3. p2 \in [1 .. n - 1 -> Data] /\ \A i \in 1 .. n - 1 : p2[i] = p[i + 1]
  BY <1>1, <1>2
<1>4. \A i \in 1 .. n : Own(procs, h[i].from, p[i]) /\ Announced(h[i].cnt, p[i], None)
  BY DEF Layout
<1>5. Own(procs, Head(h).from, p[1]) /\ Announced(Head(h).cnt, p[1], None)
  BY <1>1, <1>4
<1>6. ASSUME NEW k \in Payload
      PROVE  \E r \in Seq(Elements) :
               q[k] = p[1][k] \o r /\ Piled(n - 1, [i \in 1 .. n - 1 |-> p2[i][k]], r)
  <2> DEFINE w == [i \in 1 .. n |-> p[i][k]]
             w2 == [i \in 1 .. n - 1 |-> p2[i][k]]
             r == q[k]
  <2>1. Piled(n, w, r)
    BY DEF Layout
  <2>2. w[1] = p[1][k]
    BY <1>1
  <2>3. \A i \in 1 .. n - 1 : w2[i] = w[i + 1]
    BY <1>1, <1>3
  <2>4. n \in Nat /\ n > 0
    BY <1>1
  <2> HIDE DEF w, w2, n, r
  <2>5. \E r1 \in Seq(Elements) : r = w[1] \o r1 /\ Piled(n - 1, w2, r1)
    BY <2>1, <2>3, <2>4, PiledPop
  <2> QED BY <2>2, <2>5 DEF w2, r
<1> DEFINE Rest(k) == CHOOSE r \in Seq(Elements) :
             q[k] = p[1][k] \o r /\ Piled(n - 1, [i \in 1 .. n - 1 |-> p2[i][k]], r)
           q2 == [k \in Payload |-> Rest(k)]
<1>7. \A k \in Payload : /\ Rest(k) \in Seq(Elements) /\ q[k] = p[1][k] \o Rest(k)
                          /\ Piled(n - 1, [i \in 1 .. n - 1 |-> p2[i][k]], Rest(k))
  <2> HIDE DEF p2
  <2> QED BY <1>6
<1> HIDE DEF Rest
<1>8. \A k \in Payload : /\ q2[k] \in Seq(Elements) /\ q[k] = p[1][k] \o q2[k]
                          /\ Piled(n - 1, [i \in 1 .. n - 1 |-> p2[i][k]], q2[k])
  <2> HIDE DEF p2
  <2> QED BY <1>7
<1>9. q2 \in Data
  BY <1>7 DEF Data
<1> HIDE DEF q2
<1>10. q = Joined(p[1], q2)
  <2>1. q = [k \in Payload |-> q[k]]
    BY <1>2 DEF Data
  <2> QED BY <1>8, <2>1 DEF Joined
<1> HIDE DEF p2, h2
<1>11. ASSUME NEW i \in 1 .. n - 1
       PROVE  Own(procs, h2[i].from, p2[i])
              /\ Announced(h2[i].cnt, p2[i], IF i = n - 1 THEN None ELSE None)
  <2>1. h2[i] = h[i + 1] /\ p2[i] = p[i + 1] /\ i + 1 \in 1 .. n
    BY <1>1, <1>3
  <2> QED BY <1>4, <2>1
<1>12. Layout(procs, h2, None, p2, q2)
  BY <1>1, <1>3, <1>8, <1>9, <1>11 DEF Layout
<1>13. \E p3, q3 : Layout(procs, Tail(h), None, p3, q3) /\ q3 \in Data /\ q = Joined(p[1], q3)
  BY <1>9, <1>10, <1>12 DEF h2
<1> QED BY <1>2, <1>5, <1>13

(* Nothing is there.                                                       *)
LEMMA LayoutNone ==
  ASSUME NEW procs
  PROVE  Layout(procs, <<>>, None, <<>>, Empty)
<1>1. <<>> \in [1 .. 0 -> Data] /\ Empty \in Data /\ Len(<<>>) = 0
  BY BlankTypes
<1>2. \A k \in Payload : Empty[k] = <<>>
  BY DEF Empty
<1> QED BY <1>1, <1>2, PiledNone DEF Layout

-----------------------------------------------------------------------------
(* Where the payload of each header is.                                    *)

(* What a header counts is what its sender has, if it sends everything.    *)
Known(procs, h) ==
  /\ Settled(procs, h.from)
  /\ Faithful(procs, h.from) => h.cnt = HeaderOf(h.from).cnt

(* What takein has to do with the stream: a header nobody is named in has  *)
(* come to its end, and what a local variable holds is from its sender.    *)
ConnInv ==
  /\ takein.pc \in {"header", "hostname", "payload"} => Settled(scraper, takein.from)
  /\ takein.pc \in {"hostname", "payload"} =>
       /\ Known(scraper, takein.header)
       /\ takein.header.from = Nobody => Ended
  /\ takein.pc \in {"magic", "header", "hostname"} => \A k \in Payload : takein.last[k] = Blank
  /\ takein.pc = "payload" =>
       \A k \in Payload : takein.last[k].from \in {takein.header.from, Nobody}

HeadersKnown ==
  \A b \in Buffers : \A i \in 1 .. Len(header_queue[b]) : Known(scraper, header_queue[b][i])

Stages(b)  == takein.pc = "payload" /\ takein.cur_copy = b
Pushing(b) == IF Stages(b) THEN takein.left ELSE None
Popping(b) == wpc = "recombine" /\ b = Frozen

(* takein counts what it has pushed of the last header.                    *)
InOrder(b, p) ==
  Stages(b) /\ Faithful(scraper, takein.header.from) =>
    \A k \in Payload : takein.last[k].no = Len(p[Len(header_queue[b])][k])

(* The payload of the header that was popped: what is in the group, and r. *)
InHand(b, r) ==
  IF Popping(b)
  THEN Whole(scraper, group.from, Joined(group.data, r)) /\ Announced(group.left, r, None)
  ELSE r = Empty

Laid(b) ==
  \E p, r, q :
    /\ Layout(scraper, header_queue[b], Pushing(b), p, q)
    /\ r \in Data
    /\ queue[b] = Joined(r, q)
    /\ InOrder(b, p)
    /\ InHand(b, r)

CollectedInv ==
  /\ wpc # "recombine" => group.data = Empty
  /\ \A i \in 1 .. Len(collected) : Whole(scraper, collected[i].from, collected[i].data)

IntactInv ==
  /\ ConnInv /\ HeadersKnown /\ CollectedInv
  /\ \A b \in Buffers : Laid(b)

LEMMA ScraperSettles ==
  ASSUME TypeOK, [Next]_vars
  PROVE  Settles(scraper, scraper')
<1>1. scraper \in [Scrapers -> Procs] /\ backlog \in Seq(Scrapers)
  BY DEF TypeOK
<1>2. CASE scraper' = scraper
  BY <1>2 DEF Settles
<1>3. ASSUME NEW s \in Scrapers, Connect(s) \/ Unreachable(s) \/ Sendout(s) \/ Killed(s)
      PROVE  Settles(scraper, scraper')
  <2>1. scraper[s].st \notin {"sent", "dead"} /\ \A t \in Scrapers \ {s} : scraper'[t] = scraper[t]
    BY <1>1, <1>3 DEF Connect, Unreachable, Sendout, Killed
  <2> QED BY <2>1 DEF Settles
<1>4. CASE Accept
  <2> DEFINE x == Head(backlog)
  <2>1. x \in Scrapers
    BY <1>1, <1>4, EmptySeq DEF Accept
  <2>2. scraper' = [scraper EXCEPT ![x].st = IF @ = "connected" THEN Greet ELSE @]
    BY <1>4 DEF Accept
  <2>3. \A t \in Scrapers \ {x} : scraper'[t] = scraper[t]
    BY <1>1, <2>2
  <2>4. scraper[x].st \in {"sent", "dead"} => scraper'[x] = scraper[x]
    <3> HIDE DEF x
    <3>1. scraper[x].st \in {"sent", "dead"} => scraper'[x] = [scraper[x] EXCEPT !.st = @]
      BY <1>1, <2>1, <2>2
    <3>2. scraper[x] \in Procs
      BY <1>1, <2>1
    <3> QED BY <3>1, <3>2 DEF Procs
  <2> HIDE DEF x
  <2> QED BY <2>3, <2>4 DEF Settles
<1>5. CASE ConnMgr /\ ~Accept
  BY <1>2, <1>5 DEF ConnMgr, RecvMagic, RecvHeader, RecvHostname, RecvPayload, CloseConn
<1>6. CASE Watcher \/ Exit \/ UNCHANGED vars
  BY <1>2, <1>6 DEF Watcher, Import, FreezeQueue, Analyze, RecombineHeader, RecombinePayload,
                    RecombineEnd, CollectEnd, Exit, vars
<1> QED BY <1>3, <1>4, <1>5, <1>6 DEF Next

(* takein stays as it is.                                                  *)
LEMMA ConnKept ==
  ASSUME TInv, ConnInv, Settles(scraper, scraper'), takein' = takein
  PROVE  ConnInv'
<1>1. \A s : Settled(scraper, s) => /\ Settled(scraper', s)
                                   /\ (Faithful(scraper, s) <=> Faithful(scraper', s))
  BY OwnSettled
<1>2. \A h : Known(scraper, h) => Known(scraper', h)
  BY <1>1 DEF Known
<1>3. takein.pc \in {"hostname", "payload"} /\ takein.header.from = Nobody => Ended'
  <2> SUFFICES ASSUME takein.pc \in {"hostname", "payload"}, takein.header.from = Nobody
               PROVE  Ended'
    OBVIOUS
  <2>1. Ended /\ takein.from \in Scrapers
    BY DEF ConnInv, TInv, PeerInv
  <2>2. scraper'[takein.from] = scraper[takein.from]
    BY <2>1 DEF Settles, Ended, Peer
  <2> QED BY <2>1, <2>2 DEF Ended, Peer
<1> QED BY <1>1, <1>2, <1>3 DEF ConnInv

LEMMA ConnConnMgr ==
  ASSUME TInv, LastInv, ConnInv, Settles(scraper, scraper'), ConnMgr
  PROVE  ConnInv'
<1>0. /\ takein \in Conns /\ scraper \in [Scrapers -> Procs]
      /\ takein.pc # "accept" => takein.from \in Scrapers
      /\ takein.header \in Headers
  BY DEF TInv, TypeOK, PeerInv, Conns
<1>1. CASE Accept
  <2>1. takein'.pc = "magic" /\ takein'.last = [k \in Payload |-> Blank]
    BY <1>0, <1>1 DEF Accept, Conns
  <2> QED BY <2>1 DEF ConnInv
<1>2. CASE CloseConn
  <2>1. takein'.pc = "accept"
    BY <1>0, <1>2 DEF CloseConn, Conns
  <2> QED BY <2>1 DEF ConnInv
<1>3. CASE RecvMagic
  <2>1. /\ takein'.pc \in {"accept", "header"} /\ takein'.last = takein.last
        /\ takein'.from = takein.from /\ scraper' = scraper /\ takein.pc = "magic"
    BY <1>0, <1>3 DEF RecvMagic, Conns
  <2>2. Settled(scraper, takein.from)
    BY <1>3 DEF RecvMagic, Arrived, Ended, Peer, Settled
  <2> QED BY <2>1, <2>2 DEF ConnInv
<1>4. CASE RecvHeader
  <2>1. scraper' = scraper /\ takein.pc = "header" /\ Settled(scraper, takein.from)
    BY <1>4 DEF RecvHeader, ConnInv
  <2>2. CASE takein' = [takein EXCEPT !.pc = "accept"]
    <3>1. takein'.pc = "accept"
      BY <1>0, <2>2 DEF Conns
    <3> QED BY <3>1 DEF ConnInv
  <2>3. CASE takein' = [takein EXCEPT !.pc = "hostname", !.got = @ + 1,
                                      !.header = HeaderOf(takein.from)]
    <3>1. /\ takein'.pc = "hostname" /\ takein'.from = takein.from
          /\ takein'.header = HeaderOf(takein.from) /\ takein'.last = takein.last
      BY <1>0, <2>3 DEF Conns
    <3>2. HeaderOf(takein.from).from = takein.from /\ takein.from \in Scrapers
          /\ takein.from # Nobody
      BY <1>0, <2>1, MessagingAssumption DEF HeaderOf
    <3>3. Known(scraper, takein'.header)
      BY <2>1, <3>1, <3>2 DEF Known
    <3> QED BY <2>1, <3>1, <3>2, <3>3 DEF ConnInv
  <2>4. ASSUME Ended, NEW c,
               takein' = [takein EXCEPT !.pc = "hostname",
                                        !.header = [from |-> Nobody, cnt |-> c]]
        PROVE  ConnInv'
    <3>1. /\ takein'.pc = "hostname" /\ takein'.from = takein.from /\ takein'.got = takein.got
          /\ takein'.header = [from |-> Nobody, cnt |-> c] /\ takein'.last = takein.last
      BY <1>0, <2>4 DEF Conns
    <3>2. Known(scraper, takein'.header)
      BY <3>1, MessagingAssumption DEF Known, Settled, Faithful
    <3>3. Ended'
      BY <2>1, <2>4, <3>1 DEF Ended, Peer
    <3> QED BY <2>1, <3>1, <3>2, <3>3 DEF ConnInv
  <2> QED BY <1>4, <2>2, <2>3, <2>4 DEF RecvHeader
<1>5. CASE RecvHostname
  <2> DEFINE h == IF Arrived THEN takein.header ELSE [takein.header EXCEPT !.from = Nobody]
  <2>1. /\ scraper' = scraper /\ takein.pc = "hostname" /\ (Arrived \/ Ended)
        /\ Settled(scraper, takein.from) /\ Known(scraper, takein.header)
        /\ takein.header.from = Nobody => Ended
        /\ \A k \in Payload : takein.last[k] = Blank
    BY <1>5 DEF RecvHostname, ConnInv
  <2>2. takein' = [takein EXCEPT !.pc = "payload", !.header = h, !.left = h.cnt,
                                 !.got = IF Arrived THEN @ + 1 ELSE @]
    BY <1>5 DEF RecvHostname
  <2>3. Known(scraper, h) /\ (h.from = Nobody => Ended /\ ~Arrived)
    <3>1. CASE Arrived
      <4>1. ~Ended
        BY <1>0, <3>1, <2>1 DEF Arrived, Ended, Peer, Procs, Conns
      <4> QED BY <2>1, <3>1, <4>1
    <3>2. CASE ~Arrived
      <4>1. h.from = Nobody
        BY <1>0, <3>2 DEF Headers
      <4>2. Known(scraper, h)
        BY <4>1, MessagingAssumption DEF Known, Settled, Faithful
      <4> QED BY <2>1, <3>2, <4>2
    <3> QED BY <3>1, <3>2
  <2> HIDE DEF h
  <2>4. /\ takein'.pc = "payload" /\ takein'.header = h /\ takein'.last = takein.last
        /\ takein'.from = takein.from /\ (~Arrived => takein'.got = takein.got)
    BY <1>0, <2>2 DEF Conns
  <2>5. h.from = Nobody => Ended'
    BY <2>1, <2>3, <2>4 DEF Ended, Peer
  <2> QED BY <2>1, <2>3, <2>4, <2>5 DEF ConnInv, Blank
<1>6. ASSUME NEW k \in Payload, RecvPayload(k) PROVE ConnInv'
  <2>1. /\ scraper' = scraper /\ takein.pc = "payload" /\ (Arrived \/ Ended)
        /\ Settled(scraper, takein.from) /\ Known(scraper, takein.header)
        /\ takein.header.from = Nobody => Ended
        /\ takein.header.from \in {takein.from, Nobody}
        /\ \A j \in Payload : takein.last[j].from \in {takein.header.from, Nobody}
    BY <1>6 DEF RecvPayload, ConnInv, LastInv
  <2>2. PICK e \in Received(k) :
          takein' = [takein EXCEPT !.left = Less(@, k, e), !.last[k] = e,
                                   !.got = IF Arrived THEN @ + 1 ELSE @]
    BY <1>6 DEF RecvPayload
  <2>3. /\ takein'.pc = "payload" /\ takein'.header = takein.header /\ takein'.from = takein.from
        /\ (~Arrived => takein'.got = takein.got) /\ takein'.last = [takein.last EXCEPT ![k] = e]
        /\ takein.last \in [Payload -> Elements]
    BY <1>0, <2>1, <2>2 DEF Conns
  <2>4. ~(Arrived /\ Ended)
    BY <1>0, <2>1 DEF Arrived, Ended, Peer, Procs, Conns
  <2>5. e.from \in {takein.header.from, Nobody}
    <3>1. CASE Arrived
      <4>1. e.from = takein.from
        BY <3>1 DEF Received, Sent
      <4> QED BY <2>1, <2>4, <3>1, <4>1
    <3>2. CASE ~Arrived
      BY <2>1, <3>2 DEF Received, Blank
    <3> QED BY <3>1, <3>2
  <2>6. \A j \in Payload : takein'.last[j].from \in {takein'.header.from, Nobody}
    BY <2>1, <2>3, <2>5
  <2>7. takein.header.from = Nobody => Ended'
    BY <2>1, <2>3, <2>4 DEF Ended, Peer
  <2> QED BY <2>1, <2>3, <2>6, <2>7 DEF ConnInv
<1> QED BY <1>1, <1>2, <1>3, <1>4, <1>5, <1>6 DEF ConnMgr

LEMMA ConnStep ==
  ASSUME TInv, LastInv, ConnInv, Settles(scraper, scraper'), [Next]_vars
  PROVE  ConnInv'
<1>1. CASE ConnMgr
  BY <1>1, ConnConnMgr
<1>2. CASE takein' = takein
  BY <1>2, ConnKept
<1>3. CASE Watcher \/ Exit \/ UNCHANGED vars
  BY <1>2, <1>3 DEF Watcher, Import, FreezeQueue, Analyze, RecombineHeader, RecombinePayload,
                    RecombineEnd, CollectEnd, Exit, vars
<1>4. ASSUME NEW s \in Scrapers, Connect(s) \/ Unreachable(s) \/ Sendout(s) \/ Killed(s)
      PROVE  ConnInv'
  BY <1>2, <1>4 DEF Connect, Unreachable, Sendout, Killed
<1> QED BY <1>1, <1>3, <1>4 DEF Next

(* The header takein pushes is known.                                      *)
LEMMA HostnameHeader ==
  ASSUME TInv, ConnInv, RecvHostname
  PROVE  \E h \in Headers :
           /\ Known(scraper, h) /\ h.cnt = takein.header.cnt
           /\ header_queue' = [header_queue EXCEPT ![takein.cur_copy] = Append(@, h)]
           /\ takein'.pc = "payload" /\ takein'.header = h /\ takein'.left = h.cnt
           /\ takein'.last = takein.last /\ takein'.cur_copy = takein.cur_copy
<1> DEFINE h == IF Arrived THEN takein.header ELSE [takein.header EXCEPT !.from = Nobody]
<1>1. takein \in Conns /\ takein.header \in Headers /\ Known(scraper, takein.header)
  BY DEF TInv, TypeOK, Conns, ConnInv, RecvHostname
<1>2. h \in Headers /\ Known(scraper, h) /\ h.cnt = takein.header.cnt
  <2>1. CASE Arrived
    BY <1>1, <2>1
  <2>2. CASE ~Arrived
    <3>1. h.from = Nobody /\ h.cnt = takein.header.cnt /\ h \in Headers
      BY <1>1, <2>2 DEF Headers, Senders
    <3>2. Known(scraper, h)
      BY <3>1, MessagingAssumption DEF Known, Settled, Faithful
    <3> QED BY <3>1, <3>2
  <2> QED BY <2>1, <2>2
<1>3. /\ header_queue' = [header_queue EXCEPT ![takein.cur_copy] = Append(@, h)]
      /\ takein' = [takein EXCEPT !.pc = "payload", !.header = h, !.left = h.cnt,
                                  !.got = IF Arrived THEN @ + 1 ELSE @]
  BY DEF RecvHostname
<1> HIDE DEF h
<1>4. /\ takein'.pc = "payload" /\ takein'.header = h /\ takein'.left = h.cnt
      /\ takein'.last = takein.last /\ takein'.cur_copy = takein.cur_copy
  BY <1>1, <1>3 DEF Conns
<1> QED BY <1>2, <1>3, <1>4

LEMMA KnownStep ==
  ASSUME TInv, ConnInv, HeadersKnown, [Next]_vars
  PROVE  HeadersKnown'
<1>0. /\ header_queue \in [Buffers -> Seq(Headers)] /\ takein.cur_copy \in Buffers
      /\ Settles(scraper, scraper') /\ Frozen \in Buffers
  BY ScraperSettles DEF TInv, TypeOK, Conns, Frozen, Buffers
<1>1. \A h : Known(scraper, h) => Known(scraper', h)
  BY <1>0, OwnSettled DEF Known
<1>2. CASE header_queue' = header_queue
  BY <1>1, <1>2 DEF HeadersKnown
<1>3. ASSUME NEW s \in Scrapers, Connect(s) \/ Unreachable(s) \/ Sendout(s) \/ Killed(s)
      PROVE  HeadersKnown'
  BY <1>2, <1>3 DEF Connect, Unreachable, Sendout, Killed, queues
<1>4. CASE RecvHostname
  <2>1. PICK h \in Headers :
          /\ Known(scraper, h)
          /\ header_queue' = [header_queue EXCEPT ![takein.cur_copy] = Append(@, h)]
    BY <1>4, HostnameHeader
  <2> SUFFICES ASSUME NEW b \in Buffers, NEW i \in 1 .. Len(header_queue'[b])
               PROVE  Known(scraper', header_queue'[b][i])
    BY DEF HeadersKnown
  <2> DEFINE q == header_queue[b]
  <2>2. q \in Seq(Headers) /\ \A j \in 1 .. Len(q) : Known(scraper, q[j])
    BY <1>0 DEF HeadersKnown
  <2>3. header_queue'[b] = q \/ header_queue'[b] = Append(q, h)
    BY <1>0, <2>1
  <2> HIDE DEF q
  <2>4. CASE header_queue'[b] = q
    BY <1>1, <2>2, <2>4
  <2>5. CASE header_queue'[b] = Append(q, h)
    <3>1. /\ Len(Append(q, h)) = Len(q) + 1 /\ Append(q, h)[Len(q) + 1] = h /\ Len(q) \in Nat
          /\ \A j \in 1 .. Len(q) : Append(q, h)[j] = q[j]
      BY <2>2, AppendProperties, LenProperties
    <3>2. i = Len(q) + 1 \/ i \in 1 .. Len(q)
      BY <2>5, <3>1
    <3> QED BY <1>1, <2>1, <2>2, <2>5, <3>1, <3>2
  <2> QED BY <2>3, <2>4, <2>5
<1>5. CASE RecombineHeader
  <2>1. header_queue' = [header_queue EXCEPT ![Frozen] = Tail(@)] /\ header_queue[Frozen] # <<>>
    BY <1>5 DEF RecombineHeader
  <2> SUFFICES ASSUME NEW b \in Buffers, NEW i \in 1 .. Len(header_queue'[b])
               PROVE  Known(scraper', header_queue'[b][i])
    BY DEF HeadersKnown
  <2> DEFINE q == header_queue[b]
  <2>2. q \in Seq(Headers) /\ \A j \in 1 .. Len(q) : Known(scraper, q[j])
    BY <1>0 DEF HeadersKnown
  <2>3. header_queue'[b] = q \/ (header_queue'[b] = Tail(q) /\ q # <<>>)
    BY <1>0, <2>1
  <2> HIDE DEF q
  <2>4. CASE header_queue'[b] = q
    BY <1>1, <2>2, <2>4
  <2>5. CASE header_queue'[b] = Tail(q) /\ q # <<>>
    <3>1. Len(Tail(q)) = Len(q) - 1 /\ Len(q) \in Nat
          /\ \A j \in 1 .. Len(Tail(q)) : Tail(q)[j] = q[j + 1]
      BY <2>2, <2>5, HeadTailProperties, LenProperties
    <3>2. i + 1 \in 1 .. Len(q) /\ header_queue'[b][i] = q[i + 1]
      BY <2>5, <3>1
    <3> QED BY <1>1, <2>2, <3>2
  <2> QED BY <2>3, <2>4, <2>5
<1>6. CASE ConnMgr /\ ~RecvHostname
  BY <1>2, <1>6 DEF ConnMgr, Accept, RecvMagic, RecvHeader, RecvPayload, CloseConn, queues
<1>7. CASE (Watcher /\ ~RecombineHeader) \/ Exit \/ UNCHANGED vars
  BY <1>2, <1>7 DEF Watcher, Import, FreezeQueue, Analyze, RecombinePayload,
                    RecombineEnd, CollectEnd, Exit, vars, queues
<1> QED BY <1>3, <1>4, <1>5, <1>6, <1>7 DEF Next

(* Nothing happens to the buffer.                                          *)
LEMMA LaidKept ==
  ASSUME NEW b \in Buffers, Laid(b), Settles(scraper, scraper'),
         header_queue'[b] = header_queue[b], queue'[b] = queue[b],
         Pushing(b)' = Pushing(b),
         Stages(b)' => takein' = takein /\ Settled(scraper, takein.header.from),
         Popping(b)' <=> Popping(b), Popping(b) => group' = group
  PROVE  Laid(b)'
<1>1. PICK p, r, q :
        /\ Layout(scraper, header_queue[b], Pushing(b), p, q)
        /\ r \in Data /\ queue[b] = Joined(r, q) /\ InOrder(b, p) /\ InHand(b, r)
  BY DEF Laid
<1>2. Layout(scraper', header_queue'[b], Pushing(b)', p, q)
  BY <1>1, LayoutSettled
<1>3. InOrder(b, p)'
  <2> SUFFICES ASSUME Stages(b)', Faithful(scraper', takein'.header.from), NEW k \in Payload
               PROVE  takein'.last[k].no = Len(p[Len(header_queue'[b])][k])
    BY DEF InOrder
  <2>1. takein' = takein /\ Settled(scraper, takein.header.from) /\ Stages(b)
    BY DEF Stages
  <2>2. Faithful(scraper, takein.header.from)
    BY <2>1, OwnSettled
  <2> QED BY <1>1, <2>1, <2>2 DEF InOrder
<1>4. InHand(b, r)'
  <2>1. CASE Popping(b)
    <3>1. Whole(scraper, group.from, Joined(group.data, r)) /\ Announced(group.left, r, None)
      BY <1>1, <2>1 DEF InHand
    <3>2. Whole(scraper', group.from, Joined(group.data, r))
      BY <3>1, OwnSettled
    <3> QED BY <2>1, <3>1, <3>2 DEF InHand
  <2>2. CASE ~Popping(b)
    BY <1>1, <2>2 DEF InHand
  <2> QED BY <2>1, <2>2
<1>5. r \in Data /\ queue'[b] = Joined(r, q)
  BY <1>1
<1> QED BY <1>2, <1>3, <1>4, <1>5 DEF Laid

(* takein pushes a header into the buffer.                                 *)
LEMMA LaidHostname ==
  ASSUME TInv, NEW b \in Buffers, Laid(b), Settles(scraper, scraper'), ConnInv, RecvHostname,
         b = takein.cur_copy
  PROVE  Laid(b)'
<1>1. PICK h \in Headers :
        /\ Known(scraper, h) /\ h.cnt = takein.header.cnt
        /\ header_queue' = [header_queue EXCEPT ![takein.cur_copy] = Append(@, h)]
        /\ takein'.pc = "payload" /\ takein'.header = h /\ takein'.left = h.cnt
        /\ takein'.last = takein.last /\ takein'.cur_copy = takein.cur_copy
  BY HostnameHeader
<1>2. /\ takein.pc = "hostname" /\ scraper' = scraper /\ queue' = queue /\ wpc' = wpc
      /\ cur' = cur /\ group' = group /\ header_queue[b] \in Seq(Headers)
      /\ header_queue \in [Buffers -> Seq(Headers)]
      /\ \A k \in Payload : takein.last[k] = Blank
  BY DEF RecvHostname, flip, watch, TInv, TypeOK, ConnInv
<1> DEFINE hq == header_queue[b]
<1>3. header_queue'[b] = Append(hq, h)
  BY <1>1, <1>2
<1>4. PICK p, r, q :
        /\ Layout(scraper, hq, Pushing(b), p, q)
        /\ r \in Data /\ queue[b] = Joined(r, q) /\ InHand(b, r)
  BY DEF Laid
<1>5. Layout(scraper, hq, None, p, q)
  BY <1>2, <1>4 DEF Pushing, Stages
<1>6. Settled(scraper, h.from) /\ hq \in Seq(Headers)
  BY <1>1, <1>2 DEF Known
<1> HIDE DEF hq
<1>7. PICK p2 : /\ Layout(scraper, Append(hq, h), h.cnt, p2, q)
                /\ p2[Len(hq) + 1] = Empty
  BY <1>5, <1>6, LayoutNew
<1>8. Layout(scraper', header_queue'[b], Pushing(b)', p2, q)
  BY <1>1, <1>2, <1>3, <1>7 DEF Pushing, Stages
<1>9. InOrder(b, p2)'
  <2>1. Len(header_queue'[b]) = Len(hq) + 1
    BY <1>3, <1>6, AppendProperties
  <2>2. \A k \in Payload : takein'.last[k].no = Len(p2[Len(hq) + 1][k])
    BY <1>1, <1>2, <1>7 DEF Blank, Empty
  <2> QED BY <2>1, <2>2 DEF InOrder
<1>10. InHand(b, r)'
  BY <1>2, <1>4 DEF InHand, Popping, Frozen
<1>11. r \in Data /\ queue'[b] = Joined(r, q)
  BY <1>2, <1>4
<1> QED BY <1>8, <1>9, <1>10, <1>11 DEF Laid

(* takein pushes an element into the buffer.                               *)
LEMMA LaidPayload ==
  ASSUME TInv, HeaderInv, LastInv, NEW b \in Buffers, Laid(b), ConnInv, NEW k \in Payload,
         RecvPayload(k), b = takein.cur_copy
  PROVE  Laid(b)'
<1> DEFINE hq == header_queue[b]
           n == Len(hq)
           s == takein.header.from
<1>1. PICK e \in Received(k) :
        /\ queue' = [queue EXCEPT ![takein.cur_copy][k] = Append(@, e)]
        /\ takein' = [takein EXCEPT !.left = Less(@, k, e), !.last[k] = e,
                                    !.got = IF Arrived THEN @ + 1 ELSE @]
  BY DEF RecvPayload
<1>2. /\ takein.pc = "payload" /\ scraper' = scraper /\ header_queue' = header_queue
      /\ wpc' = wpc /\ cur' = cur /\ group' = group /\ Due(takein.left, k)
      /\ queue \in [Buffers -> Data] /\ hq \in Seq(Headers) /\ takein \in Conns
      /\ takein.left \in Counts /\ takein.last \in [Payload -> Elements]
      /\ (Arrived \/ Ended)
  BY DEF RecvPayload, flip, watch, TInv, TypeOK, Conns
<1>3. e \in Elements /\ (k \in {"usage", "cpu"} => e.gpus = 0)
  <2>1. e \in Elements
    BY <1>2, ReceivedType
  <2>2. k \in {"usage", "cpu"} => e.gpus = 0
    BY <1>2, ReceivedPlain DEF Payload
  <2> QED BY <2>1, <2>2
<1>4. hq # <<>> /\ hq[n] = takein.header /\ s \in {takein.from, Nobody}
  BY <1>2 DEF LastInv
<1>5. PICK p, r, q :
        /\ Layout(scraper, hq, takein.left, p, q)
        /\ r \in Data /\ queue[b] = Joined(r, q) /\ InOrder(b, p) /\ InHand(b, r)
  BY <1>2 DEF Laid, Pushing, Stages
<1>6. q \in Data /\ n \in 1 .. n /\ p[n] \in Data
  <2>1. n \in Nat \ {0}
    BY <1>2, <1>4, EmptySeq
  <2> QED BY <1>5, <2>1 DEF Layout
<1>7. /\ takein'.pc = "payload" /\ takein'.cur_copy = b /\ takein'.header = takein.header
      /\ takein'.left = Less(takein.left, k, e)
      /\ takein'.last[k] = e /\ \A j \in Payload \ {k} : takein'.last[j] = takein.last[j]
  BY <1>1, <1>2 DEF Conns
<1>8. e.from \in {s, Nobody}
  <2>1. CASE Arrived
    <3>1. e.from = takein.from
      BY <2>1 DEF Received, Sent
    <3>2. Peer.cut \in Nat /\ takein.got \in Nat
      BY <1>2 DEF TInv, TypeOK, PeerInv, Conns, Procs, Peer
    <3>3. s = Nobody => Ended
      BY <1>2 DEF ConnInv
    <3>4. s # Nobody
      BY <2>1, <3>2, <3>3 DEF Arrived, Ended
    <3> QED BY <1>4, <3>1, <3>4
  <2>2. CASE ~Arrived
    BY <1>2, <2>2 DEF Received, Blank, ConnInv
  <2> QED BY <2>1, <2>2
<1>9. Faithful(scraper, s) =>
        /\ e = Sent(s, k, Len(p[n][k]) + 1)
        /\ \A j \in Payload : takein.last[j].no = Len(p[n][j])
  <2> SUFFICES ASSUME Faithful(scraper, s)
               PROVE  /\ e = Sent(s, k, Len(p[n][k]) + 1)
                      /\ \A j \in Payload : takein.last[j].no = Len(p[n][j])
    OBVIOUS
  <2>1. \A j \in Payload : takein.last[j].no = Len(p[n][j])
    BY <1>2, <1>5 DEF InOrder, Stages
  <2>2. s = takein.from /\ Arrived
    BY <1>4, MessagingAssumption DEF Faithful, Arrived, Peer
  <2>3. e = Sent(takein.from, k, takein.last[k].no + 1)
    BY <2>2 DEF Received
  <2> QED BY <2>1, <2>2, <2>3
<1> HIDE DEF hq
<1>10. PICK p2 : /\ Layout(scraper, hq, Less(takein.left, k, e), p2, Push(q, k, e))
                 /\ p2[n] = Push(p[n], k, e)
  <2> DEFINE left == takein.left
             x == hq[n]
  <2>1. x.from = s /\ left \in Counts /\ hq \in Seq(Headers)
    BY <1>2, <1>4 DEF hq
  <2>2. Layout(scraper, hq, left, p, q) /\ Due(left, k)
    BY <1>2, <1>5
  <2>3. e.from \in {x.from, Nobody}
        /\ (Faithful(scraper, x.from) => e = Sent(x.from, k, Len(p[n][k]) + 1))
    BY <1>8, <1>9, <2>1
  <2> HIDE DEF left, s
  <2>4. \E p2 : Layout(scraper, hq, Less(left, k, e), p2, Push(q, k, e)) /\ p2[n] = Push(p[n], k, e)
    BY <1>3, <1>4, <2>1, <2>2, <2>3, LayoutPush
  <2> QED BY <2>4 DEF left
<1>11. Layout(scraper', header_queue'[b], Pushing(b)', p2, Push(q, k, e))
  BY <1>2, <1>7, <1>10 DEF Pushing, Stages, hq
<1>12. InOrder(b, p2)'
  <2> SUFFICES ASSUME Faithful(scraper, s), NEW j \in Payload
               PROVE  takein'.last[j].no = Len(p2[n][j])
    BY <1>2, <1>7 DEF InOrder, hq
  <2>1. CASE j = k
    <3>1. e.no = Len(p[n][k]) + 1
      BY <1>9 DEF Sent
    <3>2. p2[n][k] = Append(p[n][k], e) /\ p[n][k] \in Seq(Elements)
      <4> DEFINE d == p[n]
      <4>1. d \in Data /\ p2[n] = Push(d, k, e)
        BY <1>6, <1>10
      <4> HIDE DEF d
      <4>2. Push(d, k, e)[k] = Append(d[k], e) /\ d[k] \in Seq(Elements)
        BY <1>3, <4>1, PushPopTypes DEF Data
      <4> QED BY <4>1, <4>2 DEF d
    <3>3. Len(p2[n][k]) = Len(p[n][k]) + 1
      BY <1>3, <3>2, AppendProperties
    <3> QED BY <1>7, <2>1, <3>1, <3>3
  <2>2. CASE j # k
    <3>1. p2[n][j] = p[n][j]
      BY <1>3, <1>6, <1>10, <2>2, PushPopTypes
    <3> QED BY <1>7, <1>9, <2>2, <3>1
  <2> QED BY <2>1, <2>2
<1>13. InHand(b, r)'
  BY <1>2, <1>5 DEF InHand, Popping, Frozen
<1>14. queue'[b] = Joined(r, Push(q, k, e))
  <2>1. queue'[b] = Push(queue[b], k, e)
    BY <1>1, <1>2 DEF Push
  <2>2. Joined(r, Push(q, k, e)) = Push(Joined(r, q), k, e)
    BY <1>3, <1>5, <1>6, JoinedPush
  <2> QED BY <1>5, <2>1, <2>2
<1> QED BY <1>5, <1>11, <1>12, <1>13, <1>14 DEF Laid

(* recombine_queue pops a header: its payload is the group's from now on.  *)
LEMMA LaidHeader ==
  ASSUME TypeOK, DrainExclusive, HeadersKnown, CollectedInv, RecombineHeader,
         NEW b \in Buffers, b = Frozen, Laid(b)
  PROVE  Laid(b)'
<1> DEFINE hq == header_queue[b]
           x == Head(hq)
<1>1. /\ wpc = "collect" /\ in_flip /\ hq # <<>> /\ wpc' = "recombine" /\ cur' = cur
      /\ takein' = takein /\ scraper' = scraper /\ queue' = queue
      /\ header_queue' = [header_queue EXCEPT ![b] = Tail(@)]
      /\ group' = [from |-> x.from, left |-> x.cnt,
                   data |-> [group.data EXCEPT !["result"] = <<>>, !["usage"] = <<>>]]
  BY DEF RecombineHeader, NextHeader, DueAfter, flip
<1>2. /\ b \in Buffers /\ hq \in Seq(Headers) /\ header_queue'[b] = Tail(hq) /\ Frozen' = b
      /\ header_queue \in [Buffers -> Seq(Headers)]
  BY <1>1 DEF TypeOK, Frozen, Buffers
<1>3. ~Stages(b) /\ Pushing(b) = None /\ Pushing(b)' = None
  BY <1>1 DEF DrainExclusive, Straddling, Stages, Pushing
<1>4. group.data = Empty
  BY <1>1 DEF CollectedInv
<1>5. group'.data = Empty /\ group'.from = x.from /\ group'.left = x.cnt
  BY <1>1, <1>4 DEF Empty
<1>6. PICK p, r, q :
        /\ Layout(scraper, hq, Pushing(b), p, q)
        /\ r \in Data /\ queue[b] = Joined(r, q) /\ InHand(b, r)
  BY DEF Laid
<1>7. r = Empty /\ q \in Data
  BY <1>1, <1>6 DEF InHand, Popping, Layout
<1>8. queue[b] = q
  BY <1>6, <1>7, JoinedTypes
<1>9. hq[1] = x /\ 1 \in 1 .. Len(hq)
  BY <1>1, <1>2, EmptySeq
<1>10. Known(scraper, x)
  BY <1>2, <1>9 DEF HeadersKnown
<1> HIDE DEF hq, x
<1>11. Layout(scraper, hq, None, p, q)
  BY <1>3, <1>6
<1>12. /\ p[1] \in Data /\ Own(scraper, Head(hq).from, p[1]) /\ Announced(Head(hq).cnt, p[1], None)
       /\ \E p2, q2 : /\ Layout(scraper, Tail(hq), None, p2, q2) /\ q2 \in Data
                      /\ q = Joined(p[1], q2)
  <2>1. hq # <<>> /\ hq \in Seq(Headers)
    BY <1>1, <1>2
  <2> QED BY <1>11, <2>1, LayoutPop
<1>13. PICK p2, q2 : Layout(scraper, Tail(hq), None, p2, q2) /\ q2 \in Data /\ q = Joined(p[1], q2)
  BY <1>12
<1> DEFINE r2 == p[1]
<1>14. r2 \in Data /\ Own(scraper, x.from, r2) /\ Announced(x.cnt, r2, None)
  BY <1>12 DEF x
<1> HIDE DEF r2
<1>15. Whole(scraper, x.from, r2)
  BY <1>10, <1>14 DEF Whole, Known
<1>16. Joined(Empty, r2) = r2
  BY <1>14, JoinedTypes
<1>17. InHand(b, r2)'
  <2>1. Popping(b)'
    BY <1>1, <1>2 DEF Popping
  <2>2. Whole(scraper', group'.from, Joined(group'.data, r2)) /\ Announced(group'.left, r2, None)
    BY <1>1, <1>5, <1>14, <1>15, <1>16
  <2> QED BY <1>2, <2>1, <2>2 DEF InHand
<1>18. InOrder(b, p2)'
  <2>1. ~Stages(b)'
    BY <1>1, <1>2, <1>3 DEF Stages
  <2> QED BY <2>1 DEF InOrder
<1>19. Layout(scraper', header_queue'[b], Pushing(b)', p2, q2)
  BY <1>1, <1>2, <1>3, <1>13
<1>20. queue'[b] = Joined(r2, q2)
  BY <1>1, <1>8, <1>13 DEF r2
<1> QED BY <1>14, <1>17, <1>18, <1>19, <1>20 DEF Laid

(* recombine_queue pops an element into the group.                         *)
LEMMA LaidElement ==
  ASSUME TypeOK, DrainExclusive, FlipInv, HeaderInv, NoUnderrun',
         NEW k \in Payload, RecombinePayload(k), NEW b \in Buffers, b = Frozen, Laid(b)
  PROVE  Laid(b)'
<1> DEFINE e == Head(queue[b][k])
<1>1. /\ wpc = "recombine" /\ Due(group.left, k) /\ wpc' = wpc /\ cur' = cur
      /\ queue[b][k] # <<>>
      /\ takein' = takein /\ scraper' = scraper /\ header_queue' = header_queue
      /\ queue' = [queue EXCEPT ![b][k] = Tail(@)]
      /\ group' = [group EXCEPT !.data[k] = Append(@, e), !.left = Less(@, k, e)]
  BY DEF RecombinePayload, flip, NoUnderrun
<1>2. /\ b \in Buffers /\ Frozen' = b /\ queue \in [Buffers -> Data] /\ group \in Groups
      /\ group.data \in Data /\ group.left \in Counts
  BY <1>1 DEF TypeOK, Frozen, Buffers, Groups
<1>3. ~Stages(b) /\ ~Stages(b)' /\ Pushing(b)' = Pushing(b)
  <2>1. ~Stages(b)
    BY <1>1 DEF DrainExclusive, FlipInv, Straddling, Stages
  <2> QED BY <1>1, <1>2, <2>1 DEF Pushing, Stages
<1>4. PICK p, r, q :
        /\ Layout(scraper, header_queue[b], Pushing(b), p, q)
        /\ r \in Data /\ queue[b] = Joined(r, q) /\ InHand(b, r)
  BY DEF Laid
<1>5. q \in Data
  BY <1>4 DEF Layout
<1>6. Popping(b) /\ Whole(scraper, group.from, Joined(group.data, r))
      /\ Announced(group.left, r, None)
  BY <1>1, <1>4 DEF InHand, Popping
<1>7. r[k] # <<>>
  BY <1>1, <1>2, <1>4, <1>6, AnnouncedDue
<1>8. /\ Joined(Pop(r, k), q) = Pop(queue[b], k)
      /\ e = Head(r[k])
  BY <1>4, <1>5, <1>7, JoinedPop
<1>9. k \in {"usage", "cpu"} => e.gpus = 0
  <2> SUFFICES ASSUME k \in {"usage", "cpu"} PROVE e.gpus = 0
    OBVIOUS
  <2>1. queue[b][k] \in Seq(Elements)
    BY <1>2 DEF Data
  <2>2. queue[b][k][1] = e /\ 1 \in 1 .. Len(queue[b][k])
    BY <1>1, <2>1, EmptySeq
  <2>3. k \in Payload \ {"result", "gpu"}
    BY DEF Payload
  <2> QED BY <1>2, <2>2, <2>3 DEF HeaderInv
<1>10. /\ group'.data = Push(group.data, k, e) /\ group'.left = Less(group.left, k, e)
       /\ group'.from = group.from
  BY <1>1, <1>2 DEF Groups, Push
<1>11. queue'[b] = Joined(Pop(r, k), q)
  <2>1. queue'[b] = Pop(queue[b], k)
    BY <1>1, <1>2 DEF Pop
  <2> QED BY <1>8, <2>1
<1> HIDE DEF e
<1> DEFINE r2 == Pop(r, k)
           d == group.data
           d2 == Push(d, k, e)
           left == group.left
<1>12. e \in Elements /\ r2 \in Data
  <2>1. r[k] \in Seq(Elements)
    BY <1>4 DEF Data
  <2>2. Head(r[k]) \in Elements
    BY <1>7, <2>1, HeadTailProperties
  <2>3. r2 \in Data
    BY <1>4, <1>7, <2>2, PushPopTypes
  <2> QED BY <1>8, <2>2, <2>3
<1>13. Joined(d2, r2) = Joined(d, r)
  BY <1>2, <1>4, <1>7, <1>8, JoinedMove
<1>14. Announced(Less(left, k, e), r2, None)
  <2>1. Announced(left, r, None) /\ Due(left, k) /\ left \in Counts /\ r \in Data
    BY <1>1, <1>2, <1>4, <1>6
  <2>2. k \in {"usage", "cpu"} => Head(r[k]).gpus = 0
    BY <1>8, <1>9
  <2> HIDE DEF left
  <2>3. Announced(Less(left, k, Head(r[k])), Pop(r, k), None)
    BY <1>7, <2>1, <2>2, AnnouncedPop
  <2> QED BY <1>8, <2>3
<1>15. InHand(b, r2)'
  <2>1. Popping(b)'
    BY <1>1, <1>2, <1>6 DEF Popping
  <2>2. Whole(scraper', group'.from, Joined(group'.data, r2))
    BY <1>1, <1>6, <1>10, <1>13
  <2>3. Announced(group'.left, r2, None)
    BY <1>10, <1>14
  <2> HIDE DEF r2
  <2> QED BY <2>1, <2>2, <2>3 DEF InHand
<1>16. InOrder(b, p)'
  BY <1>3 DEF InOrder
<1>17. Layout(scraper', header_queue'[b], Pushing(b)', p, q)
  BY <1>1, <1>3, <1>4
<1>18. queue'[b] = Joined(r2, q)
  BY <1>11
<1> HIDE DEF r2
<1> QED BY <1>12, <1>15, <1>16, <1>17, <1>18 DEF Laid

(* The group is complete: nothing is left of its payload.                  *)
LEMMA LaidEnd ==
  ASSUME TypeOK, NEW b \in Buffers, b = Frozen, Laid(b), RecombineEnd
  PROVE  Laid(b)' /\ Whole(scraper, group.from, group.data)
<1>1. /\ wpc = "recombine" /\ group.left = None /\ wpc' = "collect" /\ cur' = cur
      /\ takein' = takein /\ scraper' = scraper /\ header_queue' = header_queue /\ queue' = queue
  BY DEF RecombineEnd, GiveUpFlip, flip, queues
<1>2. PICK p, r, q :
        /\ Layout(scraper, header_queue[b], Pushing(b), p, q)
        /\ r \in Data /\ queue[b] = Joined(r, q) /\ InOrder(b, p) /\ InHand(b, r)
  BY DEF Laid
<1>3. Whole(scraper, group.from, Joined(group.data, r)) /\ Announced(None, r, None)
  BY <1>1, <1>2 DEF InHand, Popping
<1>4. r = Empty
  BY <1>2, <1>3, AnnouncedAll
<1>5. Joined(group.data, r) = group.data
  <2>1. group.data \in Data
    BY DEF TypeOK, Groups
  <2> QED BY <1>4, <2>1, JoinedTypes
<1>6. InHand(b, r)'
  BY <1>1, <1>4 DEF InHand, Popping
<1>7. InOrder(b, p)' /\ Pushing(b)' = Pushing(b)
  BY <1>1, <1>2 DEF InOrder, Pushing, Stages
<1>8. Layout(scraper', header_queue'[b], Pushing(b)', p, q) /\ queue'[b] = Joined(r, q)
  BY <1>1, <1>2, <1>7
<1>9. Laid(b)'
  BY <1>2, <1>6, <1>7, <1>8 DEF Laid
<1> QED BY <1>3, <1>5, <1>9

LEMMA LaidConnMgr ==
  ASSUME TInv, HeaderInv, LastInv, ConnInv, Settles(scraper, scraper'), ConnMgr,
         NEW b \in Buffers, Laid(b)
  PROVE  Laid(b)'
<1>0. /\ takein \in Conns /\ header_queue \in [Buffers -> Seq(Headers)]
      /\ queue \in [Buffers -> Data] /\ takein.cur_copy \in Buffers
  BY DEF TInv, TypeOK, Conns
<1>1. cur' = cur /\ wpc' = wpc /\ group' = group
  BY ConnMgrKeeps DEF flip, watch
<1>2. Popping(b)' <=> Popping(b)
  BY <1>1 DEF Popping, Frozen
<1>3. CASE Accept \/ RecvMagic \/ RecvHeader \/ CloseConn
  <2>1. /\ header_queue' = header_queue /\ queue' = queue /\ takein'.pc # "payload"
        /\ takein.pc = "payload" => takein.left = None
    BY <1>0, <1>3 DEF Accept, RecvMagic, RecvHeader, CloseConn, StagedAll, queues, Conns
  <2>2. Pushing(b)' = Pushing(b) /\ ~Stages(b)'
    BY <2>1 DEF Pushing, Stages
  <2> QED BY <1>1, <1>2, <2>1, <2>2, LaidKept
<1>4. ASSUME takein.cur_copy # b, takein'.cur_copy = takein.cur_copy,
             header_queue'[b] = header_queue[b], queue'[b] = queue[b]
      PROVE  Laid(b)'
  <2>1. ~Stages(b) /\ ~Stages(b)' /\ Pushing(b)' = Pushing(b)
    BY <1>4 DEF Stages, Pushing
  <2> QED BY <1>1, <1>2, <1>4, <2>1, LaidKept
<1>5. CASE RecvHostname
  <2>1. CASE takein.cur_copy = b
    BY <1>5, <2>1, LaidHostname
  <2>2. CASE takein.cur_copy # b
    <3>1. takein'.cur_copy = takein.cur_copy /\ header_queue'[b] = header_queue[b]
          /\ queue'[b] = queue[b]
      BY <1>0, <1>5, <2>2, TakeinStays, PushedElsewhere DEF RecvHostname, TInv, Accept, ConnMgr
    <3> QED BY <1>4, <2>2, <3>1
  <2> QED BY <2>1, <2>2
<1>6. ASSUME NEW k \in Payload, RecvPayload(k) PROVE Laid(b)'
  <2>1. CASE takein.cur_copy = b
    BY <1>6, <2>1, LaidPayload
  <2>2. CASE takein.cur_copy # b
    <3>1. takein'.cur_copy = takein.cur_copy /\ header_queue'[b] = header_queue[b]
          /\ queue'[b] = queue[b]
      BY <1>0, <1>6, <2>2 DEF RecvPayload, Conns
    <3> QED BY <1>4, <2>2, <3>1
  <2> QED BY <2>1, <2>2
<1> QED BY <1>3, <1>5, <1>6 DEF ConnMgr

LEMMA LaidStep ==
  ASSUME BufferInv, NoUnderrun', IntactInv, Settles(scraper, scraper'), [Next]_vars,
         NEW b \in Buffers
  PROVE  Laid(b)'
<1>0. /\ TypeOK /\ TInv /\ DrainExclusive /\ FlipInv /\ HeaderInv /\ LastInv /\ ConnInv
      /\ HeadersKnown /\ CollectedInv /\ Laid(b) /\ b \in {cur, Frozen} /\ Frozen # cur
      /\ header_queue \in [Buffers -> Seq(Headers)] /\ queue \in [Buffers -> Data]
      /\ Frozen \in Buffers
  BY DEF BufferInv, QueueInv, ExclusiveInv, TInv, TypeOK, IntactInv, Frozen, Buffers
<1>1. takein.pc = "payload" => Settled(scraper, takein.header.from)
  BY <1>0 DEF ConnInv, Known
<1>2. CASE ConnMgr
  BY <1>0, <1>2, LaidConnMgr
<1>3. ASSUME takein' = takein, header_queue'[b] = header_queue[b], queue'[b] = queue[b],
             Popping(b)' <=> Popping(b), Popping(b) => group' = group
      PROVE  Laid(b)'
  <2>1. Pushing(b)' = Pushing(b) /\ (Stages(b)' => Settled(scraper, takein.header.from))
    BY <1>1, <1>3 DEF Pushing, Stages
  <2> QED BY <1>0, <1>3, <2>1, LaidKept
<1>4. ASSUME UNCHANGED <<takein, header_queue, queue, cur, wpc, group>> PROVE Laid(b)'
  BY <1>3, <1>4 DEF Popping, Frozen
<1>5. ASSUME NEW s \in Scrapers, Connect(s) \/ Unreachable(s) \/ Sendout(s) \/ Killed(s)
      PROVE  Laid(b)'
  BY <1>4, <1>5 DEF Connect, Unreachable, Sendout, Killed, queues, flip, watch
<1>6. CASE UNCHANGED vars
  BY <1>4, <1>6 DEF vars, queues, flip, watch
<1>7. CASE Import \/ FreezeQueue \/ Analyze \/ CollectEnd \/ Exit
  <2>1. /\ takein' = takein /\ header_queue' = header_queue /\ queue' = queue
        /\ wpc # "recombine" /\ wpc' # "recombine"
    BY <1>7 DEF Import, FreezeQueue, Analyze, CollectEnd, Exit, AfterFreeze, queues
  <2> QED BY <1>3, <2>1 DEF Popping
<1>8. CASE RecombineHeader \/ RecombineEnd \/ \E k \in Payload : RecombinePayload(k)
  <2>1. CASE b = Frozen
    <3>1. CASE RecombineHeader
      BY <1>0, <2>1, <3>1, LaidHeader
    <3>2. CASE RecombineEnd
      BY <1>0, <2>1, <3>2, LaidEnd
    <3>3. ASSUME NEW k \in Payload, RecombinePayload(k) PROVE Laid(b)'
      BY <1>0, <2>1, <3>3, LaidElement
    <3> QED BY <1>8, <3>1, <3>2, <3>3
  <2>2. CASE b # Frozen
    <3>1. takein' = takein /\ cur' = cur
      BY <1>8 DEF RecombineHeader, RecombineEnd, RecombinePayload, GiveUpFlip, flip
    <3>2. header_queue'[b] = header_queue[b] /\ queue'[b] = queue[b]
      <4>1. b = cur /\ (Watcher \/ Exit)
        BY <1>0, <1>8, <2>2 DEF Watcher
      <4> QED BY <1>0, <4>1, PoppedElsewhere
    <3> QED BY <1>3, <2>2, <3>1, <3>2 DEF Popping, Frozen
  <2> QED BY <2>1, <2>2
<1> QED BY <1>2, <1>5, <1>6, <1>7, <1>8 DEF Next, Watcher

LEMMA CollectedStep ==
  ASSUME BufferInv, NoUnderrun', IntactInv, Settles(scraper, scraper'), [Next]_vars
  PROVE  CollectedInv'
<1> DEFINE Entries == [from : Senders, data : Data]
<1>0. /\ TypeOK /\ CollectedInv /\ FlipInv /\ collected \in Seq(Entries) /\ group \in Groups
      /\ Frozen \in Buffers /\ \A b \in Buffers : Laid(b)
  BY DEF BufferInv, QueueInv, ExclusiveInv, TInv, TypeOK, IntactInv, Frozen, Buffers
<1>1. \A s, d : Whole(scraper, s, d) => Whole(scraper', s, d)
  BY OwnSettled
<1>2. ASSUME collected' = collected, wpc' # "recombine" => group'.data = Empty
      PROVE  CollectedInv'
  BY <1>0, <1>1, <1>2 DEF CollectedInv
<1>3. CASE UNCHANGED watch
  BY <1>0, <1>2, <1>3 DEF CollectedInv, watch
<1>4. CASE ConnMgr
  BY <1>3, <1>4, ConnMgrKeeps
<1>5. ASSUME NEW s \in Scrapers, Connect(s) \/ Unreachable(s) \/ Sendout(s) \/ Killed(s)
      PROVE  CollectedInv'
  BY <1>3, <1>5, ScraperKeeps
<1>6. CASE UNCHANGED vars
  BY <1>3, <1>6 DEF vars
<1>7. CASE Import \/ FreezeQueue \/ Analyze \/ CollectEnd \/ Exit
  <2>1. group' = group /\ collected' = collected /\ wpc # "recombine"
    BY <1>7 DEF Import, FreezeQueue, Analyze, CollectEnd, Exit
  <2> QED BY <1>0, <1>2, <2>1 DEF CollectedInv
<1>8. CASE RecombineHeader
  BY <1>2, <1>8 DEF RecombineHeader
<1>9. ASSUME NEW k \in Payload, RecombinePayload(k) PROVE CollectedInv'
  <2>1. collected' = collected /\ wpc' = "recombine"
    BY <1>9 DEF RecombinePayload, NoUnderrun
  <2> QED BY <1>2, <2>1
<1>10. CASE RecombineEnd
  <2> DEFINE g == [from |-> group.from, data |-> group.data]
  <2>1. Whole(scraper, group.from, group.data)
    BY <1>0, <1>10, LaidEnd
  <2>2. collected' = Append(collected, g) /\ group'.data = Empty
    BY <1>0, <1>10 DEF RecombineEnd, Groups
  <2>3. g \in Entries /\ Whole(scraper, g.from, g.data)
    BY <1>0, <2>1 DEF Groups
  <2> HIDE DEF g, Entries
  <2>4. /\ Len(collected') = Len(collected) + 1 /\ Len(collected) \in Nat
        /\ collected'[Len(collected) + 1] = g
        /\ \A i \in 1 .. Len(collected) : collected'[i] = collected[i]
    BY <1>0, <2>2, <2>3, AppendProperties, LenProperties
  <2>5. ASSUME NEW i \in 1 .. Len(collected')
        PROVE  Whole(scraper', collected'[i].from, collected'[i].data)
    <3>1. i = Len(collected) + 1 \/ i \in 1 .. Len(collected)
      BY <2>4
    <3>2. \A j \in 1 .. Len(collected) : Whole(scraper, collected[j].from, collected[j].data)
      BY <1>0 DEF CollectedInv
    <3> QED BY <1>1, <2>3, <2>4, <3>1, <3>2
  <2> QED BY <2>2, <2>5 DEF CollectedInv
<1> QED BY <1>4, <1>5, <1>6, <1>7, <1>8, <1>9, <1>10 DEF Next, Watcher

LEMMA IntactInit == Init => IntactInv
<1> SUFFICES ASSUME Init PROVE IntactInv
  OBVIOUS
<1>1. /\ takein.pc = "accept" /\ wpc = "import" /\ collected = <<>> /\ group.data = Empty
      /\ header_queue = [b \in Buffers |-> <<>>] /\ queue = [b \in Buffers |-> Empty]
  BY DEF Init
<1>2. ConnInv /\ HeadersKnown /\ CollectedInv
  BY <1>1 DEF ConnInv, HeadersKnown, CollectedInv
<1>3. ASSUME NEW b \in Buffers PROVE Laid(b)
  <2>1. header_queue[b] = <<>> /\ queue[b] = Empty /\ ~Stages(b) /\ Pushing(b) = None /\ ~Popping(b)
    BY <1>1 DEF Stages, Pushing, Popping
  <2>2. Empty \in Data /\ Joined(Empty, Empty) = Empty
    BY BlankTypes, JoinedTypes
  <2>3. InOrder(b, <<>>) /\ InHand(b, Empty)
    BY <2>1 DEF InOrder, InHand
  <2> QED BY <2>1, <2>2, <2>3, LayoutNone DEF Laid
<1> QED BY <1>2, <1>3 DEF IntactInv

LEMMA IntactStep ==
  ASSUME BufferInv, BufferInv', IntactInv, [Next]_vars
  PROVE  IntactInv'
<1>1. /\ TypeOK /\ TInv /\ LastInv /\ ConnInv /\ HeadersKnown /\ NoUnderrun'
  BY DEF BufferInv, QueueInv, ExclusiveInv, TInv, IntactInv
<1>2. Settles(scraper, scraper')
  BY <1>1, ScraperSettles
<1>3. ConnInv' /\ HeadersKnown' /\ CollectedInv'
  BY <1>1, <1>2, ConnStep, KnownStep, CollectedStep
<1>4. \A b \in Buffers : Laid(b)'
  BY <1>1, <1>2, LaidStep
<1> QED BY <1>3, <1>4 DEF IntactInv

(* What was sent as results counts the GPU measurements sent.              *)
LEMMA SentGpus ==
  ASSUME NEW s \in Scrapers, NEW d \in Data, Announced(HeaderOf(s).cnt, d, None),
         \A i \in 1 .. Len(d["result"]) : d["result"][i] = Sent(s, "result", i)
  PROVE  Len(d["gpu"]) = SumFunction(Load[s].results)
<1> DEFINE n == Len(d["result"])
           f == Load[s].results
<1>1. f \in Seq(Nat) /\ d["result"] \in Seq(Elements) /\ Len(d["gpu"]) \in Nat /\ n \in Nat
  BY MessagingAssumption DEF Loads, Data, Payload
<1>2. HeaderOf(s).cnt["result"] = Len(f) /\ HeaderOf(s).cnt["gpu"] = 0
  BY DEF HeaderOf, Payload
<1>3. n = Len(f)
  BY <1>1, <1>2 DEF Announced, Payload, None
<1>4. PICK t \in Nat : Total(n, Gpus(d["result"]), t) /\ Len(d["gpu"]) = t
  BY <1>1, <1>2 DEF Announced, None, Payload
<1>5. f \in [1 .. n -> Nat]
  BY <1>1, <1>3
<1>6. Gpus(d["result"]) = f
  <2>1. ASSUME NEW i \in 1 .. n PROVE d["result"][i].gpus = f[i]
    <3>1. DOMAIN f = 1 .. n /\ i \in DOMAIN f
      BY <1>1, <1>3
    <3>2. Sent(s, "result", i).gpus = f[i]
      BY <3>1 DEF Sent
    <3>3. d["result"][i] = Sent(s, "result", i)
      OBVIOUS
    <3> QED BY <3>2, <3>3
  <2>2. Gpus(d["result"]) = [i \in 1 .. n |-> d["result"][i].gpus]
    BY DEF Gpus
  <2>3. f = [i \in 1 .. n |-> f[i]]
    BY <1>5
  <2> HIDE DEF f, n
  <2> QED BY <2>1, <2>2, <2>3
<1> HIDE DEF f, n
<1>7. SumFunction(f) = t
  BY <1>1, <1>4, <1>5, <1>6, TotalSum
<1> QED BY <1>4, <1>7 DEF f

LEMMA WholeIntact ==
  ASSUME NEW s \in Senders, NEW d \in Data, Whole(scraper, s, d)
  PROVE  /\ \A k \in Payload : \A e \in Members(d[k]) : e.from \in {s, Nobody}
         /\ s \in Scrapers /\ scraper[s].st = "sent" =>
              \A k \in Payload :
                d[k] = [n \in 1 .. IF k = "gpu" THEN SumFunction(Load[s].results)
                                   ELSE HeaderOf(s).cnt[k] |-> Sent(s, k, n)]
<1>1. \A k \in Payload : d[k] \in Seq(Elements) /\ Len(d[k]) \in Nat
  BY DEF Data
<1>2. \A k \in Payload : \A i \in 1 .. Len(d[k]) :
        /\ d[k][i].from \in {s, Nobody}
        /\ Faithful(scraper, s) => d[k][i] = Sent(s, k, i)
  BY DEF Whole, Own
<1>3. \A k \in Payload : \A e \in Members(d[k]) : e.from \in {s, Nobody}
  BY <1>1, <1>2 DEF Members
<1>4. ASSUME s \in Scrapers, scraper[s].st = "sent", NEW k \in Payload
      PROVE  d[k] = [n \in 1 .. IF k = "gpu" THEN SumFunction(Load[s].results)
                                ELSE HeaderOf(s).cnt[k] |-> Sent(s, k, n)]
  <2>1. Faithful(scraper, s) /\ Announced(HeaderOf(s).cnt, d, None)
    BY <1>4 DEF Faithful, Whole
  <2>2. Len(d[k]) = IF k = "gpu" THEN SumFunction(Load[s].results) ELSE HeaderOf(s).cnt[k]
    <3>1. CASE k = "gpu"
      <4>1. \A i \in 1 .. Len(d["result"]) : d["result"][i] = Sent(s, "result", i)
        BY <1>2, <2>1 DEF Payload
      <4> QED BY <1>4, <2>1, <3>1, <4>1, SentGpus
    <3>2. CASE k # "gpu"
      <4>1. Len(d[k]) + 0 = HeaderOf(s).cnt[k]
        BY <2>1, <3>2 DEF Announced, None
      <4> QED BY <1>1, <3>2, <4>1
    <3> QED BY <3>1, <3>2
  <2> DEFINE n == Len(d[k])
  <2>3. d[k] = [i \in 1 .. n |-> d[k][i]]
    BY <1>1
  <2>4. \A i \in 1 .. n : d[k][i] = Sent(s, k, i)
    BY <1>2, <2>1
  <2>5. d[k] = [i \in 1 .. n |-> Sent(s, k, i)]
    <3> HIDE DEF n
    <3> QED BY <2>3, <2>4
  <2> QED BY <2>2, <2>5
<1> QED BY <1>3, <1>4

LEMMA BufferInvariant == ASSUME Prompt, ExitWhen # "any" PROVE Spec => []BufferInv
<1>1. BufferInv /\ [Next]_vars => BufferInv'
  BY BufferInvStep
<1> QED BY <1>1, BufferInvInit, PTL DEF Spec

(* Whatever dies in mid-stream and however the buffers flip, what          *)
(* collect_msg_queue inserts as one group is from one scraper, and all of  *)
(* it in order if that scraper sent everything (messaging.cpp:115-163,     *)
(* 185-260).                                                               *)
THEOREM GroupsWhole ==
  ASSUME Prompt, ExitWhen # "any"
  PROVE  Spec => []GroupsIntact
<1>1. BufferInv /\ IntactInv => GroupsIntact
  <2> SUFFICES ASSUME TypeOK, CollectedInv, NEW i \in DOMAIN collected
               PROVE  LET g == collected[i]
                      IN  /\ \A k \in Payload : \A e \in Members(g.data[k]) :
                               e.from \in {g.from, Nobody}
                          /\ g.from \in Scrapers /\ scraper[g.from].st = "sent" =>
                               \A k \in Payload :
                                 g.data[k] = [n \in 1 .. IF k = "gpu"
                                                         THEN SumFunction(Load[g.from].results)
                                                         ELSE HeaderOf(g.from).cnt[k]
                                              |-> Sent(g.from, k, n)]
    BY DEF GroupsIntact, Members, BufferInv, QueueInv, ExclusiveInv, TInv, IntactInv
  <2> DEFINE Entries == [from : Senders, data : Data]
  <2>1. collected \in Seq(Entries)
    BY DEF TypeOK
  <2>2. collected[i].from \in Senders /\ collected[i].data \in Data /\ i \in 1 .. Len(collected)
    <3> HIDE DEF Entries
    <3>1. collected[i] \in Entries /\ i \in 1 .. Len(collected)
      BY <2>1
    <3> QED BY <3>1 DEF Entries
  <2>3. Whole(scraper, collected[i].from, collected[i].data)
    BY <2>2 DEF CollectedInv
  <2> QED BY <2>2, <2>3, WholeIntact
<1>2. Spec => []BufferInv
  BY BufferInvariant
<1>3. BufferInv /\ BufferInv' /\ IntactInv /\ [Next]_vars => IntactInv'
  BY IntactStep
<1> QED BY <1>1, <1>2, <1>3, IntactInit, PTL DEF Spec
=============================================================================
