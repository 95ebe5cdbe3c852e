-------------------------- MODULE RecyclePool_proof --------------------------
(* malloc and free of the intercepter: what is noted in a chunk is found       *)
(* again, for every size, length, padding and alignment that glibc may         *)
(* combine; and no block of the pool is forgotten or has two owners, for any   *)
(* number of threads, blocks, sizes and slots.                                 *)
EXTENDS RecyclePool, FiniteSetTheorems, TLAPS

(* A chunk holds its header and the bytes asked for.  Only an aligned          *)
(* allocation has padding, a multiple of 16 bytes, and then glibc asks for     *)
(* more than the bytes and the header.                                         *)
Possible(size, len, padding, alignment) ==
  /\ size >= len + HeaderSize
  /\ alignment > MinAlignment => padding >= Word /\ size > len + HeaderSize
  /\ padding > 0 => padding >= Word /\ size > len + HeaderSize

(* The length, and the alignment if it is above the usual one.                 *)
Request(len, alignment) ==
  [size |-> len, alignment |-> IF alignment > MinAlignment THEN alignment ELSE 0]

(* The low bit of a note tells whether an alignment stands beside it.          *)
LEMMA NoteRead ==
  ASSUME NEW len \in Nat, NEW alignment \in Nat
  PROVE  /\ Note(len, alignment) \div 2 = len
         /\ Note(len, alignment) % 2 = 1 <=> alignment > MinAlignment
BY DEF Note, MinAlignment

(* free finds the request malloc noted, whatever the program wrote into the    *)
(* bytes that are its own (mm.cpp, implant_chunk and fetch_implanted).         *)
THEOREM FetchesRequest ==
  ASSUME NEW size \in Nat, NEW len \in Nat, NEW padding \in Nat, NEW alignment \in Nat,
         Possible(size, len, padding, alignment)
  PROVE  Fetched(Used(Implanted(Mapped(size, padding), len, alignment), len))
           = Request(len, alignment)
<1> DEFINE chunk == Mapped(size, padding)
           diff  == size - (len + HeaderSize)
           made  == Implanted(chunk, len, alignment)
           used  == Used(made, len)
<1>1. diff \in Nat /\ Diff(chunk, len) = diff
  BY DEF Diff, Mapped, Possible, HeaderSize
<1>2. CASE padding >= Word
  <2>1. Advice(chunk, len) = [at |-> "head", size_diff |-> 0]
    BY <1>1, <1>2 DEF Advice, Mapped, Possible, Word, HeaderSize
  <2>2. /\ used.padding = padding
        /\ used.head = Note(len, alignment)
        /\ used.alignment = IF alignment > MinAlignment THEN alignment ELSE 0
    BY <2>1 DEF Implanted, Used, Mapped
  <2>3. Fetched(used) = [size |-> used.head \div 2,
                         alignment |-> IF used.head % 2 = 1 THEN used.alignment ELSE 0]
    BY <1>2, <2>2 DEF Fetched
  <2> QED BY <2>2, <2>3, NoteRead DEF Request
<1>3. CASE padding = 0 /\ diff = 0
  <2>1. Advice(chunk, len) = [at |-> "flags", size_diff |-> 0]
    BY <1>1, <1>3 DEF Advice
  <2>2. made.size = size /\ made.padding = padding
    BY DEF Implanted, Mapped
  <2>3. made.flags = {NODIFF_BIT}
    BY <2>1 DEF Implanted, Mapped
  <2>4. Fetched(used) = [size |-> size - 0 - HeaderSize, alignment |-> 0]
    BY <1>3, <2>2, <2>3 DEF Fetched, Used, Word, NODIFF_BIT, COMPRESSED_BIT
  <2> QED BY <1>3, <2>4 DEF Request, Possible, HeaderSize, MinAlignment, Word
<1>4. CASE padding = 0 /\ diff > 0 /\ diff < Word
  <2>1. Advice(chunk, len) = [at |-> "byte", size_diff |-> diff]
    BY <1>1, <1>4 DEF Advice, Mapped, Word
  <2>2. made.size = size /\ made.padding = padding
    BY DEF Implanted, Mapped
  <2>3. made.flags = {COMPRESSED_BIT}
    BY <1>4, <2>1 DEF Implanted, Mapped
  <2>4. made.byte = diff
    BY <1>1, <1>4, <2>1 DEF Implanted, Mapped, Word
  <2>5. used.byte = diff
    BY <1>1, <1>4, <2>2, <2>4 DEF Used, Diff
  <2>6. Fetched(used) = [size |-> size - diff - HeaderSize, alignment |-> 0]
    BY <1>4, <2>2, <2>3, <2>5 DEF Fetched, Used, Word, COMPRESSED_BIT
  <2> QED BY <1>1, <1>4, <2>6 DEF Request, Possible, HeaderSize, MinAlignment, Word
<1>5. CASE padding = 0 /\ diff >= Word
  <2>1. Advice(chunk, len) = [at |-> "tail", size_diff |-> 0]
    BY <1>1, <1>5 DEF Advice, Mapped, Word
  <2>2. made.size = size /\ made.padding = padding
    BY DEF Implanted, Mapped
  <2>3. made.flags = {}
    BY <2>1 DEF Implanted, Mapped
  <2>4. made.tail = Note(len, alignment)
    BY <2>1 DEF Implanted, Mapped
  <2>5. used.tail = Note(len, alignment)
    BY <1>1, <1>5, <2>2, <2>4 DEF Used, Diff, Word
  <2>6. Fetched(used) = [size |-> used.tail \div 2, alignment |-> 0]
    BY <1>5, <2>2, <2>3 DEF Fetched, Used, Word, NODIFF_BIT, COMPRESSED_BIT
  <2> QED BY <1>5, <2>5, <2>6, NoteRead DEF Request, Possible, Word
<1> QED BY <1>1, <1>2, <1>3, <1>4, <1>5 DEF Possible, Word

-----------------------------------------------------------------------------
LEMMA SlotsClosed ==
  ASSUME NEW i \in Slots
  PROVE  PrevSlot(i) \in Slots /\ NextSlot(i) \in Slots
<1>1. PoolSize \in Nat \ {0}
  BY PoolAssumption DEF PoolSize
<1>2. (i - 1) % PoolSize \in 0 .. PoolSize - 1 /\ (i + 1) % PoolSize \in 0 .. PoolSize - 1
  BY <1>1 DEF Slots
<1> QED BY <1>2 DEF PrevSlot, NextSlot, Slots

LEMMA FreedSizeType ==
  ASSUME NEW n \in Sizes \union {Null}
  PROVE  FreedSize[n] \in Sizes \union {Null}
<1> DEFINE same == {m \in Sizes : n # Null /\ Noted(n) =
                      [size |-> Layout[m].len, alignment |-> Layout[m].alignment]}
<1>1. FreedSize[n] = IF same = {} THEN Null ELSE CHOOSE m \in same : TRUE
  BY DEF FreedSize
<1>2. same # {} => (CHOOSE m \in same : TRUE) \in same
  OBVIOUS
<1> QED BY <1>1, <1>2

LEMMA IdleType == Idle \in Locals /\ NoEntry \in Entries
<1>1. 0 \in Slots
  BY PoolAssumption DEF Slots, PoolSize
<1> QED BY <1>1 DEF Idle, NoEntry, Locals, Entries, Steps

(* malloc, free and what glibc does keep the types of the pool, the program    *)
(* and the threads.                                                            *)
LEMMA StepTypeOK == ASSUME TypeOK, [Next]_vars PROVE TypeOK'
<1> USE DEF TypeOK
<1>0. CASE UNCHANGED vars
  BY <1>0 DEF vars, shared, program
<1> SUFFICES ASSUME NEW t \in Threads,
                    \/ \E n \in Sizes : Malloc(t, n)
                    \/ \E b \in Blocks : Free(t, b)
                    \/ Progress(t)
             PROVE  TypeOK'
  BY <1>0 DEF Next
<1>1. ASSUME NEW n \in Sizes, Malloc(t, n) PROVE TypeOK'
  <2>1. [Idle EXCEPT !.pc = "reuse", !.size = n] \in Locals
    BY IdleType DEF Locals, Steps
  <2> QED BY <1>1, <2>1 DEF Malloc, shared, program
<1>2. ASSUME NEW b \in Blocks, Free(t, b) PROVE TypeOK'
  <2>1. [Idle EXCEPT !.pc = "recycle", !.addr = b, !.size = FreedSize[heap[b]]] \in Locals
    BY IdleType, FreedSizeType DEF Locals, Steps
  <2>2. holders' \in [Blocks -> Nat]
    <3>1. holders[b] - 1 \in Nat
      <4>1. holders[b] \in Nat /\ holders[b] > 0
        BY <1>2 DEF Free, InHand
      <4> QED BY <4>1
    <3>2. holders' = [holders EXCEPT ![b] = holders[b] - 1]
      BY <1>2 DEF Free
    <3> QED BY <3>1, <3>2
  <2>3. wanted' \in [Blocks -> Sizes \union {Null}]
    BY <1>2 DEF Free
  <2> QED BY <1>2, <2>1, <2>2, <2>3 DEF Free, shared
<1>3. CASE ReuseStart(t)
  <2>1. [thread[t] EXCEPT !.pc = "scan", !.start = pool_ptr, !.cur = PrevSlot(pool_ptr),
           !.match = [addr |-> Null, size |-> thread[t].size, in_use |-> FALSE]] \in Locals
    <3>1. thread[t] \in Locals /\ pool_ptr \in Slots /\ thread[t].size \in Sizes \union {Null}
      BY DEF Locals
    <3>2. PrevSlot(pool_ptr) \in Slots
      BY <3>1, SlotsClosed
    <3>3. [addr |-> Null, size |-> thread[t].size, in_use |-> FALSE] \in Entries
      BY <3>1 DEF Entries
    <3> QED BY <3>1, <3>2, <3>3 DEF Locals, Steps
  <2> QED BY <1>3, <2>1 DEF ReuseStart, shared, program
<1>4. CASE Scan(t)
  <2> DEFINE me == thread[t]
             info == recycle_pool[me.cur]
  <2>1. me \in Locals /\ info \in Entries
    BY DEF Locals
  <2>2. [me EXCEPT !.pc = "cas", !.addr = info.addr, !.match.addr = info.addr] \in Locals
    BY <2>1 DEF Locals, Entries, Steps
  <2>3. [Idle EXCEPT !.pc = "fresh", !.size = me.size] \in Locals
    BY <2>1, IdleType DEF Locals, Steps
  <2>4. [me EXCEPT !.cur = PrevSlot(me.cur)] \in Locals
    BY <2>1, SlotsClosed DEF Locals
  <2> QED BY <1>4, <2>2, <2>3, <2>4 DEF Scan, shared, program
<1>5. CASE CompareExchange(t)
  <2> DEFINE me == thread[t]
  <2>1. me \in Locals
    OBVIOUS
  <2>2. CASE recycle_pool[me.cur] = me.match
    <3>1. [addr |-> me.addr, size |-> me.size, in_use |-> TRUE] \in Entries
      BY <2>1 DEF Locals, Entries
    <3>2. recycle_pool' \in [Slots -> Entries]
      BY <1>5, <2>2, <3>1 DEF CompareExchange
    <3>3. holders' \in [Blocks -> Nat]
      BY <1>5, <2>2 DEF CompareExchange, Hand
    <3>4. wanted' \in [Blocks -> Sizes \union {Null}]
      BY <1>5, <2>1, <2>2 DEF CompareExchange, Hand, Locals
    <3> QED BY <1>5, <2>2, <3>2, <3>3, <3>4, IdleType DEF CompareExchange
  <2>3. CASE recycle_pool[me.cur] # me.match
    <3>1. [me EXCEPT !.pc = "scan", !.addr = Null, !.match = recycle_pool[me.cur]] \in Locals
      BY <2>1 DEF Locals, Steps
    <3> QED BY <1>5, <2>3, <3>1 DEF CompareExchange
  <2> QED BY <2>2, <2>3
<1>6. CASE Fresh(t)
  <2>1. thread[t].size \in Sizes \union {Null}
    BY DEF Locals
  <2>2. CASE UNCHANGED program
    BY <1>6, <2>2, IdleType DEF Fresh, shared, program
  <2>3. CASE \E b \in Blocks : heap' = [heap EXCEPT ![b] = thread[t].size] /\ Hand(b, thread[t].size)
    BY <1>6, <2>1, <2>3, IdleType DEF Fresh, Hand, shared
  <2> QED BY <1>6, <2>2, <2>3 DEF Fresh
<1>7. CASE FetchAdd(t)
  <2>1. [thread[t] EXCEPT !.pc = "exchange", !.cur = pool_ptr] \in Locals
    BY DEF Locals, Steps
  <2> QED BY <1>7, <2>1, SlotsClosed DEF FetchAdd, program
<1>8. CASE Exchange(t)
  <2> DEFINE me == thread[t]
             old == recycle_pool[me.cur]
  <2>1. me \in Locals /\ old \in Entries
    BY DEF Locals
  <2>2. [addr |-> me.addr, size |-> me.size, in_use |-> FALSE] \in Entries
    BY <2>1 DEF Locals, Entries
  <2>3. [Idle EXCEPT !.pc = "release", !.addr = old.addr] \in Locals
    BY <2>1, IdleType DEF Locals, Entries, Steps
  <2> QED BY <1>8, <2>2, <2>3, IdleType DEF Exchange, program
<1>9. CASE Release(t)
  BY <1>9, IdleType DEF Release, shared
<1> QED BY <1>1, <1>2, <1>3, <1>4, <1>5, <1>6, <1>7, <1>8, <1>9 DEF Progress

(* An empty ring, no block, idle threads.                                      *)
LEMMA InitTypeOK == ASSUME Init PROVE TypeOK
<1>1. 0 \in Slots
  BY PoolAssumption DEF Slots, PoolSize
<1>2. recycle_pool \in [Slots -> Entries] /\ pool_ptr \in Slots
  BY <1>1, IdleType DEF Init
<1>3. heap \in [Blocks -> Sizes \union {Null}] /\ wanted \in [Blocks -> Sizes \union {Null}]
  BY DEF Init
<1>4. holders \in [Blocks -> Nat]
  BY DEF Init
<1>5. thread \in [Threads -> Locals] /\ lost \in BOOLEAN
  BY IdleType DEF Init
<1> QED BY <1>2, <1>3, <1>4, <1>5 DEF TypeOK

(* The pool, the program and the threads keep their types: what recycle and    *)
(* reuse index are slots of the ring, however often its pointer wraps.         *)
THEOREM PoolTyped == Spec => []TypeOK
<1>1. Init => TypeOK
  BY InitTypeOK
<1>2. TypeOK /\ [Next]_vars => TypeOK'
  BY StepTypeOK
<1> QED BY <1>1, <1>2, PTL DEF Spec

-----------------------------------------------------------------------------
(* What is taken out of an entry is the block that was read from it: the       *)
(* exchange compares with the entry that was loaded.                           *)
Matched == \A t \in Threads : thread[t].pc = "cas" => thread[t].match.addr = thread[t].addr

LeakInv == TypeOK /\ Matched /\ NoLeak

LEMMA StepMatched == ASSUME TypeOK, Matched, [Next]_vars PROVE Matched'
<1> USE DEF TypeOK, Matched
<1>0. CASE UNCHANGED vars
  BY <1>0 DEF vars
<1> SUFFICES ASSUME NEW t \in Threads,
                    \/ \E n \in Sizes : Malloc(t, n)
                    \/ \E b \in Blocks : Free(t, b)
                    \/ Progress(t)
             PROVE  Matched'
  BY <1>0 DEF Next
<1>1. \A s \in Threads \ {t} : thread'[s] = thread[s]
  BY DEF Malloc, Free, Progress, ReuseStart, Scan, CompareExchange, Fresh, FetchAdd,
         Exchange, Release
<1>2. thread'[t].pc = "cas" => thread'[t].match.addr = thread'[t].addr
  <2>1. CASE Scan(t)
    <3> DEFINE me == thread[t]
               info == recycle_pool[me.cur]
    <3>1. me \in Locals
      OBVIOUS
    <3>2. [me EXCEPT !.pc = "cas", !.addr = info.addr, !.match.addr = info.addr].match.addr
            = info.addr
      BY <3>1 DEF Locals, Entries
    <3>3. [me EXCEPT !.pc = "cas", !.addr = info.addr, !.match.addr = info.addr].addr
            = info.addr
      BY <3>1 DEF Locals
    <3>4. [Idle EXCEPT !.pc = "fresh", !.size = me.size].pc # "cas"
      BY DEF Idle
    <3>5. [me EXCEPT !.cur = PrevSlot(me.cur)].pc # "cas"
      BY <2>1, <3>1 DEF Locals, Scan
    <3> QED BY <2>1, <3>2, <3>3, <3>4, <3>5 DEF Scan
  <2>2. CASE ~Scan(t)
    <3>1. thread[t] \in Locals /\ Idle.pc = "idle" /\ Idle \in Locals
      BY IdleType DEF Idle
    <3>2. ASSUME NEW n \in Sizes, Malloc(t, n) PROVE thread'[t].pc # "cas"
      BY <3>1, <3>2 DEF Malloc, Locals
    <3>3. ASSUME NEW b \in Blocks, Free(t, b) PROVE thread'[t].pc # "cas"
      BY <3>1, <3>3 DEF Free, Locals
    <3>4. ASSUME ReuseStart(t) PROVE thread'[t].pc # "cas"
      BY <3>1, <3>4 DEF ReuseStart, Locals
    <3>5. ASSUME CompareExchange(t) PROVE thread'[t].pc # "cas"
      BY <3>1, <3>5 DEF CompareExchange, Locals
    <3>6. ASSUME Fresh(t) \/ FetchAdd(t) \/ Release(t) PROVE thread'[t].pc # "cas"
      BY <3>1, <3>6 DEF Fresh, FetchAdd, Release, Locals
    <3>7. ASSUME Exchange(t) PROVE thread'[t].pc # "cas"
      BY <3>1, <3>7 DEF Exchange, Locals
    <3> QED BY <2>2, <3>2, <3>3, <3>4, <3>5, <3>6, <3>7 DEF Progress
  <2> QED BY <2>1, <2>2
<1> QED BY <1>1, <1>2

(* A block stays where it is when nothing about it changes.                    *)
LEMMA Undisturbed ==
  ASSUME TypeOK, NEW t \in Threads, NEW b \in Blocks,
         \A s \in Threads \ {t} : thread'[s] = thread[s]
  PROVE  /\ t \notin Moving(b) /\ Moving(b) # {} => Moving(b)' # {}
         /\ recycle_pool' = recycle_pool /\ Pooled(b) # {} => Pooled(b)' # {}
         /\ holders'[b] = holders[b] /\ InHand(b) => InHand(b)'
<1>1. ASSUME t \notin Moving(b), Moving(b) # {} PROVE Moving(b)' # {}
  <2>1. PICK s \in Threads \ {t} : s \in Moving(b)
    BY <1>1 DEF Moving
  <2> QED BY <2>1 DEF Moving
<1>2. ASSUME recycle_pool' = recycle_pool, Pooled(b) # {} PROVE Pooled(b)' # {}
  BY <1>2 DEF Pooled
<1>3. ASSUME holders'[b] = holders[b], InHand(b) PROVE InHand(b)'
  BY <1>3 DEF InHand
<1> QED BY <1>1, <1>2, <1>3

(* A block in an entry that an atomic operation leaves alone stays pooled.     *)
LEMMA OtherEntries ==
  ASSUME TypeOK, NEW b \in Blocks, NEW i \in Slots, NEW e \in Entries,
         recycle_pool' = [recycle_pool EXCEPT ![i] = e],
         Pooled(b) # {}, i \notin Pooled(b)
  PROVE  Pooled(b)' # {}
<1>1. PICK j \in Slots \ {i} : j \in Pooled(b)
  BY DEF Pooled
<1>2. recycle_pool'[j] = recycle_pool[j]
  BY <1>1 DEF TypeOK
<1> QED BY <1>1, <1>2 DEF Pooled

(* One more pointer to a block that is handed out, and to no other.            *)
LEMMA Handed ==
  ASSUME TypeOK, NEW a \in Blocks \union {Null}, NEW n, Hand(a, n), NEW b \in Blocks
  PROVE  /\ a = b \/ InHand(b) => InHand(b)'
         /\ a # b => holders'[b] = holders[b]
<1>1. holders[b] \in Nat /\ holders \in [Blocks -> Nat]
  BY DEF TypeOK
<1>2. holders' = [holders EXCEPT ![a] = @ + 1]
  BY DEF Hand
<1>3. a = b => holders'[b] = holders[b] + 1
  BY <1>1, <1>2
<1>4. a # b => holders'[b] = holders[b]
  BY <1>1, <1>2
<1> QED BY <1>1, <1>3, <1>4 DEF InHand

(* Where each step leaves the blocks it does not give back to glibc.           *)
LEMMA StepNoLeak == ASSUME LeakInv, [Next]_vars PROVE NoLeak'
<1> USE DEF LeakInv
<1>0. CASE UNCHANGED vars
  BY <1>0 DEF vars, shared, program, NoLeak, InHand, Pooled, Moving
<1> SUFFICES ASSUME NEW t \in Threads,
                    \/ \E n \in Sizes : Malloc(t, n)
                    \/ \E b \in Blocks : Free(t, b)
                    \/ Progress(t),
                    NEW b \in Blocks, heap'[b] # Null
             PROVE  InHand(b)' \/ Pooled(b)' # {} \/ Moving(b)' # {}
  BY <1>0 DEF Next, NoLeak
<1>a. \A s \in Threads \ {t} : thread'[s] = thread[s]
  BY DEF Malloc, Free, Progress, ReuseStart, Scan, CompareExchange, Fresh, FetchAdd,
         Exchange, Release, TypeOK
<1>b. heap[b] # Null => InHand(b) \/ Pooled(b) # {} \/ Moving(b) # {}
  BY DEF NoLeak
<1>c. thread[t] \in Locals /\ Idle.pc = "idle"
  BY DEF TypeOK, Idle
<1>1. ASSUME thread[t].pc \notin {"recycle", "exchange", "release"},
             UNCHANGED <<recycle_pool, heap, holders>>
      PROVE  InHand(b)' \/ Pooled(b)' # {} \/ Moving(b)' # {}
  <2>1. t \notin Moving(b)
    BY <1>1 DEF Moving
  <2> QED BY <1>a, <1>b, <1>1, <2>1, Undisturbed
<1>2. CASE (\E n \in Sizes : Malloc(t, n)) \/ ReuseStart(t) \/ Scan(t)
  BY <1>1, <1>2 DEF Malloc, ReuseStart, Scan, shared, program
<1>3. CASE \E c \in Blocks : Free(t, c)
  <2>1. PICK c \in Blocks : Free(t, c)
    BY <1>3
  <2>2. CASE c = b
    <3>1. thread'[t] = [Idle EXCEPT !.pc = "recycle", !.addr = b, !.size = FreedSize[heap[b]]]
      BY <2>1, <2>2 DEF Free, TypeOK
    <3>2. thread'[t].pc = "recycle" /\ thread'[t].addr = b
      BY <3>1 DEF Idle
    <3> QED BY <3>2 DEF Moving
  <2>3. CASE c # b
    <3>1. holders'[b] = holders[b] /\ heap' = heap /\ recycle_pool' = recycle_pool
      BY <2>1, <2>3 DEF Free, TypeOK, shared
    <3>2. t \notin Moving(b)
      BY <2>1 DEF Free, Moving
    <3> QED BY <1>a, <1>b, <3>1, <3>2, Undisturbed
  <2> QED BY <2>2, <2>3
<1>4. CASE CompareExchange(t)
  <2> DEFINE me == thread[t]
             taken == [addr |-> me.addr, size |-> me.size, in_use |-> TRUE]
  <2>0. me.pc = "cas" /\ me.cur \in Slots /\ me.addr \in Blocks \union {Null} /\ heap' = heap
    BY <1>4, <1>c DEF CompareExchange, Locals
  <2>1. t \notin Moving(b)
    BY <2>0 DEF Moving
  <2>2. CASE recycle_pool[me.cur] = me.match
    <3>1. recycle_pool' = [recycle_pool EXCEPT ![me.cur] = taken] /\ Hand(me.addr, me.size)
      BY <1>4, <2>2 DEF CompareExchange
    <3>2. taken \in Entries
      BY <1>c DEF Locals, Entries
    <3>3. recycle_pool[me.cur].addr = me.addr
      BY <2>0, <2>2 DEF Matched
    <3>4. CASE me.addr = b
      BY <2>0, <3>1, <3>4, Handed
    <3>5. CASE me.addr # b
      <4>1. me.cur \notin Pooled(b)
        BY <3>3, <3>5 DEF Pooled
      <4>2. Pooled(b) # {} => Pooled(b)' # {}
        BY <2>0, <3>1, <3>2, <4>1, OtherEntries
      <4>3. holders'[b] = holders[b]
        BY <2>0, <3>1, <3>5, Handed
      <4> QED BY <1>a, <1>b, <2>0, <2>1, <4>2, <4>3, Undisturbed
    <3> QED BY <3>4, <3>5
  <2>3. CASE recycle_pool[me.cur] # me.match
    BY <1>1, <1>4, <2>0, <2>3 DEF CompareExchange
  <2> QED BY <2>2, <2>3
<1>5. CASE Fresh(t)
  <2>0. thread[t].pc = "fresh" /\ recycle_pool' = recycle_pool
    BY <1>5 DEF Fresh, shared
  <2>1. CASE UNCHANGED program
    BY <1>1, <2>0, <2>1 DEF program
  <2>2. CASE ~UNCHANGED program
    <3>1. PICK c \in Blocks : /\ heap' = [heap EXCEPT ![c] = thread[t].size]
                              /\ Hand(c, thread[t].size)
      BY <1>5, <2>2 DEF Fresh
    <3>2. CASE c = b
      BY <3>1, <3>2, Handed
    <3>3. CASE c # b
      <4>1. holders'[b] = holders[b] /\ heap'[b] = heap[b]
        BY <3>1, <3>3, Handed DEF TypeOK
      <4>2. t \notin Moving(b)
        BY <2>0 DEF Moving
      <4> QED BY <1>a, <1>b, <2>0, <4>1, <4>2, Undisturbed
    <3> QED BY <3>2, <3>3
  <2> QED BY <2>1, <2>2
<1>6. CASE FetchAdd(t)
  <2>0. UNCHANGED <<recycle_pool, heap, holders>>
    BY <1>6 DEF FetchAdd, program
  <2>1. CASE thread[t].addr = b
    <3>1. thread'[t] = [thread[t] EXCEPT !.pc = "exchange", !.cur = pool_ptr]
      BY <1>6 DEF FetchAdd, TypeOK
    <3>2. thread'[t].pc = "exchange" /\ thread'[t].addr = b
      BY <1>c, <2>1, <3>1 DEF Locals
    <3> QED BY <3>2 DEF Moving
  <2>2. CASE thread[t].addr # b
    <3>1. t \notin Moving(b)
      BY <2>2 DEF Moving
    <3> QED BY <1>a, <1>b, <2>0, <3>1, Undisturbed
  <2> QED BY <2>1, <2>2
<1>7. CASE Exchange(t)
  <2> DEFINE me == thread[t]
             old == recycle_pool[me.cur]
             new == [addr |-> me.addr, size |-> me.size, in_use |-> FALSE]
  <2>0. me.cur \in Slots /\ UNCHANGED <<heap, holders>>
    BY <1>7, <1>c DEF Exchange, program, Locals
  <2>1. recycle_pool' = [recycle_pool EXCEPT ![me.cur] = new] /\ new \in Entries
    BY <1>7, <1>c DEF Exchange, Locals, Entries
  <2>2. CASE me.addr = b
    <3>1. recycle_pool'[me.cur] = new
      BY <2>0, <2>1 DEF TypeOK
    <3>2. recycle_pool'[me.cur].addr = b /\ ~recycle_pool'[me.cur].in_use
      BY <2>2, <3>1
    <3> QED BY <2>0, <3>2 DEF Pooled
  <2>3. CASE me.addr # b
    <3>1. t \notin Moving(b)
      BY <2>3 DEF Moving
    <3>2. CASE me.cur \in Pooled(b)
      <4>1. old.addr = b /\ ~old.in_use
        BY <3>2 DEF Pooled
      <4>2. Released(old)
        BY <4>1, PoolAssumption DEF Released
      <4>3. thread'[t] = [Idle EXCEPT !.pc = "release", !.addr = old.addr]
        BY <1>7, <4>2 DEF Exchange, TypeOK
      <4>4. thread'[t].pc = "release" /\ thread'[t].addr = b
        BY <4>1, <4>3 DEF Idle
      <4> QED BY <4>4 DEF Moving
    <3>3. CASE me.cur \notin Pooled(b)
      <4>1. Pooled(b) # {} => Pooled(b)' # {}
        BY <2>0, <2>1, <3>3, OtherEntries
      <4> QED BY <1>a, <1>b, <2>0, <3>1, <4>1, Undisturbed
    <3> QED BY <3>2, <3>3
  <2> QED BY <2>2, <2>3
<1>8. CASE Release(t)
  <2>0. heap' = [heap EXCEPT ![thread[t].addr] = Null] /\ UNCHANGED <<recycle_pool, holders>>
    BY <1>8 DEF Release, shared
  <2>1. thread[t].addr # b
    BY <2>0 DEF TypeOK
  <2>2. heap'[b] = heap[b]
    BY <2>0, <2>1 DEF TypeOK
  <2>3. t \notin Moving(b)
    BY <2>1 DEF Moving
  <2> QED BY <1>a, <1>b, <2>0, <2>2, <2>3, Undisturbed
<1> QED BY <1>2, <1>3, <1>4, <1>5, <1>6, <1>7, <1>8 DEF Progress

(* No block that glibc handed out is forgotten, whichever way threads lose     *)
(* exchanges to each other.                                                    *)
THEOREM NothingForgotten == Spec => []NoLeak
<1>1. Init => LeakInv
  <2>1. Init => TypeOK
    BY InitTypeOK
  <2>2. Init => Matched /\ NoLeak
    BY DEF Init, Matched, NoLeak, Idle
  <2> QED BY <2>1, <2>2 DEF LeakInv
<1>2. LeakInv /\ [Next]_vars => LeakInv'
  BY StepTypeOK, StepMatched, StepNoLeak DEF LeakInv
<1>3. LeakInv => NoLeak
  BY DEF LeakInv
<1> QED BY <1>1, <1>2, <1>3, PTL DEF Spec

-----------------------------------------------------------------------------
(* One owner of every block.  What free finds in a chunk is the size malloc    *)
(* was asked for: a size of the model stands for a size and an alignment, and  *)
(* its layout is one that glibc may choose.                                    *)
LayoutsPossible ==
  \A n \in Sizes :
    /\ Possible(Layout[n].size, Layout[n].len, Layout[n].padding, Layout[n].alignment)
    /\ Layout[n].alignment = 0 \/ Layout[n].alignment > MinAlignment

RequestsDiffer ==
  \A m, n \in Sizes :
    Layout[m].len = Layout[n].len /\ Layout[m].alignment = Layout[n].alignment => m = n

LEMMA FreedAsAsked ==
  ASSUME LayoutsPossible, RequestsDiffer, NEW n \in Sizes
  PROVE  FreedSize[n] = n
<1> DEFINE same == {m \in Sizes : n # Null /\ Noted(n) =
                      [size |-> Layout[m].len, alignment |-> Layout[m].alignment]}
           l    == Layout[n]
<1>1. l \in [len : Nat, alignment : Nat, size : Nat, padding : Nat]
  BY PoolAssumption
<1>2. Noted(n) = Request(l.len, l.alignment)
  BY <1>1, FetchesRequest DEF Noted, LayoutsPossible
<1>3. Request(l.len, l.alignment) = [size |-> l.len, alignment |-> l.alignment]
  BY <1>1 DEF Request, LayoutsPossible, MinAlignment
<1>4. \A m \in Sizes :
        Noted(n) = [size |-> Layout[m].len, alignment |-> Layout[m].alignment] => m = n
  <2> SUFFICES ASSUME NEW m \in Sizes,
                      Noted(n) = [size |-> Layout[m].len, alignment |-> Layout[m].alignment]
               PROVE  m = n
    OBVIOUS
  <2>1. Layout[m].len = l.len /\ Layout[m].alignment = l.alignment
    BY <1>2, <1>3
  <2> QED BY <2>1 DEF RequestsDiffer
<1>5. n \in same /\ \A m \in same : m = n
  BY <1>2, <1>3, <1>4, PoolAssumption
<1>6. FreedSize[n] = IF same = {} THEN Null ELSE CHOOSE m \in same : TRUE
  BY DEF FreedSize
<1>7. (CHOOSE m \in same : TRUE) \in same
  BY <1>5
<1> QED BY <1>5, <1>6, <1>7

(* A block is owned by the program, by one entry of the pool, or by the thread *)
(* that moves it; and its owner knows the size that glibc made it for.         *)
BlockInv(b) ==
  /\ holders[b] <= 1
  /\ InHand(b) => Pooled(b) = {} /\ Moving(b) = {}
  /\ Pooled(b) = {} \/ Moving(b) = {}
  /\ \A i, j \in Pooled(b) : i = j
  /\ \A s, u \in Moving(b) : s = u
  /\ InHand(b) => heap[b] # Null /\ heap[b] = wanted[b]
  /\ \A i \in Pooled(b) : heap[b] # Null /\ recycle_pool[i].size = heap[b]
  /\ \A s \in Moving(b) :
       heap[b] # Null /\ (thread[s].pc # "release" => thread[s].size = heap[b])

(* An entry without a block matches no request.                                *)
EmptyEntries ==
  \A i \in Slots :
    recycle_pool[i].addr = Null /\ ~recycle_pool[i].in_use => recycle_pool[i].size = Null

(* A thread looks for an entry that is free and of the size it was asked for.  *)
ThreadInv(t) ==
  /\ thread[t].pc \in {"reuse", "scan", "cas", "fresh"} => thread[t].size \in Sizes
  /\ thread[t].pc \in {"scan", "cas"} =>
       thread[t].match.size = thread[t].size /\ ~thread[t].match.in_use
  /\ thread[t].pc \in {"recycle", "exchange", "release"} => thread[t].addr \in Blocks

OwnInv ==
  /\ \A b \in Blocks : BlockInv(b)
  /\ EmptyEntries
  /\ \A t \in Threads : ThreadInv(t)

(* A block about which nothing changes has the owner it had.                   *)
LEMMA BlockKept ==
  ASSUME NEW b \in Blocks, BlockInv(b),
         holders'[b] = holders[b], heap'[b] = heap[b], wanted'[b] = wanted[b],
         Pooled(b)' = Pooled(b), \A i \in Pooled(b) : recycle_pool'[i] = recycle_pool[i],
         Moving(b)' = Moving(b),
         \A s \in Moving(b) : /\ thread'[s].size = thread[s].size
                              /\ thread[s].pc = "release" => thread'[s].pc = "release"
  PROVE  BlockInv(b)'
BY DEF BlockInv, InHand

LEMMA MovingKept ==
  ASSUME NEW t \in Threads, NEW b \in Blocks,
         \A s \in Threads \ {t} : thread'[s] = thread[s],
         t \notin Moving(b), t \notin Moving(b)'
  PROVE  Moving(b)' = Moving(b) /\ \A s \in Moving(b) : thread'[s] = thread[s]
BY DEF Moving

(* A thread that moves a block is the only one, and nobody else has the block. *)
LEMMA OnlyMover ==
  ASSUME NEW b \in Blocks, BlockInv(b), TypeOK, NEW t \in Threads, t \in Moving(b)
  PROVE  /\ Moving(b) = {t} /\ Pooled(b) = {} /\ holders[b] = 0 /\ heap[b] # Null
         /\ thread[t].pc # "release" => thread[t].size = heap[b]
<1>1. holders[b] \in Nat
  BY DEF TypeOK
<1> QED BY <1>1 DEF BlockInv, InHand

(* malloc's way through the ring changes no block.                             *)
LEMMA LookingOwn ==
  ASSUME TypeOK, OwnInv, NEW t \in Threads,
         (\E n \in Sizes : Malloc(t, n)) \/ ReuseStart(t) \/ Scan(t)
  PROVE  OwnInv'
<1>0. /\ UNCHANGED <<recycle_pool, heap, holders, wanted>>
      /\ \A s \in Threads \ {t} : thread'[s] = thread[s]
      /\ thread[t].pc \in {"idle", "reuse", "scan"}
  BY DEF Malloc, ReuseStart, Scan, shared, program, TypeOK
<1>1. thread[t] \in Locals /\ Idle \in Locals /\ ThreadInv(t)
  BY IdleType DEF TypeOK, OwnInv
<1>2. /\ thread'[t].pc \in {"reuse", "scan", "cas", "fresh"} /\ thread'[t].size \in Sizes
      /\ thread'[t].pc \in {"scan", "cas"} =>
           thread'[t].match.size = thread'[t].size /\ ~thread'[t].match.in_use
  <2>1. CASE \E n \in Sizes : Malloc(t, n)
    <3>1. PICK n \in Sizes : Malloc(t, n)
      BY <2>1
    <3>2. thread'[t] = [Idle EXCEPT !.pc = "reuse", !.size = n]
      BY <3>1 DEF Malloc, TypeOK
    <3> QED BY <3>2 DEF Idle
  <2>2. CASE ReuseStart(t)
    <3>1. thread'[t] = [thread[t] EXCEPT !.pc = "scan", !.start = pool_ptr,
             !.cur = PrevSlot(pool_ptr),
             !.match = [addr |-> Null, size |-> thread[t].size, in_use |-> FALSE]]
      BY <2>2 DEF ReuseStart, TypeOK
    <3>2. thread[t].size \in Sizes
      BY <1>1, <2>2 DEF ReuseStart, ThreadInv
    <3> QED BY <1>1, <3>1, <3>2 DEF Locals
  <2>3. CASE Scan(t)
    <3> DEFINE me == thread[t]
               info == recycle_pool[me.cur]
    <3>1. /\ me.size \in Sizes /\ me.match.size = me.size /\ ~me.match.in_use
          /\ me.match \in Entries
      BY <1>1, <2>3 DEF Scan, ThreadInv, Locals
    <3>2. \/ thread'[t] = [me EXCEPT !.pc = "cas", !.addr = info.addr, !.match.addr = info.addr]
          \/ thread'[t] = [Idle EXCEPT !.pc = "fresh", !.size = me.size]
          \/ thread'[t] = [me EXCEPT !.cur = PrevSlot(me.cur)]
      BY <2>3 DEF Scan, TypeOK
    <3>3. CASE thread'[t] = [me EXCEPT !.pc = "cas", !.addr = info.addr, !.match.addr = info.addr]
      BY <1>1, <3>1, <3>3 DEF Locals, Entries
    <3>4. CASE thread'[t] = [Idle EXCEPT !.pc = "fresh", !.size = me.size]
      BY <3>1, <3>4 DEF Idle
    <3>5. CASE thread'[t] = [me EXCEPT !.cur = PrevSlot(me.cur)]
      BY <1>1, <2>3, <3>1, <3>5 DEF Locals, Scan
    <3> QED BY <3>2, <3>3, <3>4, <3>5
  <2> QED BY <2>1, <2>2, <2>3
<1>3. \A s \in Threads : ThreadInv(s)'
  <2> SUFFICES ASSUME NEW s \in Threads PROVE ThreadInv(s)'
    OBVIOUS
  <2>1. CASE s = t
    BY <1>2, <2>1 DEF ThreadInv
  <2>2. CASE s # t
    BY <1>0, <2>2 DEF ThreadInv, OwnInv
  <2> QED BY <2>1, <2>2
<1>4. \A b \in Blocks : BlockInv(b)'
  <2> SUFFICES ASSUME NEW b \in Blocks PROVE BlockInv(b)'
    OBVIOUS
  <2>1. t \notin Moving(b) /\ t \notin Moving(b)'
    BY <1>0, <1>2 DEF Moving
  <2>2. Moving(b)' = Moving(b) /\ \A s \in Moving(b) : thread'[s] = thread[s]
    BY <1>0, <2>1, MovingKept
  <2>3. Pooled(b)' = Pooled(b)
    BY <1>0 DEF Pooled
  <2>4. BlockInv(b)
    BY DEF OwnInv
  <2> QED BY <1>0, <2>2, <2>3, <2>4, BlockKept
<1>5. EmptyEntries'
  BY <1>0 DEF EmptyEntries, OwnInv
<1> QED BY <1>3, <1>4, <1>5 DEF OwnInv

(* The entry that is taken was the block's only place.                         *)
LEMMA TakingOwn ==
  ASSUME TypeOK, Matched, OwnInv, NEW t \in Threads, CompareExchange(t), ~lost'
  PROVE  OwnInv'
<1>p. PICK a, i : a = thread[t].addr /\ i = thread[t].cur
  OBVIOUS
<1> DEFINE me == thread[t]
           taken == [addr |-> a, size |-> me.size, in_use |-> TRUE]
<1>0. /\ recycle_pool[i] = me.match /\ recycle_pool' = [recycle_pool EXCEPT ![i] = taken]
      /\ Hand(a, me.size) /\ thread' = [thread EXCEPT ![t] = Idle] /\ heap' = heap
      /\ me.pc = "cas"
  BY <1>p DEF CompareExchange
<1>1. /\ me \in Locals /\ ThreadInv(t) /\ i \in Slots
      /\ \A s \in Threads \ {t} : thread'[s] = thread[s]
      /\ thread'[t].pc = "idle"
  BY <1>0, <1>p DEF TypeOK, OwnInv, Locals, Idle
<1>2. me.size \in Sizes /\ me.match.size = me.size /\ ~me.match.in_use /\ me.match.addr = a
  BY <1>0, <1>1, <1>p DEF ThreadInv, Matched
<1>3. a # Null
  BY <1>0, <1>1, <1>2, PoolAssumption DEF OwnInv, EmptyEntries
<1>4. a \in Blocks /\ i \in Pooled(a)
  BY <1>0, <1>1, <1>2, <1>3, <1>p DEF Locals, Pooled
<1>5. BlockInv(a) /\ holders[a] \in Nat
  BY <1>4 DEF OwnInv, TypeOK
<1>6. /\ holders[a] = 0 /\ Pooled(a) = {i} /\ Moving(a) = {}
      /\ heap[a] # Null /\ me.size = heap[a]
  BY <1>0, <1>2, <1>4, <1>5 DEF BlockInv, InHand
<1>7. /\ holders' = [holders EXCEPT ![a] = @ + 1]
      /\ wanted' = [wanted EXCEPT ![a] = me.size]
  BY <1>0 DEF Hand
<1>8. \A j \in Slots \ {i} : recycle_pool'[j] = recycle_pool[j]
  BY <1>0 DEF TypeOK
<1>9. recycle_pool'[i] = taken
  BY <1>0, <1>1 DEF TypeOK
<1>a. \A b \in Blocks : Moving(b)' = Moving(b) /\ \A s \in Moving(b) : thread'[s] = thread[s]
  <2> SUFFICES ASSUME NEW b \in Blocks
               PROVE  Moving(b)' = Moving(b) /\ \A s \in Moving(b) : thread'[s] = thread[s]
    OBVIOUS
  <2>1. t \notin Moving(b) /\ t \notin Moving(b)'
    BY <1>0, <1>1 DEF Moving
  <2> QED BY <1>1, <2>1, MovingKept
<1>b. BlockInv(a)'
  <2>1. holders'[a] = 1 /\ wanted'[a] = heap'[a] /\ heap'[a] # Null
    BY <1>0, <1>4, <1>6, <1>7 DEF TypeOK
  <2>2. Pooled(a)' = {}
    <3>1. i \notin Pooled(a)'
      BY <1>9 DEF Pooled
    <3>2. \A j \in Slots \ {i} : j \notin Pooled(a)'
      BY <1>6, <1>8 DEF Pooled
    <3> QED BY <3>1, <3>2 DEF Pooled
  <2>3. Moving(a)' = {}
    BY <1>4, <1>6, <1>a
  <2> QED BY <2>1, <2>2, <2>3 DEF BlockInv
<1>c. \A b \in Blocks \ {a} : BlockInv(b)'
  <2> SUFFICES ASSUME NEW b \in Blocks \ {a} PROVE BlockInv(b)'
    OBVIOUS
  <2>1. holders'[b] = holders[b] /\ wanted'[b] = wanted[b] /\ BlockInv(b)
    BY <1>7 DEF TypeOK, OwnInv
  <2>2. i \notin Pooled(b) /\ i \notin Pooled(b)'
    BY <1>0, <1>2, <1>9 DEF Pooled
  <2>3. Pooled(b)' = Pooled(b) /\ \A j \in Pooled(b) : recycle_pool'[j] = recycle_pool[j]
    BY <1>8, <2>2 DEF Pooled
  <2> QED BY <1>0, <1>a, <2>1, <2>3, BlockKept
<1>d. EmptyEntries'
  <2>1. recycle_pool'[i].in_use
    BY <1>9
  <2> QED BY <1>8, <2>1 DEF EmptyEntries, OwnInv
<1>e. \A s \in Threads : ThreadInv(s)'
  BY <1>1 DEF ThreadInv, OwnInv
<1> QED BY <1>b, <1>c, <1>d, <1>e DEF OwnInv

(* A block that glibc makes has no owner yet.                                  *)
LEMMA FreshOwn ==
  ASSUME TypeOK, OwnInv, NEW t \in Threads, Fresh(t)
  PROVE  OwnInv'
<1>0. /\ recycle_pool' = recycle_pool /\ thread' = [thread EXCEPT ![t] = Idle]
      /\ thread[t].pc = "fresh"
  BY DEF Fresh, shared
<1>1. /\ ThreadInv(t) /\ thread[t].size \in Sizes
      /\ \A s \in Threads \ {t} : thread'[s] = thread[s]
      /\ thread'[t].pc = "idle"
  BY <1>0 DEF TypeOK, OwnInv, ThreadInv, Idle
<1>2. \A b \in Blocks : Moving(b)' = Moving(b) /\ \A s \in Moving(b) : thread'[s] = thread[s]
  <2> SUFFICES ASSUME NEW b \in Blocks
               PROVE  Moving(b)' = Moving(b) /\ \A s \in Moving(b) : thread'[s] = thread[s]
    OBVIOUS
  <2>1. t \notin Moving(b) /\ t \notin Moving(b)'
    BY <1>0, <1>1 DEF Moving
  <2> QED BY <1>1, <2>1, MovingKept
<1>3. \A b \in Blocks : Pooled(b)' = Pooled(b)
  BY <1>0 DEF Pooled
<1>4. \A b \in Blocks :
        holders'[b] = holders[b] /\ heap'[b] = heap[b] /\ wanted'[b] = wanted[b] => BlockInv(b)'
  BY <1>0, <1>2, <1>3, BlockKept DEF OwnInv
<1>5. \A b \in Blocks : BlockInv(b)'
  <2>1. CASE UNCHANGED program
    BY <1>4, <2>1 DEF program
  <2>2. CASE ~UNCHANGED program
    <3>1. PICK c \in Blocks : /\ heap[c] = Null
                              /\ heap' = [heap EXCEPT ![c] = thread[t].size]
                              /\ Hand(c, thread[t].size)
      BY <2>2 DEF Fresh
    <3>2. /\ holders' = [holders EXCEPT ![c] = @ + 1]
          /\ wanted' = [wanted EXCEPT ![c] = thread[t].size]
      BY <3>1 DEF Hand
    <3>3. \A b \in Blocks \ {c} : BlockInv(b)'
      BY <1>4, <3>1, <3>2 DEF TypeOK
    <3>4. holders[c] = 0 /\ Pooled(c) = {} /\ Moving(c) = {}
      BY <3>1 DEF OwnInv, BlockInv, TypeOK, InHand
    <3>5. holders'[c] = 1 /\ heap'[c] = thread[t].size /\ wanted'[c] = thread[t].size
      BY <3>1, <3>2, <3>4 DEF TypeOK
    <3>6. Pooled(c)' = {} /\ Moving(c)' = {}
      BY <1>2, <1>3, <3>4
    <3>7. thread[t].size # Null
      BY <1>1, PoolAssumption
    <3>8. BlockInv(c)'
      BY <3>5, <3>6, <3>7 DEF BlockInv
    <3> QED BY <3>3, <3>8
  <2> QED BY <2>1, <2>2
<1>6. EmptyEntries'
  BY <1>0 DEF EmptyEntries, OwnInv
<1>7. \A s \in Threads : ThreadInv(s)'
  BY <1>1 DEF ThreadInv, OwnInv
<1> QED BY <1>5, <1>6, <1>7 DEF OwnInv

(* free moves the one pointer to the block, with the size it was made for.     *)
LEMMA FreeOwn ==
  ASSUME TypeOK, OwnInv, \A n \in Sizes : FreedSize[n] = n,
         NEW t \in Threads, NEW c \in Blocks, Free(t, c)
  PROVE  OwnInv'
<1>0. /\ UNCHANGED <<recycle_pool, heap>> /\ thread[t].pc = "idle" /\ InHand(c)
      /\ \A s \in Threads \ {t} : thread'[s] = thread[s]
      /\ thread'[t] = [Idle EXCEPT !.pc = "recycle", !.addr = c, !.size = FreedSize[heap[c]]]
      /\ \A b \in Blocks \ {c} : holders'[b] = holders[b] /\ wanted'[b] = wanted[b]
      /\ holders' = [holders EXCEPT ![c] = @ - 1]
  BY DEF Free, shared, TypeOK
<1>1. BlockInv(c) /\ holders[c] \in Nat /\ heap[c] \in Sizes \union {Null}
  BY DEF OwnInv, TypeOK
<1>2. /\ holders[c] = 1 /\ Pooled(c) = {} /\ Moving(c) = {} /\ heap[c] # Null
  BY <1>0, <1>1 DEF BlockInv, InHand
<1>3. FreedSize[heap[c]] = heap[c]
  BY <1>1, <1>2
<1>4. thread'[t].pc = "recycle" /\ thread'[t].addr = c /\ thread'[t].size = heap[c]
  BY <1>0, <1>3 DEF Idle
<1>5. \A b \in Blocks : Pooled(b)' = Pooled(b)
  BY <1>0 DEF Pooled
<1>6. \A b \in Blocks \ {c} : BlockInv(b)'
  <2> SUFFICES ASSUME NEW b \in Blocks \ {c} PROVE BlockInv(b)'
    OBVIOUS
  <2>1. t \notin Moving(b) /\ t \notin Moving(b)'
    BY <1>0, <1>4 DEF Moving
  <2>2. Moving(b)' = Moving(b) /\ \A s \in Moving(b) : thread'[s] = thread[s]
    BY <1>0, <2>1, MovingKept
  <2>3. BlockInv(b)
    BY DEF OwnInv
  <2> QED BY <1>0, <1>5, <2>2, <2>3, BlockKept
<1>7. BlockInv(c)'
  <2>1. Moving(c)' = {t}
    <3>1. t \in Moving(c)'
      BY <1>4 DEF Moving
    <3>2. \A s \in Threads \ {t} : s \notin Moving(c)'
      BY <1>0, <1>2 DEF Moving
    <3>3. Moving(c)' \subseteq Threads
      BY DEF Moving
    <3> QED BY <3>1, <3>2, <3>3
  <2>2. holders'[c] = 0
    BY <1>0, <1>2 DEF TypeOK
  <2>3. Pooled(c)' = {} /\ heap'[c] = heap[c]
    BY <1>0, <1>2, <1>5
  <2> QED BY <1>2, <1>4, <2>1, <2>2, <2>3 DEF BlockInv, InHand
<1>8. EmptyEntries'
  BY <1>0 DEF EmptyEntries, OwnInv
<1>9. \A s \in Threads : ThreadInv(s)'
  <2>1. ThreadInv(t)'
    BY <1>4 DEF ThreadInv
  <2>2. ASSUME NEW s \in Threads \ {t} PROVE ThreadInv(s)'
    BY <1>0 DEF ThreadInv, OwnInv
  <2> QED BY <2>1, <2>2
<1> QED BY <1>6, <1>7, <1>8, <1>9 DEF OwnInv

LEMMA FetchAddOwn ==
  ASSUME TypeOK, OwnInv, NEW t \in Threads, FetchAdd(t)
  PROVE  OwnInv'
<1>0. /\ UNCHANGED <<recycle_pool, heap, holders, wanted>> /\ thread[t].pc = "recycle"
      /\ \A s \in Threads \ {t} : thread'[s] = thread[s]
      /\ thread'[t] = [thread[t] EXCEPT !.pc = "exchange", !.cur = pool_ptr]
  BY DEF FetchAdd, program, TypeOK
<1>1. /\ thread'[t].pc = "exchange" /\ thread'[t].addr = thread[t].addr
      /\ thread'[t].size = thread[t].size
  BY <1>0 DEF TypeOK, Locals
<1>2. \A b \in Blocks : BlockInv(b)'
  <2> SUFFICES ASSUME NEW b \in Blocks PROVE BlockInv(b)'
    OBVIOUS
  <2>1. Moving(b)' = Moving(b)
    <3>1. t \in Moving(b)' <=> t \in Moving(b)
      BY <1>0, <1>1 DEF Moving
    <3>2. \A s \in Threads \ {t} : s \in Moving(b)' <=> s \in Moving(b)
      BY <1>0 DEF Moving
    <3>3. Moving(b) \subseteq Threads /\ Moving(b)' \subseteq Threads
      BY DEF Moving
    <3> QED BY <3>1, <3>2, <3>3
  <2>2. Pooled(b)' = Pooled(b)
    BY <1>0 DEF Pooled
  <2>3. \A s \in Moving(b) : /\ thread'[s].size = thread[s].size
                             /\ thread[s].pc = "release" => thread'[s].pc = "release"
    BY <1>0, <1>1 DEF Moving
  <2>4. BlockInv(b)
    BY DEF OwnInv
  <2> QED BY <1>0, <2>1, <2>2, <2>3, <2>4, BlockKept
<1>3. EmptyEntries'
  BY <1>0 DEF EmptyEntries, OwnInv
<1>4. \A s \in Threads : ThreadInv(s)'
  BY <1>0, <1>1 DEF ThreadInv, OwnInv
<1> QED BY <1>2, <1>3, <1>4 DEF OwnInv

(* The block that moves in has no other place; the one it replaces, if it was  *)
(* free, moves out.                                                            *)
LEMMA ExchangeOwn ==
  ASSUME TypeOK, OwnInv, NEW t \in Threads, Exchange(t)
  PROVE  OwnInv'
<1>p. PICK a, i, old : a = thread[t].addr /\ i = thread[t].cur /\ old = recycle_pool[i]
  OBVIOUS
<1> DEFINE new == [addr |-> a, size |-> thread[t].size, in_use |-> FALSE]
<1>0. /\ UNCHANGED <<heap, holders, wanted>> /\ thread[t].pc = "exchange"
      /\ \A s \in Threads \ {t} : thread'[s] = thread[s]
      /\ recycle_pool' = [recycle_pool EXCEPT ![i] = new]
      /\ thread'[t] = IF Released(old) THEN [Idle EXCEPT !.pc = "release", !.addr = old.addr]
                      ELSE Idle
  BY <1>p DEF Exchange, program, TypeOK
<1>1. thread[t] \in Locals /\ ThreadInv(t)
  BY DEF TypeOK, OwnInv
<1>2. i \in Slots /\ a \in Blocks /\ t \in Moving(a) /\ old \in Entries
  <2>1. i \in Slots /\ a \in Blocks
    BY <1>0, <1>1, <1>p DEF Locals, ThreadInv
  <2>2. t \in Moving(a)
    BY <1>0, <1>p DEF Moving
  <2>3. old \in Entries
    BY <1>p, <2>1 DEF TypeOK
  <2> QED BY <2>1, <2>2, <2>3
<1>3. /\ Moving(a) = {t} /\ Pooled(a) = {} /\ holders[a] = 0 /\ heap[a] # Null
      /\ thread[t].size = heap[a]
  <2>1. BlockInv(a)
    BY <1>2 DEF OwnInv
  <2> QED BY <1>0, <1>2, <2>1, OnlyMover
<1>4. recycle_pool'[i] = new /\ \A j \in Slots \ {i} : recycle_pool'[j] = recycle_pool[j]
  BY <1>0, <1>2 DEF TypeOK
<1>5. \A b \in Blocks : i \in Pooled(b) <=> old.addr = b /\ Released(old)
  BY <1>2, <1>p, PoolAssumption DEF Pooled, Released
<1>6. \A b \in Blocks : t \in Moving(b)' <=> old.addr = b /\ Released(old)
  <2> SUFFICES ASSUME NEW b \in Blocks
               PROVE  t \in Moving(b)' <=> old.addr = b /\ Released(old)
    OBVIOUS
  <2>1. CASE Released(old)
    BY <1>0, <2>1 DEF Moving, Idle
  <2>2. CASE ~Released(old)
    BY <1>0, <2>2 DEF Moving, Idle
  <2> QED BY <2>1, <2>2
<1>7. \A b \in Blocks : i \in Pooled(b)' <=> b = a
  BY <1>2, <1>4 DEF Pooled
<1>8. \A b \in Blocks, j \in Slots \ {i} : j \in Pooled(b)' <=> j \in Pooled(b)
  BY <1>4 DEF Pooled
<1>9. \A b \in Blocks, s \in Threads \ {t} : s \in Moving(b)' <=> s \in Moving(b)
  BY <1>0 DEF Moving
<1>a. \A b \in Blocks : /\ Pooled(b) \subseteq Slots /\ Pooled(b)' \subseteq Slots
                        /\ Moving(b) \subseteq Threads /\ Moving(b)' \subseteq Threads
  BY DEF Pooled, Moving
<1>b. BlockInv(a)'
  <2>1. ~(old.addr = a /\ Released(old))
    BY <1>2, <1>3, <1>5
  <2>2. Moving(a)' = {}
    BY <1>2, <1>3, <1>6, <1>9, <1>a, <2>1
  <2>3. Pooled(a)' = {i}
    BY <1>2, <1>3, <1>7, <1>8, <1>a
  <2>4. recycle_pool'[i].size = heap'[a] /\ heap'[a] # Null /\ holders'[a] = 0
    BY <1>0, <1>3, <1>4
  <2> QED BY <2>2, <2>3, <2>4 DEF BlockInv, InHand
<1>c. \A b \in Blocks \ {a} : BlockInv(b)'
  <2> SUFFICES ASSUME NEW b \in Blocks \ {a} PROVE BlockInv(b)'
    OBVIOUS
  <2>1. BlockInv(b) /\ t \notin Moving(b) /\ holders[b] \in Nat
    BY <1>p DEF OwnInv, Moving, TypeOK
  <2>2. CASE old.addr = b /\ Released(old)
    <3>1. i \in Pooled(b)
      BY <1>5, <2>2
    <3>2. /\ Pooled(b) = {i} /\ Moving(b) = {} /\ holders[b] = 0 /\ heap[b] # Null
      BY <2>1, <3>1 DEF BlockInv, InHand
    <3>3. Pooled(b)' = {}
      BY <1>7, <1>8, <1>a, <3>2
    <3>4. Moving(b)' = {t}
      BY <1>6, <1>9, <1>a, <2>2, <3>2
    <3>5. thread'[t].pc = "release"
      BY <1>0, <2>2 DEF Idle
    <3>6. holders'[b] = 0 /\ heap'[b] # Null
      BY <1>0, <3>2
    <3> QED BY <3>3, <3>4, <3>5, <3>6 DEF BlockInv, InHand
  <2>3. CASE ~(old.addr = b /\ Released(old))
    <3>1. t \notin Moving(b)'
      BY <1>6, <2>3
    <3>2. Moving(b)' = Moving(b) /\ \A s \in Moving(b) : thread'[s] = thread[s]
      BY <1>0, <2>1, <3>1, MovingKept
    <3>3. i \notin Pooled(b) /\ i \notin Pooled(b)'
      BY <1>5, <1>7, <2>3
    <3>4. Pooled(b)' = Pooled(b)
      BY <1>8, <1>a, <3>3
    <3>5. \A j \in Pooled(b) : recycle_pool'[j] = recycle_pool[j]
      BY <1>4, <1>a, <3>3
    <3> QED BY <1>0, <2>1, <3>2, <3>4, <3>5, BlockKept
  <2> QED BY <2>2, <2>3
<1>d. EmptyEntries'
  <2>1. recycle_pool'[i].addr # Null
    BY <1>2, <1>4, PoolAssumption
  <2> QED BY <1>4, <2>1 DEF EmptyEntries, OwnInv
<1>e. \A s \in Threads : ThreadInv(s)'
  <2> SUFFICES ASSUME NEW s \in Threads PROVE ThreadInv(s)'
    OBVIOUS
  <2>1. CASE s # t
    BY <1>0, <2>1 DEF ThreadInv, OwnInv
  <2>2. CASE s = t /\ Released(old)
    <3>1. thread'[t].pc = "release" /\ thread'[t].addr = old.addr
      BY <1>0, <2>2 DEF Idle
    <3>2. old.addr \in Blocks
      BY <1>2, <2>2 DEF Released, Entries
    <3> QED BY <2>2, <3>1, <3>2 DEF ThreadInv
  <2>3. CASE s = t /\ ~Released(old)
    BY <1>0, <2>3 DEF ThreadInv, Idle
  <2> QED BY <2>1, <2>2, <2>3
<1> QED BY <1>b, <1>c, <1>d, <1>e DEF OwnInv

(* A block goes back to glibc when nobody has it any more.                     *)
LEMMA ReleaseOwn ==
  ASSUME TypeOK, OwnInv, NEW t \in Threads, Release(t)
  PROVE  OwnInv'
<1>p. PICK a : a = thread[t].addr
  OBVIOUS
<1>0. /\ UNCHANGED <<recycle_pool, holders, wanted>> /\ thread[t].pc = "release"
      /\ \A s \in Threads \ {t} : thread'[s] = thread[s]
      /\ thread'[t].pc = "idle" /\ heap' = [heap EXCEPT ![a] = Null]
  BY <1>p DEF Release, shared, TypeOK, Idle
<1>1. a \in Blocks /\ t \in Moving(a)
  BY <1>0, <1>p DEF OwnInv, ThreadInv, Moving
<1>2. Moving(a) = {t} /\ Pooled(a) = {} /\ holders[a] = 0
  <2>1. BlockInv(a)
    BY <1>1 DEF OwnInv
  <2> QED BY <1>1, <2>1, OnlyMover
<1>3. \A b \in Blocks : Pooled(b)' = Pooled(b)
  BY <1>0 DEF Pooled
<1>4. \A b \in Blocks : t \notin Moving(b)'
  BY <1>0 DEF Moving
<1>5. BlockInv(a)'
  <2>1. \A s \in Threads \ {t} : s \in Moving(a)' <=> s \in Moving(a)
    BY <1>0 DEF Moving
  <2>2. Moving(a)' \subseteq Threads
    BY DEF Moving
  <2>3. Moving(a)' = {} /\ Pooled(a)' = {} /\ holders'[a] = 0
    BY <1>0, <1>1, <1>2, <1>3, <1>4, <2>1, <2>2
  <2> QED BY <2>3 DEF BlockInv, InHand
<1>6. \A b \in Blocks \ {a} : BlockInv(b)'
  <2> SUFFICES ASSUME NEW b \in Blocks \ {a} PROVE BlockInv(b)'
    OBVIOUS
  <2>1. t \notin Moving(b) /\ BlockInv(b) /\ heap'[b] = heap[b]
    BY <1>0, <1>p DEF Moving, OwnInv, TypeOK
  <2>2. Moving(b)' = Moving(b) /\ \A s \in Moving(b) : thread'[s] = thread[s]
    BY <1>0, <1>4, <2>1, MovingKept
  <2> QED BY <1>0, <1>3, <2>1, <2>2, BlockKept
<1>7. EmptyEntries'
  BY <1>0 DEF EmptyEntries, OwnInv
<1>8. \A s \in Threads : ThreadInv(s)'
  BY <1>0 DEF ThreadInv, OwnInv
<1> QED BY <1>5, <1>6, <1>7, <1>8 DEF OwnInv

LEMMA StepOwn ==
  ASSUME TypeOK, Matched, ~lost => OwnInv, \A n \in Sizes : FreedSize[n] = n, [Next]_vars
  PROVE  ~lost' => OwnInv'
<1>0. CASE UNCHANGED vars
  BY <1>0 DEF vars, shared, program, OwnInv, BlockInv, EmptyEntries, ThreadInv, InHand,
              Pooled, Moving
<1> SUFFICES ASSUME NEW t \in Threads,
                    \/ \E n \in Sizes : Malloc(t, n)
                    \/ \E b \in Blocks : Free(t, b)
                    \/ Progress(t),
                    ~lost'
             PROVE  OwnInv'
  BY <1>0 DEF Next
<1>1. OwnInv
  BY DEF Malloc, Free, Progress, ReuseStart, Scan, CompareExchange, Fresh, FetchAdd,
         Exchange, Release
<1> QED BY <1>1, LookingOwn, TakingOwn, FreshOwn, FreeOwn, FetchAddOwn, ExchangeOwn, ReleaseOwn
        DEF Progress

(* As long as no exchange fails, a block has one owner, who knows its size:    *)
(* nothing is handed out that somebody has, or that glibc took back, and what  *)
(* is handed out is of the size that was asked for.                            *)
THEOREM OneOwnerEach ==
  ASSUME LayoutsPossible, RequestsDiffer PROVE Spec => []OneOwner
<1> DEFINE Inv == TypeOK /\ Matched /\ (~lost => OwnInv)
<1>0. \A n \in Sizes : FreedSize[n] = n
  BY FreedAsAsked
<1>1. Init => Inv
  <2> SUFFICES ASSUME Init PROVE Inv
    OBVIOUS
  <2>1. Matched
    BY DEF Init, Matched, Idle
  <2>2. \A b \in Blocks : Pooled(b) = {} /\ Moving(b) = {} /\ holders[b] = 0
    BY PoolAssumption DEF Init, Pooled, Moving, Idle, NoEntry
  <2>3. OwnInv
    BY <2>2 DEF Init, OwnInv, BlockInv, InHand, EmptyEntries, ThreadInv, Idle, NoEntry
  <2> QED BY <2>1, <2>3, InitTypeOK
<1>2. Inv /\ [Next]_vars => Inv'
  BY <1>0, StepTypeOK, StepMatched, StepOwn
<1>3. Inv => OneOwner
  <2> SUFFICES ASSUME TypeOK, OwnInv, NEW b \in Blocks
               PROVE  /\ holders[b] + Cardinality(Pooled(b)) + Cardinality(Moving(b)) <= 1
                      /\ InHand(b) => heap[b] # Null /\ heap[b] = wanted[b]
                      /\ \A i \in Pooled(b) : recycle_pool[i].size = heap[b]
    BY DEF OneOwner
  <2>0. BlockInv(b) /\ holders[b] \in Nat
    BY DEF OwnInv, TypeOK
  <2>1. Pooled(b) = {} \/ \E i : Pooled(b) = {i}
    BY <2>0 DEF BlockInv
  <2>2. Moving(b) = {} \/ \E s : Moving(b) = {s}
    BY <2>0 DEF BlockInv
  <2>3. /\ Cardinality(Pooled(b)) \in {0, 1} /\ (Pooled(b) = {} => Cardinality(Pooled(b)) = 0)
        /\ Cardinality(Moving(b)) \in {0, 1} /\ (Moving(b) = {} => Cardinality(Moving(b)) = 0)
    BY <2>1, <2>2, FS_EmptySet, FS_Singleton
  <2>4. holders[b] + Cardinality(Pooled(b)) + Cardinality(Moving(b)) <= 1
    BY <2>0, <2>3 DEF BlockInv, InHand
  <2> QED BY <2>0, <2>4 DEF BlockInv
<1> QED BY <1>1, <1>2, <1>3, PTL DEF Spec
=============================================================================
