----------------------------- MODULE RecyclePool -----------------------------
(***************************************************************************)
(* The recycle pool of the intercepter (intercepter/src/mrecycle.c, called *)
(* by malloc and free of intercepter/src/mm.cpp): a ring of large blocks   *)
(* that are kept from glibc's free and handed out again.  Every step of a  *)
(* thread is one atomic operation on the pool; relaxed order is taken for  *)
(* sequential consistency.                                                 *)
(*                                                                         *)
(* A size stands for a size and an alignment above enter_pool_threshold,   *)
(* and a block for a mapped chunk: malloc and free pass everything else    *)
(* on to glibc and leave the pool alone.  Layout says what chunk glibc has *)
(* for a size, hence where the size is noted.                              *)
(***************************************************************************)
EXTENDS Integers, FiniteSets, Chunk

LOCAL INSTANCE Functions

CONSTANTS
  Threads,
  Blocks,       (* the addresses glibc hands out                           *)
  Sizes,
  Layout,       (* Layout[n]: what is asked for as n, and the chunk it is  *)
                (* given                                                   *)
  Bits,         (* RECYCLE_POOL_SIZE_BITS                                  *)
  MaxHeld,      (* bound: pointers the program holds at a time             *)
  Null

ASSUME PoolAssumption ==
  /\ Bits \in Nat \ {0} /\ 2 ^ Bits \in Nat \ {0}
  /\ MaxHeld \in Nat
  /\ Layout \in [Sizes -> [len : Nat, alignment : Nat, size : Nat, padding : Nat]]
  /\ Null \notin Blocks \union Sizes

VARIABLES
  recycle_pool, (* recycle_pool[slot]                                      *)
  pool_ptr,     (* the next slot recycle fills, wraps around               *)
  heap,         (* heap[b]: the size of a block that glibc has handed out  *)
  holders,      (* holders[b]: how many pointers to b the program holds    *)
  wanted,       (* wanted[b]: the size the last holder of b asked for, if  *)
                (* there is one                                            *)
  thread,       (* the locals of malloc, reuse, free and recycle           *)
  lost          (* a compare-and-exchange has failed, for the properties   *)

shared  == <<recycle_pool, pool_ptr>>
program == <<heap, holders, wanted>>
vars    == <<shared, program, thread, lost>>

-----------------------------------------------------------------------------

PoolSize == 2 ^ Bits
Slots    == 0 .. PoolSize - 1
Entries  == [addr : Blocks \union {Null}, size : Sizes \union {Null},
             in_use : BOOLEAN]
NoEntry  == [addr |-> Null, size |-> Null, in_use |-> FALSE]
Steps    == {"idle", "reuse", "scan", "cas", "fresh", "recycle", "exchange",
             "release"}
Locals   == [pc : Steps, size : Sizes \union {Null},
             start : Slots, cur : Slots, match : Entries,
             addr : Blocks \union {Null}]

TypeOK ==
  /\ recycle_pool \in [Slots -> Entries]
  /\ pool_ptr \in Slots
  /\ heap \in [Blocks -> Sizes \union {Null}]
  /\ holders \in [Blocks -> Nat]
  /\ wanted \in [Blocks -> Sizes \union {Null}]
  /\ thread \in [Threads -> Locals]
  /\ lost \in BOOLEAN

Idle == [pc |-> "idle", size |-> Null, start |-> 0, cur |-> 0,
         match |-> NoEntry, addr |-> Null]

Init ==
  /\ recycle_pool = [i \in Slots |-> NoEntry]
  /\ pool_ptr = 0
  /\ heap = [b \in Blocks |-> Null]
  /\ holders = [b \in Blocks |-> 0]
  /\ wanted = [b \in Blocks |-> Null]
  /\ thread = [t \in Threads |-> Idle]
  /\ lost = FALSE

(* Mutants: the ring is not wrapped at its first, or its last slot.        *)
Saturated(i) == IF i = 0 THEN 0 ELSE i - 1
Unwrapped(i) == i + 1

PrevSlot(i) == (i - 1) % PoolSize
NextSlot(i) == (i + 1) % PoolSize

-----------------------------------------------------------------------------
(* malloc, memalign, posix_memalign: reuse, or ask glibc.                  *)

InHand(b) == holders[b] > 0

(* The bound: pointers the program holds, or asks for.                     *)
Pointers ==
  SumFunction(holders)
    + Cardinality({t \in Threads :
                     thread[t].pc \in {"reuse", "scan", "cas", "fresh"}})

Malloc(t, n) ==
  /\ thread[t].pc = "idle"
  /\ Pointers < MaxHeld
  /\ thread' = [thread EXCEPT ![t] = [Idle EXCEPT !.pc = "reuse", !.size = n]]
  /\ UNCHANGED <<shared, program, lost>>

(* reuse loads the pointer of the ring; it looks at every slot but this    *)
(* one, the latest entry first.                                            *)
ReuseStart(t) ==
  /\ thread[t].pc = "reuse"
  /\ thread' = [thread EXCEPT
       ![t].pc = "scan", ![t].start = pool_ptr, ![t].cur = PrevSlot(pool_ptr),
       ![t].match = [addr |-> Null, size |-> thread[t].size, in_use |-> FALSE]]
  /\ UNCHANGED <<shared, program, lost>>

Matches(info, match) ==
  info.size = match.size /\ info.in_use = match.in_use

(* Load an entry: take it if it matches, give up at the first empty one or *)
(* when the ring has been walked through.                                  *)
Scan(t) ==
  /\ thread[t].pc = "scan"
  /\ LET me   == thread[t]
         info == recycle_pool[me.cur]
     IN thread' = [thread EXCEPT ![t] =
          IF me.cur # me.start /\ Matches(info, me.match)
          THEN [me EXCEPT !.pc = "cas", !.addr = info.addr,
                          !.match.addr = info.addr]
          ELSE IF me.cur = me.start \/ info.addr = Null
          THEN [Idle EXCEPT !.pc = "fresh", !.size = me.size]
          ELSE [me EXCEPT !.cur = PrevSlot(me.cur)]]
  /\ UNCHANGED <<shared, program, lost>>

Hand(b, n) ==
  /\ holders' = [holders EXCEPT ![b] = @ + 1]
  /\ wanted' = [wanted EXCEPT ![b] = n]

(* The entry becomes an in-use one, with the size that was asked for; or   *)
(* the exchange fails, leaves what it found in match and tries again.      *)
CompareExchange(t) ==
  /\ thread[t].pc = "cas"
  /\ LET me == thread[t]
     IN IF recycle_pool[me.cur] = me.match
        THEN /\ recycle_pool' = [recycle_pool EXCEPT ![me.cur] =
                  [addr |-> me.addr, size |-> me.size, in_use |-> TRUE]]
             /\ Hand(me.addr, me.size)
             /\ thread' = [thread EXCEPT ![t] = Idle]
             /\ lost' = lost
        ELSE /\ thread' = [thread EXCEPT ![t].pc = "scan", ![t].addr = Null,
                                         ![t].match = recycle_pool[me.cur]]
             /\ lost' = TRUE
             /\ UNCHANGED <<recycle_pool, holders, wanted>>
  /\ UNCHANGED <<pool_ptr, heap>>

(* malloc_orig: a new block, whose size is implanted, or nothing.          *)
Fresh(t) ==
  /\ thread[t].pc = "fresh"
  /\ \/ \E b \in Blocks :
          /\ heap[b] = Null
          /\ heap' = [heap EXCEPT ![b] = thread[t].size]
          /\ Hand(b, thread[t].size)
     \/ (\A b \in Blocks : heap[b] # Null) /\ UNCHANGED program
  /\ thread' = [thread EXCEPT ![t] = Idle]
  /\ UNCHANGED <<shared, lost>>

-----------------------------------------------------------------------------
(* free: recycle.                                                          *)

(* What fetch_implanted finds in a block made for n that was written full. *)
Noted(n) ==
  LET l == Layout[n]
  IN Fetched(Used(Implanted(Mapped(l.size, l.padding), l.len, l.alignment), l.len))

(* Nothing is found where a block was already given back (see OneOwner).   *)
FreedSize ==
  [n \in Sizes \union {Null} |->
     LET same == {m \in Sizes : n # Null /\ Noted(n) =
                    [size |-> Layout[m].len, alignment |-> Layout[m].alignment]}
     IN IF same = {} THEN Null ELSE CHOOSE m \in same : TRUE]

Free(t, b) ==
  /\ thread[t].pc = "idle"
  /\ InHand(b)
  /\ holders' = [holders EXCEPT ![b] = @ - 1]
  /\ wanted' = [wanted EXCEPT ![b] = IF holders[b] = 1 THEN Null ELSE @]
  /\ thread' = [thread EXCEPT ![t] =
                  [Idle EXCEPT !.pc = "recycle", !.addr = b,
                         !.size = FreedSize[heap[b]]]]
  /\ UNCHANGED <<shared, heap, lost>>

FetchAdd(t) ==
  /\ thread[t].pc = "recycle"
  /\ pool_ptr' = NextSlot(pool_ptr)
  /\ thread' = [thread EXCEPT ![t].pc = "exchange", ![t].cur = pool_ptr]
  /\ UNCHANGED <<recycle_pool, program, lost>>

(* Mutants: what is replaced is always freed, or never.                    *)
AnyReplaced(old) == old.addr # Null
NeverReleased(old) == FALSE

Released(old) == old.addr # Null /\ ~old.in_use

Exchange(t) ==
  /\ thread[t].pc = "exchange"
  /\ LET me  == thread[t]
         old == recycle_pool[me.cur]
     IN /\ recycle_pool' = [recycle_pool EXCEPT ![me.cur] =
             [addr |-> me.addr, size |-> me.size, in_use |-> FALSE]]
        /\ thread' = [thread EXCEPT ![t] =
             IF Released(old) THEN [Idle EXCEPT !.pc = "release", !.addr = old.addr]
             ELSE Idle]
  /\ UNCHANGED <<pool_ptr, program, lost>>

(* __libc_free.                                                            *)
Release(t) ==
  /\ thread[t].pc = "release"
  /\ heap' = [heap EXCEPT ![thread[t].addr] = Null]
  /\ thread' = [thread EXCEPT ![t] = Idle]
  /\ UNCHANGED <<shared, holders, wanted, lost>>

-----------------------------------------------------------------------------

Progress(t) ==
  \/ ReuseStart(t)
  \/ Scan(t)
  \/ CompareExchange(t)
  \/ Fresh(t)
  \/ FetchAdd(t)
  \/ Exchange(t)
  \/ Release(t)

Next ==
  \E t \in Threads :
    \/ \E n \in Sizes : Malloc(t, n)
    \/ \E b \in Blocks : Free(t, b)
    \/ Progress(t)

Spec == Init /\ [][Next]_vars

(* Every thread is scheduled; a program need not call malloc or free.      *)
FairSpec == Spec /\ \A t \in Threads : WF_vars(Progress(t))

-----------------------------------------------------------------------------
(* Properties.                                                             *)

(* Blocks on their way into the pool or back to glibc.                     *)
Moving(b) ==
  {t \in Threads :
    thread[t].addr = b /\ thread[t].pc \in {"recycle", "exchange", "release"}}

Pooled(b) == {i \in Slots : recycle_pool[i].addr = b /\ ~recycle_pool[i].in_use}

(* No block is handed out twice: bit 0 of the flags, "in use"              *)
(* (mrecycle.h:10), keeps an entry from being matched again.               *)
NoDoubleAllocation == \A b \in Blocks : holders[b] <= 1

(* As long as no compare-and-exchange fails, a block has one owner: the    *)
(* program, the pool in one entry, or the thread that moves it; whoever    *)
(* holds it got the size it asked for.                                     *)
OneOwner ==
  ~lost =>
    \A b \in Blocks :
      /\ holders[b] + Cardinality(Pooled(b)) + Cardinality(Moving(b)) <= 1
      /\ InHand(b) => heap[b] # Null /\ heap[b] = wanted[b]
      /\ \A i \in Pooled(b) : recycle_pool[i].size = heap[b]

(* No block is forgotten: one that glibc handed out is held, in the pool   *)
(* to be reused, or on its way, even when threads get in each other's way. *)
NoLeak ==
  \A b \in Blocks :
    heap[b] # Null => InHand(b) \/ Pooled(b) # {} \/ Moving(b) # {}

(* The pool is lock-free (README.md): whatever the others do, the threads  *)
(* cannot all be kept inside malloc and free for good.                     *)
LockFree == []<>(\E t \in Threads : thread[t].pc = "idle")
=============================================================================
