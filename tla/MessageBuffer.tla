---------------------------- MODULE MessageBuffer ----------------------------
(***************************************************************************)
(* What the double-buffered message queues promise the watcher: groups are *)
(* handed over one at a time, in the order they were taken in, each once,  *)
(* and only after the batch they belong to was frozen.                     *)
(***************************************************************************)
EXTENDS Naturals, Sequences

CONSTANTS
  Scrapers,     (* senders, each of one group                              *)
  Nobody        (* the sender of a group whose header never arrived        *)

VARIABLES
  log,          (* senders of the groups taken in, in order                *)
  batch,        (* the first batch groups of log are frozen                *)
  taken         (* the first taken groups of log are collected             *)

vars == <<log, batch, taken>>

TypeOK ==
  /\ log \in Seq(Scrapers \union {Nobody})
  /\ batch \in 0 .. Len(log)
  /\ taken \in 0 .. batch

Init ==
  /\ log = <<>>
  /\ batch = 0
  /\ taken = 0

(* A connection ends.  One that was accepted before the freeze still       *)
(* belongs to the frozen batch, and no later one can have ended before it. *)
Deliver(s) ==
  /\ s \in Scrapers => \A i \in 1 .. Len(log) : log[i] # s
  /\ log' = Append(log, s)
  /\ \/ batch' = batch
     \/ batch = Len(log) /\ batch' = batch + 1
  /\ taken' = taken

(* A batch is frozen only when the previous one has been collected.        *)
Freeze ==
  /\ taken = batch
  /\ batch' = Len(log)
  /\ UNCHANGED <<log, taken>>

Collect ==
  /\ taken < batch
  /\ taken' = taken + 1
  /\ UNCHANGED <<log, batch>>

Next ==
  \/ \E s \in Scrapers \union {Nobody} : Deliver(s)
  \/ Freeze
  \/ Collect

Spec == Init /\ [][Next]_vars
=============================================================================
