---------------------------- MODULE MCRecyclePool ----------------------------
(* RecyclePool with two threads, two blocks and two sizes: one of a malloc     *)
(* that leaves four bytes of its chunk, one of an aligned allocation, which    *)
(* has padding.                                                                *)
EXTENDS RecyclePool, TLC

CONSTANTS t1, t2, b1, b2, n1, n2

MCLayout ==
  n1 :> [len |-> 20, alignment |-> 0, size |-> 40, padding |-> 0]
  @@ n2 :> [len |-> 40, alignment |-> 64, size |-> 96, padding |-> 48]

MCOneLayout == n1 :> MCLayout[n1]
=============================================================================
