----------------------------- MODULE MCMessaging -----------------------------
(* Messaging with up to three scrapers: a has a result with a GPU          *)
(* measurement, a plain one and a usage, b a result with a GPU measurement *)
(* and a CPU record, c nothing but a header.                               *)
EXTENDS Messaging

CONSTANTS a, b, c

MCLoad ==
  [s \in Scrapers |->
     CASE s = a -> [results |-> <<1, 0>>, usages |-> 1, cpus |-> 0]
       [] s = b -> [results |-> <<1>>, usages |-> 0, cpus |-> 1]
       [] s = c -> [results |-> <<>>, usages |-> 0, cpus |-> 0]]
=============================================================================
