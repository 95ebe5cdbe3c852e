---------------------------- MODULE MCDistributor ----------------------------
(* Distributor for a cluster of six nodes.  p1 and p2 share n4; p1 allows     *)
(* three nodes of a job, p4 one; the account may not use p3.  Later p3 is     *)
(* opened to it.                                                              *)
EXTENDS Distributor, TLC

N(i)    == <<"n">> \o Decimal[i]
P(a, b) == <<"n", a, b>>

MCHosts  == {N(1), N(2), N(3), N(4), N(5), P("0", "1")}
MCAssocs == {<<"acct", "normal">>}

List(text, hosts) == [text |-> text, hosts |-> hosts]

Listing == [s \in (SUBSET MCHosts) \ {{}} |->
  List(FoldSet(LAMBDA n, t : (IF t = <<>> THEN n ELSE n \o <<",">> \o t), <<>>, s), SetToSeq(s))]

Info(nodes, max, time, accounts) ==
  [nodes |-> nodes, max_nodes |-> max, max_time |-> time,
   allow_accounts |-> accounts, allow_qos |-> {}]

OneToFour == List(<<"n", "[", "1", "-", "4", "]">>, <<N(1), N(2), N(3), N(4)>>)
OnlyFour  == List(<<"n", "4">>, <<N(4)>>)
Five      == List(<<"n", "[", "5", "]">>, <<N(5)>>)
Padded01  == List(<<"n", "0", "1">>, <<P("0", "1")>>)

Before2 == [p1 |-> Info(OneToFour, 3, 60, {{"acct", "other"}}), p2 |-> Info(OnlyFour, 2, Unlimited, {}),
            p3 |-> Info(Padded01, 0, 60, {{"other"}}), p4 |-> Info(Five, 1, 60, {})]

MCTables == <<Before2, [Before2 EXCEPT !.p3.allow_accounts = {}]>>

MCJobLists == {
  List(<<"n", "1", ",", "n", "[", "2", "-", "3", ",", "4", "]">>, <<N(1), N(2), N(3), N(4)>>),
  List(<<"n", "[", "2", "-", "1", "]">>, <<N(1), N(2)>>),
  List(<<"n", "[", "5", ",", "0", "1", "-", "1", "]">>, <<N(5), P("0", "1")>>)}

(* The hypothesis of the theorems about Distributor holds of these lists.     *)
ASSUME InstanceReads == ListsRead
=============================================================================
