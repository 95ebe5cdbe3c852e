----------------------------- MODULE MCNodeList -----------------------------
(* The cluster of MCDistributor, with a job on the list that the comment in   *)
(* split_node_string names.                                                   *)
EXTENDS MCDistributor

CommentsList ==
  List(<<"n", "[", "1", "-", "3", ",", "0", "1", ",", "1", "-", "0", "3", ",", "0", "1", "-", "0", "3", ",",
         "0", "0", "1", "-", "0", "3", ",", "0", "0", "1", "-", "1", "3", ",",
         "9", "9", "9", "-", "1", "0", "0", "0", "]">>, <<>>)

AllJobLists == MCJobLists \union {CommentsList}
=============================================================================
