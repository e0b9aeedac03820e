------------------------ MODULE MCConsumerMutations ------------------------
(* ConsumerMutations on instances small enough for TLC. *)
EXTENDS ConsumerMutations, TLC

CONSTANTS l1, l2, i1, i2, k1, k2

\* One request of each kind that changes list l1, under a key of its own where
\* that is all it needs, and two that repeat a key with another body.
AllRequests ==
         [op : {"create"}, key : {k1}]
  \union [op : {"update"}, key : {k1}, list : {l1}, archived : {"yes", "no"}]
  \union [op : {"add_item"}, key : {k1, k2}, list : {l1}, confirmed : {TRUE}, quantity : {1}]
  \union [op : {"update_item"}, key : {k1}, list : {l1}, item : {i1}, quantity : {2}]
  \union [op : {"remove_item"}, key : {k1}, list : {l1}, item : {i1}]
  \union [op : {"optimize"}, key : {k1, k2}, list : {l1}, revision : {1, 2}]
=============================================================================
