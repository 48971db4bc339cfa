----------------------------- MODULE MCHdDriver -----------------------------
EXTENDS HdDriver

(* A partition of two blocks whose second lies in two cylinders, and one    *)
(* that ends in the middle of its second block.                             *)
TwoPartitions ==
  (1 :> [start_sect |-> 1, nr_sects |-> 4]) @@ (2 :> [start_sect |-> 5, nr_sects |-> 3])
=============================================================================
