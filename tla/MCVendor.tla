------------------------------ MODULE MCVendor ------------------------------
(* Every other upstream revision has another API than the one before it.   *)
EXTENDS VendorAndBuild

MCApi == [n \in 1 .. MaxRuns |-> n % 2]
=============================================================================
