--------------------------- MODULE MCMerchantAccount ---------------------------
(* Small instances of MerchantAccount for TLC.                              *)
EXTENDS MerchantAccount, TLC

\* Slots and files are interchangeable.
Symmetry == Permutations(Reqs) \union Permutations(Files)
================================================================================
