------------------------------ MODULE MCDbFile ------------------------------
(* DbFile with interchangeable calls.                                        *)
EXTENDS DbFile, TLC

TxnSymmetry == Permutations(Txn)
=============================================================================
