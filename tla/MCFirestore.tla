---------------------------- MODULE MCFirestore ----------------------------
(***************************************************************************)
(* Model of FirestoreTransactions for TLC.                                 *)
(***************************************************************************)
EXTENDS FirestoreTransactions, TLC

StoreSymmetry == Permutations(TxIds) \cup Permutations(Keys)
=============================================================================
