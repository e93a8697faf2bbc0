----------------------------- MODULE MCBeYouID -----------------------------
(***************************************************************************)
(* Models of BeYouID for TLC.  The operations of a run are given by Kinds. *)
(***************************************************************************)
EXTENDS BeYouID, TLC

AppSymmetry ==
    Permutations(Users) \cup Permutations(Homes) \cup Permutations(Requests)
       \cup Permutations(TxIds) \cup Permutations(Records)
=============================================================================
