----------------------------- MODULE MCUserStore -----------------------------
(***************************************************************************)
(* The instance of the users and tokens that TLC checks: two users, two    *)
(* requests, which are interchangeable, and three hashes, so that an entry *)
(* can be taken away and set again while a request holds an older copy.    *)
(***************************************************************************)
EXTENDS UserStoreProperties, TLC

Symmetry == Permutations(Requests)
=============================================================================
