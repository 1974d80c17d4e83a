----------------------------- MODULE MCProfiles -----------------------------
(***************************************************************************)
(* A small instance of Profiles for TLC.                                    *)
(***************************************************************************)
EXTENDS Profiles, TLC

Symmetry == Permutations(Requests) \cup Permutations(BankAccounts)
=============================================================================
