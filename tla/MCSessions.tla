----------------------------- MODULE MCSessions -----------------------------
(***************************************************************************)
(* A small instance of Sessions for TLC.                                    *)
(***************************************************************************)
EXTENDS Sessions, TLC

Symmetry ==
    Permutations(Requests) \cup Permutations(Emails) \cup Permutations(Passwords)
=============================================================================
