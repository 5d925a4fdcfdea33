----------------------------- MODULE MCAdmission -----------------------------
(* Small instances of Admission. *)
EXTENDS Admission, TLC

(* Requests, accounts, keys and nonces are interchangeable. *)
Symmetry == Permutations(Requests) \cup Permutations(Accounts)
              \cup Permutations(Nonces)
==============================================================================
