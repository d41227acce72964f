------------------------------ MODULE MCAccounts ------------------------------
(* Accounts for TLC.  Names, passwords, sessions and workers are           *)
(* interchangeable.                                                        *)
EXTENDS Accounts, TLC

Symmetry == Permutations(Workers) \cup Permutations(Names)
                \cup Permutations(Passwords) \cup Permutations(Sessions)

================================================================================
