----------------------------- MODULE MCAccounts -----------------------------
(***************************************************************************)
(* Small instances of Accounts for TLC.                                    *)
(***************************************************************************)
EXTENDS Accounts, TLC

\* Requests and passwords are treated alike.
MCSymmetry == Permutations(Requests) \cup Permutations(Passwords)
=============================================================================
