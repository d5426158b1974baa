----------------------------- MODULE MCAccounts -----------------------------
(* Accounts for TLC: browsers are interchangeable, and so are passwords. *)
EXTENDS Accounts, TLC

BrowserSymmetry == Permutations(Browsers) \cup Permutations(Passwords)

=============================================================================
