----------------------------- MODULE MCCustody -----------------------------
(* Custody for TLC: sessions are interchangeable. *)
EXTENDS Custody, TLC

SessionSymmetry == Permutations(Sessions)

=============================================================================
