----------------------------- MODULE MCCaseFile -----------------------------
(* Sessions are interchangeable.                                           *)
EXTENDS CaseFile, TLC

SessionSymmetry == Permutations(Sessions)

=============================================================================
