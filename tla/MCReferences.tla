---------------------------- MODULE MCReferences ----------------------------
(* Sessions are interchangeable.                                           *)
EXTENDS References, TLC

SessionSymmetry == Permutations(Sessions)

=============================================================================
