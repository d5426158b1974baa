-------------------------- MODULE MCEvidenceFiles --------------------------
(* Requests, object ids and contents are interchangeable, each among itself. *)
EXTENDS EvidenceFiles, TLC

FileSymmetry == Permutations(Workers) \cup Permutations(Objects)
                  \cup Permutations(Contents)

=============================================================================
