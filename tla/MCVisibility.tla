---------------------------- MODULE MCVisibility ----------------------------
(* Three cases, the last one empty, an investigator on each of the others  *)
(* (one of them a custodian too), and records around one examination of    *)
(* the first.                                                              *)
EXTENDS Visibility

CONSTANTS ana, ben, c1, c2, c3, e1, e2, x1, x2, p1, a1, h1, y1

MCRoles == [u \in {ana, ben} |-> IF u = ben THEN {"Investigator", "Custodian"} ELSE {"Investigator"}]
MCKind == [n \in {e1, e2, x1, x2, p1, a1} |->
            CASE n \in {e1, e2} -> "evidence" [] n \in {x1, x2} -> "exam"
              [] n = p1 -> "report" [] n = a1 -> "artifact"]
MCCase == [n \in {e1, e2, x1, x2, p1, a1} |-> IF n \in {e2, x2} THEN c2 ELSE c1]
MCHash == [n \in {e1, e2, x1, x2, p1, a1} |-> IF n \in {e1, e2} THEN h1 ELSE NoHash]
MCHits == [n \in {e1, e2, x1, x2, p1, a1} |-> IF n = e2 THEN {y1} ELSE {}]
MCThere == {c1, c2, c3, e1, e2, x1, p1}
MCLinks == {<<x1, e1>>}
MCAssigned == {<<ana, c1>>, <<ben, c2>>}
=============================================================================
