---------------------------- MODULE CodeRegister ----------------------------
(***************************************************************************)
(* What the yearly codes promise, with no transactions, locks or           *)
(* rollbacks: each registration takes the number after the last one of     *)
(* its year, until the numbers that fit the code are used up.  References  *)
(* implements this.                                                        *)
(***************************************************************************)
EXTENDS Naturals

CONSTANTS
  Years,
  Capacity    \* the highest number that fits the code

VARIABLES
  issued,     \* the last number of each year
  codes       \* the codes of the registered records

registerVars == <<issued, codes>>

RegisterInit ==
  /\ issued = [y \in Years |-> 0]
  /\ codes = {}

\* The year of the number is the year of the code.
Register(y) ==
  /\ issued[y] < Capacity
  /\ issued' = [issued EXCEPT ![y] = @ + 1]
  /\ codes' = codes \cup {<<y, issued[y] + 1>>}

RegisterNext == \E y \in Years : Register(y)

RegisterSpec == RegisterInit /\ [][RegisterNext]_registerVars

=============================================================================
