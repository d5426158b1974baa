--------------------------- MODULE CustodyLedger ---------------------------
(***************************************************************************)
(* What the chain of custody promises of one evidence item, with no        *)
(* requests, locks or transactions: the log grows by one whole entry at a  *)
(* time, and the item's status, custodian and location change only         *)
(* together with the entry that says so.  Custody implements this.         *)
(***************************************************************************)
EXTENDS Naturals, Sequences, CustodyRules

CONSTANTS
  Users, Locations,        \* the people and the storage locations
  NoUser, NoLocation,      \* SQL NULL in from_custodian_id and location_id
  MaxTime                  \* last instant of the bounded clock

VARIABLES
  chain,       \* chain_of_custody: the item's entries in custody_id order
  evidence     \* the item's row: status, custodian and location

ledgerVars == <<chain, evidence>>

Times == 1 .. MaxTime

Places == Locations \cup {NoLocation}

Entry == [action : Actions, from : Users \cup {NoUser}, to : Users,
          loc : Places, at : Times, corrects : Nat]

Collected(u, t) ==
  [action |-> "Collected", from |-> NoUser, to |-> u, loc |-> NoLocation,
   at |-> t, corrects |-> 0]

\* sp_register_evidence: the row and its first entry, in one transaction.
LedgerInit ==
  \E u \in Users, t \in Times :
    /\ chain = <<Collected(u, t)>>
    /\ evidence = [status |-> "In Transit", custodian |-> u, location |-> NoLocation]

\* A handover starts from the current holder, is legal for the current
\* status, and moves the item.
Handover(a, u, l, t) ==
  /\ a \in ALLOWED_FROM[evidence.status]
  /\ resulting_status(a, evidence.status) = "In Storage" => l # NoLocation
  /\ chain' = Append(chain, [action |-> a, from |-> evidence.custodian, to |-> u,
                             loc |-> l, at |-> t, corrects |-> 0])
  /\ evidence' = [status |-> resulting_status(a, evidence.status),
                  custodian |-> u, location |-> l]

\* A download leaves the original where it is.
Export(t) ==
  /\ chain' = Append(chain, [action |-> "Exported", from |-> evidence.custodian,
                             to |-> evidence.custodian, loc |-> evidence.location,
                             at |-> t, corrects |-> 0])
  /\ UNCHANGED evidence

\* A correction repeats the event it corrects with another destination; the
\* item's custodian and location may follow it, its status never does.
Correct(k, u, l) ==
  /\ chain[k].action # "Exported"
  /\ chain' = Append(chain, [chain[k] EXCEPT !.to = u, !.loc = l, !.corrects = k])
  /\ \/ UNCHANGED evidence
     \/ evidence' = [evidence EXCEPT !.custodian = u, !.location = l]

LedgerNext ==
  \/ \E a \in TransferActions, u \in Users, l \in Places, t \in Times : Handover(a, u, l, t)
  \/ \E t \in Times : Export(t)
  \/ \E k \in DOMAIN chain, u \in Users, l \in Places : Correct(k, u, l)

LedgerSpec == LedgerInit /\ [][LedgerNext]_ledgerVars

=============================================================================
