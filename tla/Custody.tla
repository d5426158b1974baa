------------------------------ MODULE Custody ------------------------------
(***************************************************************************)
(* The chain of custody of one evidence item, as concurrent web requests   *)
(* change it: app/custody (transfer, correct), the download of the stored  *)
(* file (app/evidence/files.py) and the two stored procedures behind them. *)
(* No statement of these touches two items, so one item is the whole       *)
(* story.                                                                  *)
(*                                                                         *)
(* A request is a session that checks the item with plain reads, then runs *)
(* one transaction.  The transaction locks the evidence row (SELECT ...    *)
(* FOR UPDATE) and keeps it locked until COMMIT or ROLLBACK.  MySQL runs   *)
(* at REPEATABLE READ: the first plain SELECT of a transaction fixes the   *)
(* rows every later plain SELECT of it sees.  sp_transfer_evidence and the *)
(* download lock first, so their reads are current;                        *)
(* sp_record_custody_correction reads first, so its later reads are as old *)
(* as that read (field snap).                                              *)
(***************************************************************************)
EXTENDS CustodyLedger, FiniteSets

CONSTANTS
  Staff,          \* users holding Administrator or Evidence Custodian at first
  Assigned,       \* investigators assigned to the item's case at first
  Sessions,       \* concurrent web requests
  HandoverTimes,  \* times users may type; {} means they leave the field empty
  Correctors,     \* the users who record corrections when their roles allow it
  Downloaders,    \* the users who download the file when their roles allow it
  Leavers,        \* users and locations an administrator may deactivate
  Movers,         \* users whose roles and place on the case change meanwhile
  NoSession,      \* nobody holds the row lock
  MaxEntries      \* bound on the length of the chain

ASSUME ConstantsAssumption ==
  /\ Staff \subseteq Users
  /\ Assigned \subseteq Users
  /\ Correctors \subseteq Users
  /\ Movers \subseteq Users
  /\ Leavers \subseteq Users \cup Locations
  /\ NoUser \notin Users
  /\ NoLocation \notin Locations \cup Users
  /\ NoSession \notin Sessions
  /\ MaxTime \in Nat \ {0}
  /\ MaxEntries \in Nat
  /\ HandoverTimes \subseteq Times

VARIABLES
  inactive,    \* deactivated users and locations
  staff,       \* who holds Administrator or Evidence Custodian (user_roles)
  investigators, \* who holds Investigator (user_roles)
  team,        \* who is assigned to the item's case (case_investigators)
  clock,       \* NOW() of the database server, in its unit (one second)
  lock,        \* the session whose transaction holds the evidence row
  pc,          \* where each session is
  req,         \* what its request carries
  local,       \* the locals v_status, v_custodian read under the lock
  moves        \* history: the entries that moved the item, in commit order

vars == <<chain, evidence, inactive, staff, investigators, team, clock, lock, pc,
          req, local, moves>>

\* What the users and locations tables say of people and places.
rights == <<inactive, staff, investigators, team>>

NoTime == 0

Waiting == {"transfer", "correct", "export"}
Locked  == {"transferring", "correcting", "exporting"}
Phases  == {"idle", "form"} \cup Waiting \cup Locked

Evidence == [status : Statuses, custodian : Users \cup {NoUser}, location : Places]

Request == [by : Users \cup {NoUser}, expected : Users \cup {NoUser},
            action : Actions, to : Users \cup {NoUser}, loc : Places,
            at : Times \cup {NoTime}, corrects : Nat, snap : Nat, seen : Nat]

NoRequest == [by |-> NoUser, expected |-> NoUser, action |-> "Collected",
              to |-> NoUser, loc |-> NoLocation, at |-> NoTime,
              corrects |-> 0, snap |-> 0, seen |-> 0]

NoLocals == [status |-> "In Transit", custodian |-> NoUser, location |-> NoLocation]

ActiveUsers == Users \ inactive

OpenPlaces == Places \ inactive

\* Bound: a new request starts only while the chain has room for its entry.
Room ==
  Len(chain) + Cardinality({s \in Sessions : pc[s] # "idle"}) < MaxEntries

---------------------------------------------------------------------------
(* Who may record what: custody_actions_for, and step 3 of the procedure.  *)

custody_actions_for(u) ==
  IF u \in staff THEN TransferActions
  ELSE IF u \in investigators \cap team THEN INVESTIGATOR_CUSTODY_ACTIONS ELSE {}

can_download(u) == u \in staff \cup (investigators \cap team)

\* The procedure reads both tables again, under the row lock.
MayRecord(u, a) ==
  \/ u \in staff \ inactive
  \/ u \in team /\ a \in INVESTIGATOR_CUSTODY_ACTIONS

---------------------------------------------------------------------------
(* The transfer page.                                                      *)

\* GET: the form remembers the custodian it shows.
OpenTransferForm(s, u) ==
  /\ pc[s] = "idle"
  /\ Room
  /\ u \in ActiveUsers
  /\ custody_actions_for(u) # {}
  /\ pc' = [pc EXCEPT ![s] = "form"]
  /\ req' = [req EXCEPT ![s] = [NoRequest EXCEPT !.by = u,
                                                 !.expected = evidence.custodian,
                                                 !.seen = Len(moves)]]
  /\ UNCHANGED <<chain, evidence, rights, clock, lock, local, moves>>

\* The time a user types: not in the future, not before the latest entry.
\* Both are read before, and outside, the transaction that uses the answer.
TimeAccepted(t) ==
  t # NoTime => /\ t <= clock
                /\ \A k \in DOMAIN chain : chain[k].at <= t

\* POST: the route's and the service's checks, on plain reads.
SubmitTransfer(s, a, u, l, t) ==
  /\ pc[s] = "form"
  /\ req[s].by \in ActiveUsers
  /\ a \in ALLOWED_FROM[evidence.status] \cap custody_actions_for(req[s].by)
  /\ u \in ActiveUsers
  /\ l \in OpenPlaces
  /\ a \in NEEDS_STORAGE_LOCATION => l # NoLocation
  /\ TimeAccepted(t)
  /\ pc' = [pc EXCEPT ![s] = "transfer"]
  /\ req' = [req EXCEPT ![s].action = a, ![s].to = u, ![s].loc = l, ![s].at = t]
  /\ UNCHANGED <<chain, evidence, rights, clock, lock, local, moves>>

LeaveForm(s) ==
  /\ pc[s] = "form"
  /\ pc' = [pc EXCEPT ![s] = "idle"]
  /\ req' = [req EXCEPT ![s] = NoRequest]
  /\ UNCHANGED <<chain, evidence, rights, clock, lock, local, moves>>

---------------------------------------------------------------------------
(* The row lock.                                                           *)

\* Mutant: SELECT without FOR UPDATE.
LockEvidence_NoForUpdate(s) ==
  /\ pc[s] \in Waiting
  /\ lock' = s
  /\ local' = [local EXCEPT ![s] = evidence]
  /\ pc' = [pc EXCEPT ![s] = CASE @ = "transfer" -> "transferring"
                               [] @ = "correct"  -> "correcting"
                               [] OTHER          -> "exporting"]
  /\ UNCHANGED <<chain, evidence, rights, clock, req, moves>>

\* SELECT ... FROM evidence ... FOR UPDATE: waits for the lock, reads the row
\* as it is now.
LockEvidence(s) ==
  /\ pc[s] \in Waiting
  /\ lock = NoSession
  /\ lock' = s
  /\ local' = [local EXCEPT ![s] = evidence]
  /\ pc' = [pc EXCEPT ![s] = CASE @ = "transfer" -> "transferring"
                               [] @ = "correct"  -> "correcting"
                               [] OTHER          -> "exporting"]
  /\ UNCHANGED <<chain, evidence, rights, clock, req, moves>>

\* The end of a transaction: the lock goes, and so do the locals.
EndTransaction(s, next, r) ==
  /\ lock' = NoSession
  /\ local' = [local EXCEPT ![s] = NoLocals]
  /\ pc' = [pc EXCEPT ![s] = next]
  /\ req' = [req EXCEPT ![s] = r]

\* A lock wait timeout, a lost connection or a stopped worker: MySQL rolls the
\* transaction back and the request is over.
ConnectionLost(s) ==
  /\ pc[s] \in Waiting \cup Locked
  /\ lock' = IF lock = s THEN NoSession ELSE lock
  /\ local' = [local EXCEPT ![s] = NoLocals]
  /\ pc' = [pc EXCEPT ![s] = "idle"]
  /\ req' = [req EXCEPT ![s] = NoRequest]
  /\ UNCHANGED <<chain, evidence, rights, clock, moves>>

---------------------------------------------------------------------------
(* sp_transfer_evidence, after its lock.                                   *)

\* Mutant: step 2, the comparison with the custodian the user saw, is missing.
TransferAccepted_AnyCustodian(s) ==
  LET r == req[s]
      v == local[s]
  IN  /\ MayRecord(r.by, r.action)
      /\ v_allowed(r.action, v.status)
      /\ v_new_status(r.action, v.status) = "In Storage" => r.loc # NoLocation
      /\ r.to \in ActiveUsers
      /\ r.loc \in OpenPlaces

\* Mutant: step 4, the action against the current status, is left to the form.
TransferAccepted_FormStatus(s) ==
  LET r == req[s]
      v == local[s]
  IN  /\ v.custodian = r.expected
      /\ MayRecord(r.by, r.action)
      /\ v_new_status(r.action, v.status) = "In Storage" => r.loc # NoLocation
      /\ r.to \in ActiveUsers
      /\ r.loc \in OpenPlaces

\* Mutant: step 5, the location of an item in storage, is left to the form.
TransferAccepted_FormLocation(s) ==
  LET r == req[s]
      v == local[s]
  IN  /\ v.custodian = r.expected
      /\ MayRecord(r.by, r.action)
      /\ v_allowed(r.action, v.status)
      /\ r.to \in ActiveUsers
      /\ r.loc \in OpenPlaces

TransferAccepted(s) ==
  LET r == req[s]
      v == local[s]
  IN  /\ v.custodian = r.expected
      /\ MayRecord(r.by, r.action)
      /\ v_allowed(r.action, v.status)
      /\ v_new_status(r.action, v.status) = "In Storage" => r.loc # NoLocation
      /\ r.to \in ActiveUsers
      /\ r.loc \in OpenPlaces

\* Mutant: an empty time is stored as it came.
TransferEntry_NoDefaultTime(s) ==
  [action |-> req[s].action, from |-> local[s].custodian, to |-> req[s].to,
   loc |-> req[s].loc, at |-> req[s].at, corrects |-> 0]

TransferEntry(s) ==
  [action |-> req[s].action, from |-> local[s].custodian, to |-> req[s].to,
   loc |-> req[s].loc, at |-> IF req[s].at = NoTime THEN clock ELSE req[s].at,
   corrects |-> 0]

\* Mutant: a handover without a location leaves the old one on the row.
TransferCommit_KeepsLocation(s) ==
  /\ pc[s] = "transferring"
  /\ TransferAccepted(s)
  /\ chain' = Append(chain, TransferEntry(s))
  /\ evidence' = [status |-> v_new_status(req[s].action, local[s].status),
                  custodian |-> req[s].to,
                  location |-> IF req[s].loc = NoLocation THEN local[s].location
                               ELSE req[s].loc]
  /\ moves' = Append(moves, Len(chain) + 1)
  /\ EndTransaction(s, "idle", NoRequest)
  /\ UNCHANGED <<rights, clock>>

TransferCommit(s) ==
  /\ pc[s] = "transferring"
  /\ TransferAccepted(s)
  /\ chain' = Append(chain, TransferEntry(s))
  /\ evidence' = [status |-> v_new_status(req[s].action, local[s].status),
                  custodian |-> req[s].to, location |-> req[s].loc]
  /\ moves' = Append(moves, Len(chain) + 1)
  /\ EndTransaction(s, "idle", NoRequest)
  /\ UNCHANGED <<rights, clock>>

\* Mutant: the exit handler does not roll back, so the row stays locked.
TransferRefuse_NoRollback(s) ==
  /\ pc[s] = "transferring"
  /\ ~TransferAccepted(s)
  /\ pc' = [pc EXCEPT ![s] = "form"]
  /\ UNCHANGED <<chain, evidence, rights, clock, lock, req, local, moves>>

\* SIGNAL, ROLLBACK, RESIGNAL; the page shows the message and the same form,
\* hidden custodian field included.
TransferRefuse(s) ==
  /\ pc[s] = "transferring"
  /\ ~TransferAccepted(s)
  /\ EndTransaction(s, "form", [NoRequest EXCEPT !.by = req[s].by,
                                                 !.expected = req[s].expected,
                                                 !.seen = req[s].seen])
  /\ UNCHANGED <<chain, evidence, rights, clock, moves>>

---------------------------------------------------------------------------
(* The correction page and sp_record_custody_correction.                   *)

\* The page's checks, the call, and the procedure's first SELECT, which fixes
\* what its later plain SELECTs see: the entries committed by now, and the
\* roles as they are now, so its own check of the role repeats the page's.
BeginCorrection(s, u, k, to, l) ==
  /\ pc[s] = "idle"
  /\ Room
  /\ u \in (Correctors \cap staff) \ inactive
  /\ chain[k].action # "Exported"
  /\ to \in ActiveUsers
  /\ l \in OpenPlaces
  /\ pc' = [pc EXCEPT ![s] = "correct"]
  /\ req' = [req EXCEPT ![s] = [NoRequest EXCEPT !.by = u, !.corrects = k, !.to = to,
                                                 !.loc = l, !.snap = Len(chain)]]
  /\ UNCHANGED <<chain, evidence, rights, clock, lock, local, moves>>

CorrectionEntry(s) ==
  [chain[req[s].corrects] EXCEPT !.to = req[s].to, !.loc = req[s].loc,
                                 !.corrects = req[s].corrects]

\* v_latest = p_custody_id: the new entry has the highest custody_id, so it is
\* the latest of the visible ones unless one of them occurred later.
IsLatestVisible(s) ==
  \A j \in 1 .. req[s].snap : chain[j].at <= CorrectionEntry(s).at

\* Mutant: the item's location does not follow the correction.
CorrectionCommit_CustodianOnly(s) ==
  /\ pc[s] = "correcting"
  /\ chain' = Append(chain, CorrectionEntry(s))
  /\ IF IsLatestVisible(s)
       THEN /\ evidence' = [evidence EXCEPT !.custodian = req[s].to]
            /\ moves' = Append(moves, Len(chain) + 1)
       ELSE UNCHANGED <<evidence, moves>>
  /\ EndTransaction(s, "idle", NoRequest)
  /\ UNCHANGED <<rights, clock>>

CorrectionCommit(s) ==
  /\ pc[s] = "correcting"
  /\ chain' = Append(chain, CorrectionEntry(s))
  /\ IF IsLatestVisible(s)
       THEN /\ evidence' = [evidence EXCEPT !.custodian = req[s].to, !.location = req[s].loc]
            /\ moves' = Append(moves, Len(chain) + 1)
       ELSE UNCHANGED <<evidence, moves>>
  /\ EndTransaction(s, "idle", NoRequest)
  /\ UNCHANGED <<rights, clock>>

---------------------------------------------------------------------------
(* The download of the stored file: open_for_download.                     *)

BeginExport(s, u) ==
  /\ pc[s] = "idle"
  /\ Room
  /\ u \in Downloaders \ inactive
  /\ can_download(u)
  /\ pc' = [pc EXCEPT ![s] = "export"]
  /\ req' = [req EXCEPT ![s] = [NoRequest EXCEPT !.by = u]]
  /\ UNCHANGED <<chain, evidence, rights, clock, lock, local, moves>>

\* Mutant: the copy is recorded as handed to the person who downloads it.
ExportCommit_ToDownloader(s) ==
  /\ pc[s] = "exporting"
  /\ chain' = Append(chain, [action |-> "Exported", from |-> local[s].custodian,
                             to |-> req[s].by, loc |-> local[s].location,
                             at |-> clock, corrects |-> 0])
  /\ EndTransaction(s, "idle", NoRequest)
  /\ UNCHANGED <<evidence, rights, clock, moves>>

ExportCommit(s) ==
  /\ pc[s] = "exporting"
  /\ chain' = Append(chain, [action |-> "Exported", from |-> local[s].custodian,
                             to |-> local[s].custodian, loc |-> local[s].location,
                             at |-> clock, corrects |-> 0])
  /\ EndTransaction(s, "idle", NoRequest)
  /\ UNCHANGED <<evidence, rights, clock, moves>>

---------------------------------------------------------------------------
(* The surroundings.                                                       *)

Toggle(S, x) == IF x \in S THEN S \ {x} ELSE S \cup {x}

\* users.services.set_active and locations.services.set_active.
SetActive(x) ==
  /\ inactive' = Toggle(inactive, x)
  /\ UNCHANGED <<chain, evidence, staff, investigators, team, clock, lock, pc, req,
                 local, moves>>

\* users.services.add_role and revoke_role.
ChangeRole(u) ==
  /\ \/ staff' = Toggle(staff, u) /\ UNCHANGED investigators
     \/ investigators' = Toggle(investigators, u) /\ UNCHANGED staff
  /\ UNCHANGED <<chain, evidence, inactive, team, clock, lock, pc, req, local, moves>>

\* sp_assign_investigator takes active investigators; sp_remove_investigator.
ChangeTeam(u) ==
  /\ u \in team \/ u \in investigators \ inactive
  /\ team' = Toggle(team, u)
  /\ UNCHANGED <<chain, evidence, inactive, staff, investigators, clock, lock, pc, req,
                 local, moves>>

Tick ==
  /\ clock < MaxTime
  /\ clock' = clock + 1
  /\ UNCHANGED <<chain, evidence, rights, lock, pc, req, local, moves>>

\* The item has just been registered, by sp_register_evidence.
Init ==
  /\ LedgerInit
  /\ clock \in Times
  /\ chain[1].at <= clock
  /\ inactive = {}
  /\ staff = Staff
  /\ investigators = Assigned
  /\ team = Assigned
  /\ lock = NoSession
  /\ pc = [s \in Sessions |-> "idle"]
  /\ req = [s \in Sessions |-> NoRequest]
  /\ local = [s \in Sessions |-> NoLocals]
  /\ moves = <<1>>

Transfer(s) == TransferCommit(s) \/ TransferRefuse(s)

UserStep(s) ==
  \/ \E u \in Users : OpenTransferForm(s, u) \/ BeginExport(s, u)
  \/ \E a \in TransferActions, u \in Users, l \in Places, t \in HandoverTimes \cup {NoTime} :
       SubmitTransfer(s, a, u, l, t)
  \/ \E u \in Correctors, k \in DOMAIN chain, to \in Users, l \in Places :
       BeginCorrection(s, u, k, to, l)
  \/ LeaveForm(s)

Finish(s) == Transfer(s) \/ CorrectionCommit(s) \/ ExportCommit(s)

Next ==
  \/ \E s \in Sessions : UserStep(s) \/ LockEvidence(s) \/ Finish(s) \/ ConnectionLost(s)
  \/ \E x \in Leavers : SetActive(x)
  \/ \E u \in Movers : ChangeRole(u) \/ ChangeTeam(u)
  \/ Tick

Spec == Init /\ [][Next]_vars

\* The server runs a transaction it has begun to its end, and a wait for the
\* row lock ends in the lock or in a timeout.  Users owe nothing.
Fairness ==
  \A s \in Sessions : /\ WF_vars(Finish(s))
                      /\ WF_vars(LockEvidence(s) \/ ConnectionLost(s))

FairSpec == Spec /\ Fairness

---------------------------------------------------------------------------
(* Properties.                                                             *)

TypeOK ==
  /\ chain \in Seq(Entry)
  /\ evidence \in Evidence /\ evidence.custodian \in Users
  /\ inactive \subseteq Users \cup Locations
  /\ staff \subseteq Users /\ investigators \subseteq Users /\ team \subseteq Users
  /\ clock \in Times
  /\ lock \in Sessions \cup {NoSession}
  /\ pc \in [Sessions -> Phases]
  /\ req \in [Sessions -> Request]
  /\ local \in [Sessions -> Evidence]
  /\ moves \in Seq(Nat)

\* The row lock works: exactly the transaction that holds it is between its
\* FOR UPDATE and its end, and what it read there is still the row.  A waiting
\* correction names an entry that exists and can be corrected.
LockProtocol ==
  /\ \A s \in Sessions : pc[s] \in Locked <=> lock = s
  /\ \A s \in Sessions : lock = s => local[s] = evidence
  /\ \A s \in Sessions :
       pc[s] \in {"correct", "correcting"} =>
         /\ req[s].to \in Users
         /\ req[s].corrects \in DOMAIN chain
         /\ chain[req[s].corrects].action # "Exported"
         /\ req[s].snap <= Len(chain)

\* An unbroken record of who held the item: the holder is the destination of
\* the last entry that moved it, and every handover was recorded as coming
\* from the destination of the move before it, however requests interleave.
HandoverUnbroken ==
  /\ Len(moves) > 0
  /\ \A i \in DOMAIN moves : moves[i] \in DOMAIN chain
  /\ evidence.custodian = chain[moves[Len(moves)]].to
  /\ evidence.location = chain[moves[Len(moves)]].loc
  /\ \A i \in DOMAIN moves :
       i > 1 /\ chain[moves[i]].corrects = 0
         => chain[moves[i]].from = chain[moves[i - 1]].to

\* sp_transfer_evidence step 2: a handover is only ever recorded as coming
\* from the custodian its user saw when the form was opened.
HandoverFromShownCustodian ==
  [][\A s \in Sessions :
       pc[s] = "transferring" /\ chain' # chain /\ lock = s
         => /\ chain'[Len(chain')].from = req[s].expected
            /\ evidence.custodian = req[s].expected]_vars

IsLatest(k) ==
  \A j \in DOMAIN chain :
    chain[j].at < chain[k].at \/ (chain[j].at = chain[k].at /\ j <= k)

\* test_current_custody_matches_the_latest_entry: the item's custodian and
\* location are those of its latest entry, by (occurred_at, custody_id).
CurrentMatchesLatest ==
  \A k \in DOMAIN chain :
    IsLatest(k) => /\ evidence.custodian = chain[k].to
                   /\ evidence.location = chain[k].loc

IsHandover(k) == chain[k].action \in TransferActions /\ chain[k].corrects = 0

\* The status the handovers lead to when they are replayed from the start by
\* the rules of the Python table.
Replayed ==
  LET status[n \in 0 .. Len(chain)] ==
        IF n = 0 THEN "In Transit"
        ELSE IF IsHandover(n) THEN resulting_status(chain[n].action, status[n - 1])
        ELSE status[n - 1]
  IN  status

\* The recorded history replays: every handover was allowed by the form's
\* table at its place in the chain, and the replay ends in the item's status.
LifecycleReplays ==
  /\ \A n \in DOMAIN chain :
       IsHandover(n) => chain[n].action \in ALLOWED_FROM[Replayed[n - 1]]
  /\ evidence.status = Replayed[Len(chain)]

\* A transaction that holds the row gives it back, committed or not.
LockIsReleased == \A s \in Sessions : lock = s ~> lock # s

\* Step 5 of sp_transfer_evidence: an item in storage has a storage location.
StoredHasLocation ==
  evidence.status = "In Storage" => evidence.location # NoLocation

\* The form and the procedure keep the rules twice (app/access.py:134 and
\* app/custody/services.py:25, and steps 2 to 5 of sp_transfer_evidence).  What
\* the form let through is refused under the lock only for news: the item moved
\* after the form was opened; its user, the new custodian or the place was
\* deactivated; or its user lost the role or the place on the case by which the
\* form would offer the action.  The exception is an item in storage transferred
\* without a location, which only the procedure refuses.
RefusedOnlyForNews ==
  \A s \in Sessions :
    LET r == req[s]
    IN  /\ pc[s] = "transferring"
        /\ r.seen = Len(moves)
        /\ {r.by, r.to, r.loc} \cap inactive = {}
        /\ r.action \in custody_actions_for(r.by)
        /\ ~ (r.action = "Transferred" /\ evidence.status = "In Storage" /\ r.loc = NoLocation)
        => TransferAccepted(s)

=============================================================================
