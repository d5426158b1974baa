------------------------------ MODULE CaseFile ------------------------------
(***************************************************************************)
(* One case with its team, one evidence item, one examination, one report  *)
(* and its notes, as concurrent requests change them: app/cases,           *)
(* app/examinations, app/reports, the rules of app/access.py and the       *)
(* procedures and triggers behind them.                                    *)
(*                                                                         *)
(* A request is checked by its page on plain reads (Ask), then runs one    *)
(* transaction.  Almost all of them lock the row of the case (SELECT ...   *)
(* FOR UPDATE) and decide on what they read from then on (field view).     *)
(* The ones that do not are the hard part: a new version of a report locks *)
(* only the report, a citation and a note lock nothing of their own and    *)
(* wait only where a foreign key makes them, and a handover locks only the *)
(* item, whose rules come from CustodyRules.                               *)
(*                                                                         *)
(* Titles, dates, texts and roles that change are left out: the status of  *)
(* each record and the number of changes to it are what the rules read.    *)
(***************************************************************************)
EXTENDS CustodyRules, Naturals, FiniteSets

CONSTANTS
  Admins, Custodians, Investigators,   \* users by role
  EditableStatuses,  \* "Open", "In Progress" and "On Hold" in the code
  Ops,               \* the operations of this instance, a subset of AllOps
  Moves,             \* the custody actions of this instance
  Sessions,          \* concurrent requests
  MaxEdits,          \* bound on the changes to a record and on versions
  MaxNotes,          \* bound on the notes
  NoUser, NoSession, NoView

CaseSteps   == {"status", "assign", "lead", "remove", "close", "delete"}
NewRecords  == {"register", "examine", "write"}
ExamSteps   == {"record", "artifact", "link", "start", "submit_exam", "cancel",
                "approve_exam", "return_exam"}
ReportSteps == {"submit_report", "approve_report", "return_report"}
AllOps      == CaseSteps \cup NewRecords \cup ExamSteps \cup ReportSteps
                 \cup {"version", "cite", "note"}

Users == Admins \cup Custodians \cup Investigators

ASSUME CaseFileAssumption ==
  /\ "Open" \in EditableStatuses
  /\ EditableStatuses \cap {"Closed", "Deleted"} = {}
  /\ Ops \subseteq AllOps
  /\ Moves \subseteq TransferActions
  /\ MaxEdits \in Nat \ {0}
  /\ MaxNotes \in Nat
  /\ NoUser \notin Users
  /\ NoSession \notin Sessions

VARIABLES
  case,        \* its status; "Deleted" when the row is gone
  members,     \* case_investigators
  leads,       \* those with is_lead
  item,        \* current_status of the evidence item, or "None"
  exam,        \* the examination
  report,      \* the report
  notes,       \* number of case notes
  caseLock,    \* the transaction that holds the row of the case
  reportLock,  \* the one that holds the row of the report
  tx           \* each session's request

records == <<case, members, leads, item, exam, report, notes>>
vars    == <<case, members, leads, item, exam, report, notes, caseLock, reportLock, tx>>

View == [case |-> case, members |-> members, leads |-> leads, item |-> item,
         exam |-> exam, report |-> report, notes |-> notes]

Unfinished  == {"Pending", "In Progress", "Under Review"}
Outstanding == {"In Transit", "Checked Out", "Under Examination"}

NoExam   == [status |-> "None", examiner |-> NoUser, reviewer |-> NoUser,
             written |-> FALSE, linked |-> FALSE, edits |-> 0]
NoReport == [status |-> "None", author |-> NoUser, approver |-> NoUser,
             versions |-> 0, cited |-> FALSE]
Idle     == [pc |-> "idle", op |-> "note", by |-> NoUser, arg |-> NoUser, view |-> NoView]

---------------------------------------------------------------------------
(* app/access.py, over a view d of the case.                               *)

Visible(u, d) == u \in Admins \cup Custodians \cup d.members

can_manage_case(u, d) ==
  d.case # "Closed" /\ (u \in Admins \/ u \in d.leads)

\* Administrators and the case's investigators, while it is open: the rule of
\* can_create_examination and of can_write_report.
can_add_work(u, d) ==
  d.case # "Closed" /\ (u \in Admins \/ u \in Investigators \cap d.members)

can_register(u, d) ==
  d.case # "Closed" /\ u \in Admins \cup Custodians \cup d.members

can_add_case_note(u, d) ==
  d.case # "Closed" /\ u \in Admins \cup Custodians \cup (Investigators \cap d.members)

\* Mutant: the rule from before reviews existed, "not finished".
can_work_on_examination_Unfinished(u, d) ==
  /\ d.exam.status \in Unfinished
  /\ d.case # "Closed"
  /\ u \in Admins \cup d.leads \cup {d.exam.examiner}

can_work_on_examination(u, d) ==
  /\ d.exam.status \in {"Pending", "In Progress"}
  /\ d.case # "Closed"
  /\ u \in Admins \cup d.leads \cup {d.exam.examiner}

can_review_examination(u, d) ==
  /\ d.exam.status = "Under Review"
  /\ d.case # "Closed"
  /\ u # d.exam.examiner
  /\ u \in Admins \cup d.leads

can_edit_report(u, d) ==
  /\ d.report.status = "Draft"
  /\ d.case # "Closed"
  /\ u \in Admins \cup {d.report.author}

can_review_report(u, d) ==
  /\ d.report.status = "Under Review"
  /\ d.case # "Closed"
  /\ u \in Admins
  /\ u # d.report.author

---------------------------------------------------------------------------
(* The pages.                                                              *)

case_examiners(d) == d.members \cap Investigators

\* What a request carries besides its user.
Args(op) ==
  CASE op \in {"assign", "lead", "remove", "examine"} -> Investigators
    [] op = "status" -> EditableStatuses
    [] op = "record" -> BOOLEAN      \* are tools, methods and findings filled in?
    [] op = "write"  -> BOOLEAN      \* does it cite the examination?
    [] OTHER         -> {NoUser}

\* The page's check, on plain reads.  The pages of a report's review leave the
\* check to the transaction.
Offered(op, u, arg, d) ==
  CASE op \in CaseSteps \ {"delete"} -> can_manage_case(u, d)
    [] op = "delete"   -> u \in Admins
    [] op = "register" -> d.item = "None" /\ can_register(u, d)
    [] op = "examine"  -> d.exam = NoExam /\ can_add_work(u, d) /\ arg \in case_examiners(d)
    [] op = "write"    -> d.report = NoReport /\ can_add_work(u, d) /\ (arg => d.exam # NoExam)
    [] op \in {"approve_exam", "return_exam"} -> can_review_examination(u, d)
    [] op \in ExamSteps -> can_work_on_examination(u, d)
    [] op \in ReportSteps -> d.report # NoReport
    [] op \in {"version", "cite"} -> can_edit_report(u, d)
    [] op = "note"     -> can_add_case_note(u, d)
    [] OTHER           -> FALSE

Ask(s, op, u, arg) ==
  /\ tx[s].pc = "idle"
  /\ case # "Deleted"
  /\ Visible(u, View)
  /\ Offered(op, u, arg, View)
  /\ tx' = [tx EXCEPT ![s] = [pc |-> "asked", op |-> op, by |-> u, arg |-> arg,
                              view |-> NoView]]
  /\ UNCHANGED <<records, caseLock, reportLock>>

---------------------------------------------------------------------------
(* Row locks.                                                              *)

\* Mutant: the report is read without FOR UPDATE.
LockReport_NoForUpdate(s) ==
  /\ tx[s].pc = "asked"
  /\ tx[s].op \in ReportSteps \cup {"version"}
  /\ report # NoReport
  /\ UNCHANGED reportLock
  /\ tx' = [tx EXCEPT ![s].pc = IF tx[s].op = "version" THEN "locked" ELSE "half",
                      ![s].view = IF tx[s].op = "version" THEN View ELSE NoView]
  /\ UNCHANGED <<records, caseLock>>

\* sp_create_report_version locks the report only; the review steps lock the
\* report and then, by their join, the case.
LockReport(s) ==
  /\ tx[s].pc = "asked"
  /\ tx[s].op \in ReportSteps \cup {"version"}
  /\ report # NoReport
  /\ reportLock = NoSession
  /\ reportLock' = s
  /\ tx' = [tx EXCEPT ![s].pc = IF tx[s].op = "version" THEN "locked" ELSE "half",
                      ![s].view = IF tx[s].op = "version" THEN View ELSE NoView]
  /\ UNCHANGED <<records, caseLock>>

WantsCase(s) ==
  \/ tx[s].pc = "asked" /\ tx[s].op \in CaseSteps \cup NewRecords \cup ExamSteps
  \/ tx[s].pc = "half"

\* Mutant: the case is read without FOR UPDATE.
LockCase_NoForUpdate(s) ==
  /\ WantsCase(s)
  /\ case # "Deleted"
  /\ tx' = [tx EXCEPT ![s].pc = "locked", ![s].view = View]
  /\ UNCHANGED <<records, caseLock, reportLock>>

\* SELECT ... FROM cases ... FOR UPDATE (and the joins of _lock_case and
\* _lock_row): waits for the row, and reads everything from then on.
LockCase(s) ==
  /\ WantsCase(s)
  /\ case # "Deleted"
  /\ caseLock = NoSession
  /\ caseLock' = s
  /\ tx' = [tx EXCEPT ![s].pc = "locked", ![s].view = View]
  /\ UNCHANGED <<records, reportLock>>

\* COMMIT or ROLLBACK.
End(s, next) ==
  /\ caseLock' = IF caseLock = s THEN NoSession ELSE caseLock
  /\ reportLock' = IF reportLock = s THEN NoSession ELSE reportLock
  /\ tx' = [tx EXCEPT ![s] = next]

\* A refusal, a lost connection, a lock wait timeout: nothing is kept.
Rollback(s) ==
  /\ tx[s].pc # "idle"
  /\ End(s, Idle)
  /\ UNCHANGED records

\* A transaction past its locks.
Ready(s, op) == tx[s].pc = "locked" /\ tx[s].op = op

---------------------------------------------------------------------------
(* The case.                                                               *)

ChangeStatus(s) ==
  LET t == tx[s]
  IN  /\ Ready(s, "status")
      /\ can_manage_case(t.by, t.view)
      /\ t.view.case # t.arg
      /\ case # "Closed"                  \* trg_cases_closed_readonly
      /\ case' = t.arg
      /\ End(s, Idle)
      /\ UNCHANGED <<members, leads, item, exam, report, notes>>

\* sp_assign_investigator; its user is an active investigator (Args).
AssignInvestigator(s) ==
  LET t == tx[s]
  IN  /\ Ready(s, "assign") \/ Ready(s, "lead")
      /\ can_manage_case(t.by, t.view)
      /\ IF t.op = "lead" THEN t.arg \notin t.view.leads ELSE t.arg \notin t.view.members
      /\ members' = members \cup {t.arg}
      /\ leads' = IF t.op = "lead" THEN {t.arg} ELSE leads
      /\ End(s, Idle)
      /\ UNCHANGED <<case, item, exam, report, notes>>

\* sp_remove_investigator.
RemoveInvestigator(s) ==
  LET t == tx[s]
  IN  /\ Ready(s, "remove")
      /\ can_manage_case(t.by, t.view)
      /\ t.arg \in t.view.members \ t.view.leads
      /\ members' = members \ {t.arg}
      /\ leads' = leads \ {t.arg}
      /\ End(s, Idle)
      /\ UNCHANGED <<case, item, exam, report, notes>>

\* Mutant: examinations under review do not count as work.
CloseCase_ReviewsIgnored(s) ==
  LET t == tx[s]
  IN  /\ Ready(s, "close")
      /\ can_manage_case(t.by, t.view)
      /\ t.view.exam.status \notin {"Pending", "In Progress"}
      /\ t.view.item \notin Outstanding
      /\ case # "Closed"
      /\ case' = "Closed"
      /\ End(s, Idle)
      /\ UNCHANGED <<members, leads, item, exam, report, notes>>

\* sp_close_case.
CloseCase(s) ==
  LET t == tx[s]
  IN  /\ Ready(s, "close")
      /\ can_manage_case(t.by, t.view)
      /\ t.view.exam.status \notin Unfinished
      /\ t.view.item \notin Outstanding
      /\ case # "Closed"                  \* trg_cases_closed_readonly
      /\ case' = "Closed"
      /\ End(s, Idle)
      /\ UNCHANGED <<members, leads, item, exam, report, notes>>

\* deletion_blockers: what must survive.
Empty(d) == d.item = "None" /\ d.exam = NoExam /\ d.report = NoReport /\ d.notes = 0

\* delete_case: its blockers, and the RESTRICT foreign keys when the row goes.
DeleteCase(s) ==
  LET t == tx[s]
  IN  /\ Ready(s, "delete")
      /\ Empty(t.view) /\ t.view.case # "Closed"
      /\ Empty(View)
      /\ case' = "Deleted"
      /\ members' = {}
      /\ leads' = {}
      /\ End(s, Idle)
      /\ UNCHANGED <<item, exam, report, notes>>

---------------------------------------------------------------------------
(* Notes.                                                                  *)

\* INSERT INTO case_notes: its trigger reads the status with a plain SELECT.
NoteTrigger(s) ==
  /\ tx[s].pc = "asked" /\ tx[s].op = "note"
  /\ case # "Closed"
  /\ tx' = [tx EXCEPT ![s].pc = "checked"]
  /\ UNCHANGED <<records, caseLock, reportLock>>

\* Mutant: no foreign key from the note to its case.
NoteInsert_NoForeignKey(s) ==
  /\ tx[s].pc = "checked"
  /\ notes < MaxNotes
  /\ notes' = notes + 1
  /\ End(s, Idle)
  /\ UNCHANGED <<case, members, leads, item, exam, report>>

\* The foreign key's shared lock on the case, the row, COMMIT.
NoteInsert(s) ==
  /\ tx[s].pc = "checked"
  /\ caseLock = NoSession
  /\ case # "Deleted"
  /\ notes < MaxNotes
  /\ notes' = notes + 1
  /\ End(s, Idle)
  /\ UNCHANGED <<case, members, leads, item, exam, report>>

---------------------------------------------------------------------------
(* The evidence item.                                                      *)

\* sp_register_evidence.
RegisterEvidence(s) ==
  LET t == tx[s]
  IN  /\ Ready(s, "register")
      /\ t.view.item = "None"             \* bound: one item
      /\ can_register(t.by, t.view)
      /\ item' = "In Transit"
      /\ End(s, Idle)
      /\ UNCHANGED <<case, members, leads, exam, report, notes>>

\* A handover, as Custody models it in full: it locks the item, never the case,
\* and is allowed on a closed one.
MoveItem(action) ==
  /\ item # "None"
  /\ v_allowed(action, item)
  /\ item' = v_new_status(action, item)
  /\ UNCHANGED <<case, members, leads, exam, report, notes, caseLock, reportLock, tx>>

---------------------------------------------------------------------------
(* The examination.                                                        *)

\* create_examination: the examiner was checked by Ask, and is not again.
CreateExamination(s) ==
  LET t == tx[s]
  IN  /\ Ready(s, "examine")
      /\ t.view.exam = NoExam             \* bound: one examination
      /\ t.view.case # "Closed"
      /\ exam' = [NoExam EXCEPT !.status = "Pending", !.examiner = t.arg]
      /\ End(s, Idle)
      /\ UNCHANGED <<case, members, leads, item, report, notes>>

\* trg_exam_finalised.
trg_exam_finalised(new) ==
  /\ exam.status \notin {"Completed", "Cancelled"}
  /\ new.status = "Completed" => exam.status = "Under Review" /\ new.reviewer # NoUser

\* A transaction past _lock, and its UPDATE of the examination.
Working(s, op) == Ready(s, op) /\ can_work_on_examination(tx[s].by, tx[s].view)

SetExam(s, new) ==
  /\ trg_exam_finalised(new)
  /\ exam' = new
  /\ End(s, Idle)
  /\ UNCHANGED <<case, members, leads, item, report, notes>>

update_record(s) ==
  /\ Working(s, "record")
  /\ tx[s].view.exam.edits < MaxEdits
  /\ SetExam(s, [exam EXCEPT !.written = tx[s].arg, !.edits = @ + 1])

add_artifact(s) ==
  /\ Working(s, "artifact")
  /\ tx[s].view.exam.edits < MaxEdits
  /\ SetExam(s, [exam EXCEPT !.edits = @ + 1])

link_evidence(s) ==
  /\ Working(s, "link")
  /\ tx[s].view.item # "None" /\ ~tx[s].view.exam.linked
  /\ SetExam(s, [exam EXCEPT !.linked = TRUE])

start(s) ==
  /\ Working(s, "start")
  /\ tx[s].view.exam.status = "Pending"
  /\ SetExam(s, [exam EXCEPT !.status = "In Progress"])

submit(s) ==
  /\ Working(s, "submit_exam")
  /\ tx[s].view.exam.status = "In Progress"
  /\ tx[s].view.exam.written
  /\ SetExam(s, [exam EXCEPT !.status = "Under Review"])

cancel(s) ==
  /\ Working(s, "cancel")
  /\ SetExam(s, [exam EXCEPT !.status = "Cancelled"])

approve(s) ==
  /\ Ready(s, "approve_exam")
  /\ can_review_examination(tx[s].by, tx[s].view)
  /\ SetExam(s, [exam EXCEPT !.status = "Completed", !.reviewer = tx[s].by])

return_for_revision(s) ==
  /\ Ready(s, "return_exam")
  /\ can_review_examination(tx[s].by, tx[s].view)
  /\ SetExam(s, [exam EXCEPT !.status = "In Progress"])

---------------------------------------------------------------------------
(* The report.                                                             *)

\* create_report: sp_create_report, which does not ask whether the case is
\* open; the citation follows in a transaction of its own.
CreateReport(s) ==
  LET t == tx[s]
  IN  /\ Ready(s, "write")
      /\ t.view.report = NoReport         \* bound: one report
      /\ t.by \in Admins \cup t.view.members
      /\ report' = [NoReport EXCEPT !.status = "Draft", !.author = t.by, !.versions = 1]
      /\ End(s, IF t.arg THEN [Idle EXCEPT !.pc = "asked", !.op = "cite", !.by = t.by] ELSE Idle)
      /\ UNCHANGED <<case, members, leads, item, exam, notes>>

\* sp_create_report_version: the report's lock, its status and its author.
SaveVersion(s) ==
  LET t == tx[s]
  IN  /\ Ready(s, "version")
      /\ t.view.report.status = "Draft"
      /\ t.by \in Admins \cup {t.view.report.author}
      /\ t.view.report.versions < MaxEdits
      /\ report' = [report EXCEPT !.versions = t.view.report.versions + 1]
      /\ End(s, Idle)
      /\ UNCHANGED <<case, members, leads, item, exam, notes>>

\* _link: the rows of the report and of the examination must be free for the
\* foreign keys' shared locks, and the pair must be new.
Cite(s) ==
  /\ tx[s].pc = "asked" /\ tx[s].op = "cite"
  /\ reportLock = NoSession
  /\ \A r \in Sessions : tx[r].pc = "locked" => tx[r].op \notin ExamSteps
  /\ exam # NoExam
  /\ ~report.cited
  /\ report' = [report EXCEPT !.cited = TRUE]
  /\ End(s, Idle)
  /\ UNCHANGED <<case, members, leads, item, exam, notes>>

\* The UPDATE of a review step, under the report's and the case's lock.
SetReport(s, new) ==
  /\ report' = new
  /\ End(s, Idle)
  /\ UNCHANGED <<case, members, leads, item, exam, notes>>

SubmitReport(s) ==
  /\ Ready(s, "submit_report")
  /\ can_edit_report(tx[s].by, tx[s].view)
  /\ SetReport(s, [report EXCEPT !.status = "Under Review"])

\* Mutant: the approver is not recorded.
ApproveReport_NoApprover(s) ==
  /\ Ready(s, "approve_report")
  /\ can_review_report(tx[s].by, tx[s].view)
  /\ SetReport(s, [report EXCEPT !.status = "Approved"])

ApproveReport(s) ==
  /\ Ready(s, "approve_report")
  /\ can_review_report(tx[s].by, tx[s].view)
  /\ SetReport(s, [report EXCEPT !.status = "Approved", !.approver = tx[s].by])

return_to_draft(s) ==
  /\ Ready(s, "return_report")
  /\ can_review_report(tx[s].by, tx[s].view)
  /\ SetReport(s, [report EXCEPT !.status = "Draft"])

---------------------------------------------------------------------------

\* A case just registered, by sp_register_case: open, with its lead.
Init ==
  /\ case = "Open"
  /\ \E u \in Investigators : members = {u} /\ leads = {u}
  /\ item = "None"
  /\ exam = NoExam
  /\ report = NoReport
  /\ notes = 0
  /\ caseLock = NoSession
  /\ reportLock = NoSession
  /\ tx = [s \in Sessions |-> Idle]

Finish(s) ==
  \/ ChangeStatus(s) \/ AssignInvestigator(s) \/ RemoveInvestigator(s)
  \/ CloseCase(s) \/ DeleteCase(s)
  \/ NoteTrigger(s) \/ NoteInsert(s)
  \/ RegisterEvidence(s) \/ CreateExamination(s)
  \/ update_record(s) \/ add_artifact(s) \/ link_evidence(s)
  \/ start(s) \/ submit(s) \/ cancel(s) \/ approve(s) \/ return_for_revision(s)
  \/ CreateReport(s) \/ SaveVersion(s) \/ Cite(s)
  \/ SubmitReport(s) \/ ApproveReport(s) \/ return_to_draft(s)

Next ==
  \/ \E s \in Sessions :
       \/ \E op \in Ops, u \in Users : \E arg \in Args(op) : Ask(s, op, u, arg)
       \/ LockReport(s) \/ LockCase(s) \/ Finish(s) \/ Rollback(s)
  \/ \E action \in Moves : MoveItem(action)

Spec == Init /\ [][Next]_vars

---------------------------------------------------------------------------
(* Properties.                                                             *)

Exam == [status : Unfinished \cup {"None", "Completed", "Cancelled"},
         examiner : Users \cup {NoUser}, reviewer : Users \cup {NoUser},
         written : BOOLEAN, linked : BOOLEAN, edits : 0 .. MaxEdits]

Report == [status : {"None", "Draft", "Under Review", "Approved"},
           author : Users \cup {NoUser}, approver : Users \cup {NoUser},
           versions : 0 .. MaxEdits, cited : BOOLEAN]

\* The types, with chk_rep_approval: an approved report names its approver.
TypeOK ==
  /\ case \in EditableStatuses \cup {"Closed", "Deleted"}
  /\ members \subseteq Investigators /\ leads \subseteq members
  /\ item \in Statuses \cup {"None"}
  /\ exam \in Exam
  /\ report \in Report
  /\ (report.status = "Approved") = (report.approver # NoUser)
  /\ notes \in 0 .. MaxNotes
  /\ caseLock \in Sessions \cup {NoSession}
  /\ reportLock \in Sessions \cup {NoSession}

\* tests/test_data_consistency_db.py:27: every case has exactly one lead,
\* however assignments, changes of lead and removals interleave.
ExactlyOneLead == case # "Deleted" => Cardinality(leads) = 1

\* sp_close_case and the case lock: a closed case has no unfinished
\* examination, although examinations are created and returned concurrently.
ExamsDoneOnClosed == case = "Closed" => exam.status \notin Unfinished

\* Decision D3, closing is final: no step changes a closed case, its team or
\* its examination, or adds evidence to it, whatever was asked before.
FrozenCase ==
  [][case = "Closed" => /\ UNCHANGED <<case, members, leads, exam>>
                        /\ item = "None" => item' = "None"]_vars

\* app/examinations/services.py:258: once submitted, the record is frozen
\* until a reviewer approves or returns it, and for good when it is finished.
RecordFrozenUnderReview ==
  [][/\ exam.status \in {"Under Review", "Completed", "Cancelled"}
          => UNCHANGED <<exam.written, exam.linked, exam.edits, exam.examiner>>
     /\ exam.status = "Under Review"
          => exam'.status \in {"Under Review", "Completed", "In Progress"}
     /\ exam.status \in {"Completed", "Cancelled"} => UNCHANGED exam]_vars

\* What is approved is what was submitted: no version is added after the
\* report left Draft, an approved report stays, and a step never takes a
\* version back or skips a number.  (That no number is used twice is the UNIQUE
\* key's business, uq_rv_report_version, and not claimed here.)
ReportFrozenUnderReview ==
  [][/\ report.status \in {"Under Review", "Approved"} => UNCHANGED report.versions
     /\ report.status = "Approved" => UNCHANGED <<report.status, report.approver>>
     /\ report'.versions \in {report.versions, report.versions + 1}]_vars

\* app/cases/services.py:482: only an empty case is deleted, also when
\* something is added to it at the same time.
DeletedLeftNothing == case = "Deleted" => Empty(View)

\* app/access.py:45, "Closed cases: examinations and reports become
\* read-only", and the test that closed cases received nothing after closure:
\* a closed case gets no note and no change to its report.
ClosedReceivesNothing ==
  [][case = "Closed" => UNCHANGED <<exam, report, notes>>]_vars

\* database/procedures.sql:675, "close only when no work or evidence is
\* outstanding": at the moment a case is closed its item is not out.
ClosedWithEvidenceIn ==
  [][case # "Closed" /\ case' = "Closed" => item \notin Outstanding]_vars

=============================================================================
