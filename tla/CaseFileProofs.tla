--------------------------- MODULE CaseFileProofs ---------------------------
(***************************************************************************)
(* Theorems about CaseFile, for any users, statuses, operations, sessions  *)
(* and bounds.                                                             *)
(*                                                                         *)
(* None of its properties is inductive: a request decides on what it read  *)
(* some steps before it writes.  What makes its view still true when it    *)
(* writes is the row lock it holds, and Sound says which one that is: the  *)
(* report's for a new version, the case's for all others, and both for the *)
(* review of a report.                                                     *)
(***************************************************************************)
EXTENDS CaseFile, FiniteSetTheorems, TLAPS

Places == {"idle", "asked", "half", "checked", "locked"}

\* The requests that work on a report that exists.
OnReport == ReportSteps \cup {"version", "cite"}

\* What a transaction under the case's lock has read is as it read it.
CaseKept(s) ==
  LET d == tx[s].view IN
  /\ caseLock = s
  /\ case # "Deleted"
  /\ d.case = case /\ d.members = members /\ d.leads = leads /\ d.exam = exam
  /\ d.report = NoReport => report = NoReport

\* The same of one under the report's lock.
ReportKept(s) == reportLock = s /\ tx[s].view.report = report

\* What holds of the request of a session.
Sound(s) ==
  LET t == tx[s] IN
  /\ t.pc \in Places /\ t.op \in AllOps
  /\ t.pc # "idle" => t.by \in Users /\ t.arg \in Args(t.op)
  /\ t.pc # "idle" /\ t.op \in OnReport => report # NoReport
  /\ t.pc = "half" => t.op \in ReportSteps /\ reportLock = s
  /\ t.pc = "locked" =>
       /\ t.op \notin {"cite", "note"}
       /\ t.op # "version" => CaseKept(s)
       /\ t.op \in ReportSteps \cup {"version"} => ReportKept(s)

\* Every session has a request with these fields.
Shape ==
  tx = [s \in Sessions |-> [pc |-> tx[s].pc, op |-> tx[s].op, by |-> tx[s].by,
                            arg |-> tx[s].arg, view |-> tx[s].view]]

IInv ==
  /\ TypeOK
  /\ Shape
  /\ \A s \in Sessions : Sound(s)
  /\ ExactlyOneLead
  /\ ExamsDoneOnClosed
  /\ DeletedLeftNothing

---------------------------------------------------------------------------
(* Facts about the operators.                                              *)

LEMMA OpFacts ==
  /\ CaseSteps \cup NewRecords \cup ExamSteps \subseteq AllOps \ (OnReport \cup {"note"})
  /\ OnReport \subseteq AllOps /\ "note" \in AllOps \ OnReport
  BY DEF AllOps, CaseSteps, NewRecords, ExamSteps, ReportSteps, OnReport

\* What the form of an operation carries.
LEMMA ArgFacts ==
  /\ \A op \in {"assign", "lead", "remove", "examine"} : Args(op) = Investigators
  /\ Args("status") = EditableStatuses
  /\ Args("record") = BOOLEAN /\ Args("write") = BOOLEAN
  /\ Args("cite") = {NoUser}
  BY DEF Args

\* The pages offer work on a report only when there is one.
LEMMA OfferedReport ==
  ASSUME NEW op \in OnReport, NEW u, NEW arg, Offered(op, u, arg, View)
  PROVE  report # NoReport
  <1>1. CASE op \in ReportSteps
    <2>1. op \notin CaseSteps \ {"delete"} /\ op \notin ExamSteps /\ op \notin {"approve_exam", "return_exam"}
          /\ op # "delete" /\ op # "register" /\ op # "examine" /\ op # "write"
      BY <1>1 DEF CaseSteps, ExamSteps, ReportSteps
    <2>2. op = "submit_report" \/ op = "approve_report" \/ op = "return_report"
      BY <1>1 DEF ReportSteps
    <2>3. View.report # NoReport
      BY <2>1, <2>2 DEF Offered, ReportSteps
    <2> QED BY <2>3 DEF View
  <1>2. CASE op \in {"version", "cite"}
    <2>1. op \notin CaseSteps \ {"delete"} /\ op \notin ExamSteps /\ op \notin {"approve_exam", "return_exam"}
          /\ op # "delete" /\ op # "register" /\ op # "examine" /\ op # "write" /\ op \notin ReportSteps
      BY <1>2 DEF CaseSteps, ExamSteps, ReportSteps
    <2>2. can_edit_report(u, View)
      BY <1>2, <2>1 DEF Offered
    <2> QED BY <2>2 DEF can_edit_report, View, NoReport
  <1> QED BY <1>1, <1>2 DEF OnReport

\* A handover leaves an item in a status.
LEMMA MoveStatus ==
  ASSUME NEW action \in TransferActions, NEW st \in Statuses
  PROVE  v_new_status(action, st) \in Statuses
  BY DEF v_new_status, Statuses, TransferActions

LEMMA NoneNotStatus == "None" \notin Statuses
  BY DEF Statuses

---------------------------------------------------------------------------
(* Requests.                                                               *)

\* A request with the fields of a request.
Fields(n) == n = [pc |-> n.pc, op |-> n.op, by |-> n.by, arg |-> n.arg, view |-> n.view]

LEMMA Update ==
  ASSUME Shape, NEW s \in Sessions, NEW n, Fields(n), tx' = [tx EXCEPT ![s] = n]
  PROVE  Shape' /\ tx'[s] = n /\ \A r \in Sessions \ {s} : tx'[r] = tx[r]
  <1>1. tx'[s] = n /\ \A r \in Sessions \ {s} : tx'[r] = tx[r]
    BY DEF Shape
  <1>2. tx' = [r \in Sessions |-> tx'[r]]
    BY DEF Shape
  <1>3. \A r \in Sessions : Fields(tx[r])
    BY DEF Shape, Fields
  <1>4. \A r \in Sessions : Fields(tx'[r])
    BY <1>1, <1>3
  <1> QED BY <1>1, <1>2, <1>4 DEF Shape, Fields

\* Setting a field of a request.
LEMMA SetPc ==
  ASSUME NEW t, Fields(t), NEW p
  PROVE  [t EXCEPT !.pc = p] = [pc |-> p, op |-> t.op, by |-> t.by, arg |-> t.arg, view |-> t.view]
  <1>1. t \in [pc : {t.pc}, op : {t.op}, by : {t.by}, arg : {t.arg}, view : {t.view}]
    BY DEF Fields
  <1> QED BY <1>1

LEMMA SetView ==
  ASSUME NEW t, Fields(t), NEW v
  PROVE  [t EXCEPT !.view = v] = [pc |-> t.pc, op |-> t.op, by |-> t.by, arg |-> t.arg, view |-> v]
  <1>1. t \in [pc : {t.pc}, op : {t.op}, by : {t.by}, arg : {t.arg}, view : {t.view}]
    BY DEF Fields
  <1> QED BY <1>1

LEMMA SetOp ==
  ASSUME NEW t, Fields(t), NEW x
  PROVE  [t EXCEPT !.op = x] = [pc |-> t.pc, op |-> x, by |-> t.by, arg |-> t.arg, view |-> t.view]
  <1>1. t \in [pc : {t.pc}, op : {t.op}, by : {t.by}, arg : {t.arg}, view : {t.view}]
    BY DEF Fields
  <1> QED BY <1>1

LEMMA SetBy ==
  ASSUME NEW t, Fields(t), NEW u
  PROVE  [t EXCEPT !.by = u] = [pc |-> t.pc, op |-> t.op, by |-> u, arg |-> t.arg, view |-> t.view]
  <1>1. t \in [pc : {t.pc}, op : {t.op}, by : {t.by}, arg : {t.arg}, view : {t.view}]
    BY DEF Fields
  <1> QED BY <1>1

\* A request goes on, with a view of its own.
LEMMA SetBoth ==
  ASSUME NEW t, Fields(t), NEW p, NEW v
  PROVE  [[t EXCEPT !.pc = p] EXCEPT !.view = v]
           = [pc |-> p, op |-> t.op, by |-> t.by, arg |-> t.arg, view |-> v]
  <1> DEFINE t1 == [t EXCEPT !.pc = p]
  <1>1. t1 = [pc |-> p, op |-> t.op, by |-> t.by, arg |-> t.arg, view |-> t.view]
    BY SetPc
  <1> HIDE DEF t1
  <1>2. Fields(t1) /\ t1.pc = p /\ t1.op = t.op /\ t1.by = t.by /\ t1.arg = t.arg
    BY <1>1 DEF Fields
  <1>3. [t1 EXCEPT !.view = v] = [pc |-> p, op |-> t.op, by |-> t.by, arg |-> t.arg, view |-> v]
    BY <1>2, SetView
  <1> QED BY <1>3 DEF t1

LEMMA IdleFields == Fields(Idle)
  BY DEF Idle, Fields

\* The citation that follows a new report.
Citation(u) == [pc |-> "asked", op |-> "cite", by |-> u, arg |-> NoUser, view |-> NoView]

LEMMA CitationOf ==
  ASSUME NEW u
  PROVE  [Idle EXCEPT !.pc = "asked", !.op = "cite", !.by = u] = Citation(u)
  <1> DEFINE a == [Idle EXCEPT !.pc = "asked"]
             b == [a EXCEPT !.op = "cite"]
  <1>1. Idle.op = "note" /\ Idle.by = NoUser /\ Idle.arg = NoUser /\ Idle.view = NoView
    BY DEF Idle
  <1>2. a = [pc |-> "asked", op |-> "note", by |-> NoUser, arg |-> NoUser, view |-> NoView]
    BY <1>1, SetPc, IdleFields
  <1> HIDE DEF a
  <1>3. Fields(a) /\ a.pc = "asked" /\ a.by = NoUser /\ a.arg = NoUser /\ a.view = NoView
    BY <1>2 DEF Fields
  <1>4. b = [pc |-> "asked", op |-> "cite", by |-> NoUser, arg |-> NoUser, view |-> NoView]
    BY <1>3, SetOp
  <1> HIDE DEF b
  <1>5. Fields(b) /\ b.pc = "asked" /\ b.op = "cite" /\ b.arg = NoUser /\ b.view = NoView
    BY <1>4 DEF Fields
  <1>6. [b EXCEPT !.by = u] = Citation(u)
    BY <1>5, SetBy DEF Citation
  <1> QED BY <1>6 DEF b, a

\* No other session loses a lock.
LocksLeft(s) == \A r \in Sessions \ {s} : /\ caseLock = r => caseLock' = r
                                          /\ reportLock = r => reportLock' = r

\* COMMIT and ROLLBACK end the request and free its locks, no other's.
LEMMA EndFacts ==
  ASSUME IInv, NEW s \in Sessions, NEW n, Fields(n), End(s, n)
  PROVE  /\ Shape' /\ tx'[s] = n /\ \A r \in Sessions \ {s} : tx'[r] = tx[r]
         /\ LocksLeft(s)
         /\ caseLock' \in Sessions \cup {NoSession}
         /\ reportLock' \in Sessions \cup {NoSession}
  <1>1. tx' = [tx EXCEPT ![s] = n]
    BY DEF End
  <1>2. Shape' /\ tx'[s] = n /\ \A r \in Sessions \ {s} : tx'[r] = tx[r]
    BY <1>1, Update DEF IInv
  <1>3. LocksLeft(s)
    BY DEF End, LocksLeft
  <1>4. /\ caseLock' \in Sessions \cup {NoSession}
        /\ reportLock' \in Sessions \cup {NoSession}
    BY DEF End, IInv, TypeOK
  <1> QED BY <1>2, <1>3, <1>4

LEMMA IdleSound ==
  ASSUME NEW s \in Sessions, tx'[s] = Idle
  PROVE  Sound(s)'
  BY OpFacts DEF Sound, Idle, Places, OnReport

\* The locks at work: a step that changes the case, its team or its
\* examination only under the case's lock, and the report only when nobody
\* else holds the report or, if it is new, under the case's lock, leaves
\* every other request what it has read.
LEMMA Others ==
  ASSUME IInv, NEW s \in Sessions, LocksLeft(s),
         \A r \in Sessions \ {s} : tx'[r] = tx[r],
         \/ UNCHANGED <<case, members, leads, exam>>
         \/ caseLock = s,
         \/ report' = report
         \/ /\ report # NoReport /\ report' # NoReport
            /\ \A r \in Sessions \ {s} : reportLock # r
         \/ report = NoReport /\ report' # NoReport /\ caseLock = s
  PROVE  \A r \in Sessions \ {s} : Sound(r)'
  <1> SUFFICES ASSUME NEW r \in Sessions, r # s
               PROVE  Sound(r)'
    OBVIOUS
  <1>1. Sound(r) /\ tx'[r] = tx[r]
    BY DEF IInv
  <1>2. tx[r].pc # "idle" /\ tx[r].op \in OnReport => report' # NoReport
    BY <1>1 DEF Sound
  <1>3. tx[r].pc = "half" => reportLock' = r
    BY <1>1 DEF Sound, LocksLeft
  <1>4. ASSUME tx[r].pc = "locked", tx[r].op # "version"
        PROVE  CaseKept(r)'
    <2>1. CaseKept(r)
      BY <1>1, <1>4 DEF Sound
    <2>2. caseLock = r /\ caseLock' = r
      BY <2>1 DEF CaseKept, LocksLeft
    <2>3. UNCHANGED <<case, members, leads, exam>>
      BY <2>2
    <2>4. tx[r].view.report = NoReport => report' = NoReport
      BY <2>1, <2>2 DEF CaseKept
    <2> QED BY <1>1, <2>1, <2>2, <2>3, <2>4 DEF CaseKept
  <1>5. ASSUME tx[r].pc = "locked", tx[r].op \in ReportSteps \cup {"version"}
        PROVE  ReportKept(r)'
    <2>1. ReportKept(r) /\ report # NoReport
      BY <1>1, <1>5 DEF Sound, OnReport
    <2>2. reportLock = r /\ reportLock' = r
      BY <2>1 DEF ReportKept, LocksLeft
    <2>3. report' = report
      BY <2>1, <2>2
    <2> QED BY <1>1, <2>1, <2>2, <2>3 DEF ReportKept
  <1>6. /\ tx[r].pc \in Places /\ tx[r].op \in AllOps
        /\ tx[r].pc # "idle" => tx[r].by \in Users /\ tx[r].arg \in Args(tx[r].op)
        /\ tx[r].pc = "half" => tx[r].op \in ReportSteps
        /\ tx[r].pc = "locked" => tx[r].op \notin {"cite", "note"}
    BY <1>1 DEF Sound
  <1> HIDE DEF CaseKept, ReportKept
  <1> QED BY <1>1, <1>2, <1>3, <1>4, <1>5, <1>6 DEF Sound

---------------------------------------------------------------------------
(* The invariant, step by step.                                            *)

LEMMA NoReportType == NoReport \in Report
  BY CaseFileAssumption DEF NoReport, Report

LEMMA NoExamType == NoExam \in Exam
  BY CaseFileAssumption DEF NoExam, Exam

LEMMA InitIInv == Init => IInv
  <1> SUFFICES ASSUME Init PROVE IInv
    OBVIOUS
  <1>1. TypeOK
    BY NoReportType, NoExamType, CaseFileAssumption DEF Init, TypeOK, NoReport
  <1>2. Shape
    BY IdleFields DEF Init, Shape, Fields
  <1>3. \A s \in Sessions : Sound(s)
    BY OpFacts DEF Init, Sound, Idle, Places
  <1>4. ExactlyOneLead
    <2>1. PICK u \in Investigators : leads = {u}
      BY DEF Init
    <2>2. Cardinality({u}) = 1
      BY FS_Singleton
    <2> QED BY <2>1, <2>2 DEF ExactlyOneLead
  <1>5. ExamsDoneOnClosed /\ DeletedLeftNothing
    BY DEF Init, ExamsDoneOnClosed, DeletedLeftNothing
  <1> QED BY <1>1, <1>2, <1>3, <1>4, <1>5 DEF IInv

\* What TypeOK and the invariants say of the records.
RecordsOK ==
  /\ case \in EditableStatuses \cup {"Closed", "Deleted"}
  /\ members \subseteq Investigators /\ leads \subseteq members
  /\ item \in Statuses \cup {"None"}
  /\ exam \in Exam
  /\ report \in Report
  /\ (report.status = "Approved") = (report.approver # NoUser)
  /\ notes \in 0 .. MaxNotes
  /\ ExactlyOneLead /\ ExamsDoneOnClosed /\ DeletedLeftNothing

LEMMA IInvRecords == IInv => RecordsOK
  BY DEF IInv, RecordsOK, TypeOK

\* The invariant again, from its parts.
LEMMA Assemble ==
  ASSUME RecordsOK', Shape', \A r \in Sessions : Sound(r)',
         caseLock' \in Sessions \cup {NoSession}, reportLock' \in Sessions \cup {NoSession}
  PROVE  IInv'
  BY DEF IInv, RecordsOK, TypeOK

\* A step that changes no record.
LEMMA SameRecords ==
  ASSUME RecordsOK, UNCHANGED records
  PROVE  RecordsOK'
  BY DEF RecordsOK, records, ExactlyOneLead, ExamsDoneOnClosed, DeletedLeftNothing, Empty, View

LEMMA AskStep ==
  ASSUME IInv, NEW s \in Sessions, NEW op \in Ops, NEW u \in Users, NEW arg \in Args(op),
         Ask(s, op, u, arg)
  PROVE  IInv'
  <1> DEFINE n == [pc |-> "asked", op |-> op, by |-> u, arg |-> arg, view |-> NoView]
  <1>1. RecordsOK'
    BY IInvRecords, SameRecords DEF Ask
  <1>2. Fields(n) /\ tx' = [tx EXCEPT ![s] = n]
    BY DEF Ask, Fields
  <1> HIDE DEF n
  <1>3. Shape' /\ tx'[s] = n /\ \A r \in Sessions \ {s} : tx'[r] = tx[r]
    BY <1>2, Update DEF IInv
  <1>4. UNCHANGED <<case, members, leads, exam, report, caseLock, reportLock>>
    BY DEF Ask, records
  <1>5. \A r \in Sessions \ {s} : Sound(r)'
    BY <1>3, <1>4, Others DEF LocksLeft
  <1>6. op \in AllOps
    BY CaseFileAssumption
  <1>7. op \in OnReport => report' # NoReport
    BY <1>4, OfferedReport DEF Ask
  <1>8. Sound(s)'
    BY <1>3, <1>6, <1>7 DEF n, Sound, Places
  <1> QED BY <1>1, <1>3, <1>4, <1>5, <1>8, Assemble DEF IInv, TypeOK

LEMMA LockReportStep ==
  ASSUME IInv, NEW s \in Sessions, LockReport(s)
  PROVE  IInv'
  <1> DEFINE p == IF tx[s].op = "version" THEN "locked" ELSE "half"
             v == IF tx[s].op = "version" THEN View ELSE NoView
             n == [pc |-> p, op |-> tx[s].op, by |-> tx[s].by, arg |-> tx[s].arg, view |-> v]
  <1>0. Sound(s) /\ Shape /\ Fields(tx[s])
    BY DEF IInv, Shape, Fields
  <1>1. RecordsOK'
    BY IInvRecords, SameRecords DEF LockReport
  <1>2. Fields(n)
    BY DEF Fields
  <1>3. tx' = [tx EXCEPT ![s] = n]
    <2>1. tx' = [tx EXCEPT ![s].pc = p, ![s].view = v]
      BY Zenon DEF LockReport
    <2> HIDE DEF p, v
    <2>2. tx' = [tx EXCEPT ![s] = [[tx[s] EXCEPT !.pc = p] EXCEPT !.view = v]]
      BY <1>0, <2>1 DEF Shape
    <2>3. [[tx[s] EXCEPT !.pc = p] EXCEPT !.view = v] = n
      BY <1>0, SetBoth
    <2> QED BY <2>2, <2>3, Zenon
  <1> HIDE DEF n
  <1>4. Shape' /\ tx'[s] = n /\ \A r \in Sessions \ {s} : tx'[r] = tx[r]
    BY <1>0, <1>2, <1>3, Update
  <1>5. UNCHANGED <<case, members, leads, exam, report, caseLock>> /\ reportLock' = s
        /\ reportLock = NoSession
    BY DEF LockReport, records
  <1>6. \A r \in Sessions \ {s} : Sound(r)'
    BY <1>4, <1>5, Others, CaseFileAssumption DEF LocksLeft
  <1>7. Sound(s)'
    <2>1. tx[s].op \in ReportSteps \cup {"version"} /\ tx[s].op \in OnReport /\ report' # NoReport
      BY <1>5 DEF LockReport, OnReport
    <2>2. tx[s].op \in AllOps /\ tx[s].by \in Users /\ tx[s].arg \in Args(tx[s].op)
      BY <1>0 DEF Sound, LockReport
    <2>3. tx[s].op = "version" => ReportKept(s)'
      BY <1>4, <1>5 DEF n, ReportKept, View
    <2>4. "version" \notin ReportSteps
      BY DEF ReportSteps
    <2>5. /\ tx'[s].pc = IF tx[s].op = "version" THEN "locked" ELSE "half"
          /\ tx'[s].op = tx[s].op /\ tx'[s].by = tx[s].by /\ tx'[s].arg = tx[s].arg
      BY <1>4 DEF n
    <2> QED BY <1>5, <2>1, <2>2, <2>3, <2>4, <2>5 DEF Sound, Places
  <1>8. caseLock' \in Sessions \cup {NoSession} /\ reportLock' \in Sessions \cup {NoSession}
    BY <1>5 DEF IInv, TypeOK
  <1> QED BY <1>1, <1>4, <1>6, <1>7, <1>8, Assemble

LEMMA LockCaseStep ==
  ASSUME IInv, NEW s \in Sessions, LockCase(s)
  PROVE  IInv'
  <1> DEFINE n == [pc |-> "locked", op |-> tx[s].op, by |-> tx[s].by, arg |-> tx[s].arg,
                   view |-> View]
  <1>0. Sound(s) /\ Shape /\ Fields(tx[s])
    BY DEF IInv, Shape, Fields
  <1>1. RecordsOK'
    BY IInvRecords, SameRecords DEF LockCase
  <1>2. Fields(n)
    BY DEF Fields
  <1>3. tx' = [tx EXCEPT ![s] = n]
    <2> DEFINE v == View
    <2>1. tx' = [tx EXCEPT ![s].pc = "locked", ![s].view = v]
      BY Zenon DEF LockCase
    <2> HIDE DEF v
    <2>2. tx' = [tx EXCEPT ![s] = [[tx[s] EXCEPT !.pc = "locked"] EXCEPT !.view = v]]
      BY <1>0, <2>1 DEF Shape
    <2>3. [[tx[s] EXCEPT !.pc = "locked"] EXCEPT !.view = v] = n
      BY <1>0, SetBoth DEF v
    <2> QED BY <2>2, <2>3, Zenon
  <1> HIDE DEF n
  <1>4. Shape' /\ tx'[s] = n /\ \A r \in Sessions \ {s} : tx'[r] = tx[r]
    BY <1>0, <1>2, <1>3, Update
  <1>5. UNCHANGED <<case, members, leads, exam, report, reportLock>> /\ caseLock' = s
        /\ caseLock = NoSession /\ case # "Deleted"
    BY DEF LockCase, records
  <1>6. \A r \in Sessions \ {s} : Sound(r)'
    BY <1>4, <1>5, Others, CaseFileAssumption DEF LocksLeft
  <1>7. Sound(s)'
    <2>1. tx[s].pc # "idle" /\ tx[s].op \notin {"cite", "note", "version"}
          /\ (tx[s].op \in ReportSteps => reportLock = s)
      BY <1>0, OpFacts DEF Sound, LockCase, WantsCase, OnReport, ReportSteps
    <2>2. tx[s].op \in AllOps /\ tx[s].by \in Users /\ tx[s].arg \in Args(tx[s].op)
          /\ (tx[s].op \in OnReport => report' # NoReport)
      BY <1>0, <1>5, <2>1 DEF Sound
    <2>3. CaseKept(s)' /\ (reportLock = s => ReportKept(s)')
      BY <1>4, <1>5 DEF n, CaseKept, ReportKept, View
    <2>4. /\ tx'[s].pc = "locked"
          /\ tx'[s].op = tx[s].op /\ tx'[s].by = tx[s].by /\ tx'[s].arg = tx[s].arg
      BY <1>4 DEF n
    <2> HIDE DEF CaseKept, ReportKept
    <2> QED BY <2>1, <2>2, <2>3, <2>4 DEF Sound, Places
  <1>8. caseLock' \in Sessions \cup {NoSession} /\ reportLock' \in Sessions \cup {NoSession}
    BY <1>5 DEF IInv, TypeOK
  <1> QED BY <1>1, <1>4, <1>6, <1>7, <1>8, Assemble

\* A request that ends, and what it may have changed.
LEMMA EndStep ==
  ASSUME IInv, NEW s \in Sessions, End(s, Idle), RecordsOK',
         \/ UNCHANGED <<case, members, leads, exam>>
         \/ caseLock = s,
         \/ report' = report
         \/ /\ report # NoReport /\ report' # NoReport
            /\ \A r \in Sessions \ {s} : reportLock # r
         \/ report = NoReport /\ report' # NoReport /\ caseLock = s
  PROVE  IInv'
  <1>1. /\ Shape' /\ tx'[s] = Idle /\ \A r \in Sessions \ {s} : tx'[r] = tx[r]
        /\ LocksLeft(s)
        /\ caseLock' \in Sessions \cup {NoSession}
        /\ reportLock' \in Sessions \cup {NoSession}
    BY EndFacts, IdleFields
  <1>2. \A r \in Sessions \ {s} : Sound(r)'
    BY <1>1, Others
  <1>3. Sound(s)'
    BY <1>1, IdleSound
  <1> QED BY <1>1, <1>2, <1>3, Assemble

LEMMA RollbackStep ==
  ASSUME IInv, NEW s \in Sessions, Rollback(s)
  PROVE  IInv'
  <1>1. RecordsOK'
    BY IInvRecords, SameRecords DEF Rollback
  <1> QED BY <1>1, EndStep DEF Rollback, records

---------------------------------------------------------------------------
(* What a transaction past its locks may do.  Legal puts the action        *)
(* properties of CaseFile together, for one step.                          *)

FrozenStep ==
  case = "Closed" => /\ UNCHANGED <<case, members, leads, exam>>
                     /\ item = "None" => item' = "None"

RecordStep ==
  /\ exam.status \in {"Under Review", "Completed", "Cancelled"}
       => UNCHANGED <<exam.written, exam.linked, exam.edits, exam.examiner>>
  /\ exam.status = "Under Review"
       => exam'.status \in {"Under Review", "Completed", "In Progress"}
  /\ exam.status \in {"Completed", "Cancelled"} => UNCHANGED exam

ReportStep ==
  /\ report.status \in {"Under Review", "Approved"} => UNCHANGED report.versions
  /\ report.status = "Approved" => UNCHANGED <<report.status, report.approver>>
  /\ report'.versions \in {report.versions, report.versions + 1}

Legal == FrozenStep /\ RecordStep /\ ReportStep

\* A step that leaves the examination and the report alone.
LEMMA Calm ==
  ASSUME UNCHANGED <<exam, report>>,
         case = "Closed" => /\ UNCHANGED <<case, members, leads>>
                            /\ item = "None" => item' = "None"
  PROVE  Legal
  <1>1. RecordStep
    BY DEF RecordStep
  <1>2. ReportStep
    BY DEF ReportStep
  <1>3. FrozenStep
    BY DEF FrozenStep
  <1> QED BY <1>1, <1>2, <1>3 DEF Legal

\* Past the case's lock.
LEMMA HoldsCase ==
  ASSUME IInv, NEW s \in Sessions, NEW op \in CaseSteps \cup NewRecords \cup ExamSteps, Ready(s, op)
  PROVE  CaseKept(s) /\ tx[s].by \in Users /\ tx[s].arg \in Args(op) /\ tx[s].op = op
  <1>1. Sound(s) /\ tx[s].pc = "locked" /\ tx[s].op = op
    BY DEF IInv, Ready
  <1>2. op # "version"
    BY OpFacts DEF OnReport
  <1> QED BY <1>1, <1>2 DEF Sound

\* Past the report's lock.
LEMMA HoldsReport ==
  ASSUME IInv, NEW s \in Sessions, NEW op \in ReportSteps \cup {"version"}, Ready(s, op)
  PROVE  /\ ReportKept(s) /\ tx[s].by \in Users /\ report # NoReport
         /\ op # "version" => CaseKept(s)
  <1>1. Sound(s) /\ tx[s].pc = "locked" /\ tx[s].op = op
    BY DEF IInv, Ready
  <1> QED BY <1>1 DEF Sound, OnReport

---------------------------------------------------------------------------
(* The case and its notes.                                                 *)

LEMMA ChangeStatusStep ==
  ASSUME IInv, NEW s \in Sessions, ChangeStatus(s)
  PROVE  IInv' /\ Legal
  <1>1. CaseKept(s) /\ tx[s].arg \in EditableStatuses
    BY HoldsCase, ArgFacts DEF ChangeStatus, CaseSteps
  <1>2. /\ case # "Closed" /\ case # "Deleted" /\ case' = tx[s].arg /\ caseLock = s
        /\ UNCHANGED <<members, leads, item, exam, report, notes>> /\ End(s, Idle)
    BY <1>1 DEF ChangeStatus, CaseKept
  <1>3. case' \in EditableStatuses /\ case' # "Closed" /\ case' # "Deleted"
    BY <1>1, <1>2, CaseFileAssumption
  <1>4. RecordsOK'
    BY <1>2, <1>3, IInvRecords DEF RecordsOK, ExactlyOneLead, ExamsDoneOnClosed, DeletedLeftNothing
  <1>5. IInv'
    BY <1>2, <1>4, EndStep
  <1>6. Legal
    BY <1>2, Calm
  <1> QED BY <1>5, <1>6

LEMMA AssignInvestigatorStep ==
  ASSUME IInv, NEW s \in Sessions, AssignInvestigator(s)
  PROVE  IInv' /\ Legal
  <1>1. CaseKept(s) /\ tx[s].arg \in Investigators
    BY HoldsCase, ArgFacts DEF AssignInvestigator, CaseSteps
  <1>2. /\ case # "Closed" /\ case # "Deleted" /\ caseLock = s
        /\ members' = members \cup {tx[s].arg}
        /\ leads' = {tx[s].arg} \/ leads' = leads
        /\ UNCHANGED <<case, item, exam, report, notes>> /\ End(s, Idle)
    BY <1>1 DEF AssignInvestigator, CaseKept, can_manage_case
  <1>3. Cardinality({tx[s].arg}) = 1
    BY FS_Singleton
  <1>4. members' \subseteq Investigators /\ leads' \subseteq members'
    BY <1>1, <1>2, IInvRecords DEF RecordsOK
  <1>5. Cardinality(leads') = 1
    BY <1>2, <1>3, IInvRecords DEF RecordsOK, ExactlyOneLead
  <1>6. RecordsOK'
    BY <1>2, <1>4, <1>5, IInvRecords DEF RecordsOK, ExactlyOneLead, ExamsDoneOnClosed, DeletedLeftNothing
  <1>7. IInv'
    BY <1>2, <1>6, EndStep
  <1>8. Legal
    BY <1>2, Calm
  <1> QED BY <1>7, <1>8

LEMMA RemoveInvestigatorStep ==
  ASSUME IInv, NEW s \in Sessions, RemoveInvestigator(s)
  PROVE  IInv' /\ Legal
  <1>1. CaseKept(s)
    BY HoldsCase DEF RemoveInvestigator, CaseSteps
  <1>2. /\ case # "Closed" /\ case # "Deleted" /\ caseLock = s
        /\ members' = members \ {tx[s].arg} /\ tx[s].arg \notin leads
        /\ leads' = leads \ {tx[s].arg}
        /\ UNCHANGED <<case, item, exam, report, notes>> /\ End(s, Idle)
    BY <1>1 DEF RemoveInvestigator, CaseKept, can_manage_case
  <1>3. leads' = leads
    BY <1>2
  <1>4. members' \subseteq Investigators /\ leads' \subseteq members'
    BY <1>2, <1>3, IInvRecords DEF RecordsOK
  <1>5. RecordsOK'
    BY <1>2, <1>3, <1>4, IInvRecords DEF RecordsOK, ExactlyOneLead, ExamsDoneOnClosed, DeletedLeftNothing
  <1>6. IInv'
    BY <1>2, <1>5, EndStep
  <1>7. Legal
    BY <1>2, Calm
  <1> QED BY <1>6, <1>7

LEMMA CloseCaseStep ==
  ASSUME IInv, NEW s \in Sessions, CloseCase(s)
  PROVE  IInv' /\ Legal
  <1>1. CaseKept(s)
    BY HoldsCase DEF CloseCase, CaseSteps
  <1>2. /\ case # "Closed" /\ case # "Deleted" /\ case' = "Closed" /\ caseLock = s
        /\ exam.status \notin Unfinished
        /\ UNCHANGED <<members, leads, item, exam, report, notes>> /\ End(s, Idle)
    BY <1>1 DEF CloseCase, CaseKept
  <1>3. RecordsOK'
    BY <1>2, IInvRecords DEF RecordsOK, ExactlyOneLead, ExamsDoneOnClosed, DeletedLeftNothing
  <1>4. IInv'
    BY <1>2, <1>3, EndStep
  <1>5. Legal
    BY <1>2, Calm
  <1> QED BY <1>4, <1>5

LEMMA DeleteCaseStep ==
  ASSUME IInv, NEW s \in Sessions, DeleteCase(s)
  PROVE  IInv' /\ Legal
  <1>1. CaseKept(s)
    BY HoldsCase DEF DeleteCase, CaseSteps
  <1>2. /\ case # "Closed" /\ case' = "Deleted" /\ caseLock = s
        /\ members' = {} /\ leads' = {} /\ Empty(View)
        /\ UNCHANGED <<item, exam, report, notes>> /\ End(s, Idle)
    BY <1>1 DEF DeleteCase, CaseKept
  <1>3. Empty(View)'
    BY <1>2 DEF Empty, View
  <1>4. RecordsOK'
    BY <1>2, <1>3, IInvRecords DEF RecordsOK, ExactlyOneLead, ExamsDoneOnClosed, DeletedLeftNothing
  <1>5. IInv'
    BY <1>2, <1>4, EndStep
  <1>6. Legal
    BY <1>2, Calm
  <1> QED BY <1>5, <1>6

LEMMA NoteTriggerStep ==
  ASSUME IInv, NEW s \in Sessions, NoteTrigger(s)
  PROVE  IInv' /\ Legal
  <1> DEFINE n == [pc |-> "checked", op |-> tx[s].op, by |-> tx[s].by, arg |-> tx[s].arg,
                   view |-> tx[s].view]
  <1>0. Sound(s) /\ Shape /\ Fields(tx[s])
    BY DEF IInv, Shape, Fields
  <1>1. RecordsOK'
    BY IInvRecords, SameRecords DEF NoteTrigger
  <1>2. Fields(n)
    BY DEF Fields
  <1>3. tx' = [tx EXCEPT ![s] = n]
    <2>1. tx' = [tx EXCEPT ![s] = [tx[s] EXCEPT !.pc = "checked"]]
      BY <1>0 DEF NoteTrigger, Shape
    <2>2. [tx[s] EXCEPT !.pc = "checked"] = n
      BY <1>0, SetPc
    <2> QED BY <2>1, <2>2, Zenon
  <1> HIDE DEF n
  <1>4. Shape' /\ tx'[s] = n /\ \A r \in Sessions \ {s} : tx'[r] = tx[r]
    BY <1>0, <1>2, <1>3, Update
  <1>5. UNCHANGED <<case, members, leads, item, exam, report, notes, caseLock, reportLock>>
    BY DEF NoteTrigger, records
  <1>6. \A r \in Sessions \ {s} : Sound(r)'
    BY <1>4, <1>5, Others DEF LocksLeft
  <1>7. Sound(s)'
    <2>1. /\ tx[s].op = "note" /\ tx[s].pc = "asked"
      BY DEF NoteTrigger
    <2>2. tx'[s].pc = "checked" /\ tx'[s].op = tx[s].op /\ tx'[s].by = tx[s].by /\ tx'[s].arg = tx[s].arg
      BY <1>4 DEF n
    <2> QED BY <1>0, <2>1, <2>2, OpFacts DEF Sound, Places
  <1>8. caseLock' \in Sessions \cup {NoSession} /\ reportLock' \in Sessions \cup {NoSession}
    BY <1>5 DEF IInv, TypeOK
  <1>9. IInv'
    BY <1>1, <1>4, <1>6, <1>7, <1>8, Assemble
  <1>10. Legal
    BY <1>5, Calm
  <1> QED BY <1>9, <1>10

LEMMA NoteInsertStep ==
  ASSUME IInv, NEW s \in Sessions, NoteInsert(s)
  PROVE  IInv' /\ Legal
  <1>1. /\ case # "Deleted" /\ notes' = notes + 1 /\ notes < MaxNotes
        /\ UNCHANGED <<case, members, leads, item, exam, report>> /\ End(s, Idle)
    BY DEF NoteInsert
  <1>2. notes' \in 0 .. MaxNotes
    BY <1>1, IInvRecords, CaseFileAssumption DEF RecordsOK
  <1>3. RecordsOK'
    BY <1>1, <1>2, IInvRecords DEF RecordsOK, ExactlyOneLead, ExamsDoneOnClosed, DeletedLeftNothing
  <1>4. IInv'
    BY <1>1, <1>3, EndStep
  <1>5. Legal
    BY <1>1, Calm
  <1> QED BY <1>4, <1>5

---------------------------------------------------------------------------
(* The evidence item.                                                      *)

LEMMA RegisterEvidenceStep ==
  ASSUME IInv, NEW s \in Sessions, RegisterEvidence(s)
  PROVE  IInv' /\ Legal
  <1>1. CaseKept(s)
    BY HoldsCase DEF RegisterEvidence, NewRecords
  <1>2. /\ case # "Closed" /\ case # "Deleted" /\ item' = "In Transit"
        /\ UNCHANGED <<case, members, leads, exam, report, notes>> /\ End(s, Idle)
    BY <1>1 DEF RegisterEvidence, CaseKept, can_register
  <1>3. item' \in Statuses
    BY <1>2 DEF Statuses
  <1>4. RecordsOK'
    BY <1>2, <1>3, IInvRecords DEF RecordsOK, ExactlyOneLead, ExamsDoneOnClosed, DeletedLeftNothing
  <1>5. IInv'
    BY <1>2, <1>4, EndStep
  <1>6. Legal
    BY <1>2, Calm
  <1> QED BY <1>5, <1>6

LEMMA MoveItemStep ==
  ASSUME IInv, NEW action \in Moves, MoveItem(action)
  PROVE  IInv' /\ Legal
  <1>1. /\ item # "None" /\ item' = v_new_status(action, item)
        /\ UNCHANGED <<case, members, leads, exam, report, notes, caseLock, reportLock, tx>>
    BY DEF MoveItem
  <1>2. item' \in Statuses
    BY <1>1, MoveStatus, CaseFileAssumption, IInvRecords DEF RecordsOK
  <1>3. case # "Deleted"
    BY <1>1, IInvRecords DEF RecordsOK, DeletedLeftNothing, Empty, View
  <1>4. RecordsOK'
    BY <1>1, <1>2, <1>3, IInvRecords DEF RecordsOK, ExactlyOneLead, ExamsDoneOnClosed, DeletedLeftNothing
  <1>5. \A r \in Sessions : Sound(r)'
    BY <1>1 DEF IInv, Sound, CaseKept, ReportKept
  <1>6. Shape' /\ caseLock' \in Sessions \cup {NoSession} /\ reportLock' \in Sessions \cup {NoSession}
    BY <1>1 DEF IInv, Shape, TypeOK
  <1>7. IInv'
    BY <1>4, <1>5, <1>6, Assemble
  <1>8. Legal
    BY <1>1, Calm
  <1> QED BY <1>7, <1>8

---------------------------------------------------------------------------
(* The examination.                                                        *)

\* A change of the examination under the case's lock.
LEMMA ExamChange ==
  ASSUME IInv, NEW s \in Sessions, caseLock = s, case # "Closed", case # "Deleted",
         exam' \in Exam, RecordStep, End(s, Idle),
         UNCHANGED <<case, members, leads, item, report, notes>>
  PROVE  IInv' /\ Legal
  <1>1. RecordsOK'
    BY IInvRecords DEF RecordsOK, ExactlyOneLead, ExamsDoneOnClosed, DeletedLeftNothing
  <1>2. IInv'
    BY <1>1, EndStep
  <1>3. ReportStep
    BY DEF ReportStep
  <1>4. FrozenStep
    BY DEF FrozenStep
  <1> QED BY <1>2, <1>3, <1>4 DEF Legal

LEMMA CreateExaminationStep ==
  ASSUME IInv, NEW s \in Sessions, CreateExamination(s)
  PROVE  IInv' /\ Legal
  <1>1. CaseKept(s) /\ tx[s].arg \in Investigators
    BY HoldsCase, ArgFacts DEF CreateExamination, NewRecords
  <1>2. /\ case # "Closed" /\ case # "Deleted" /\ caseLock = s /\ exam = NoExam
        /\ exam' = [NoExam EXCEPT !.status = "Pending", !.examiner = tx[s].arg]
        /\ UNCHANGED <<case, members, leads, item, report, notes>> /\ End(s, Idle)
    BY <1>1 DEF CreateExamination, CaseKept
  <1>3. exam' = [status |-> "Pending", examiner |-> tx[s].arg, reviewer |-> NoUser,
                 written |-> FALSE, linked |-> FALSE, edits |-> 0]
    BY <1>2 DEF NoExam
  <1>4. exam' \in Exam
    BY <1>1, <1>3, CaseFileAssumption DEF Exam, Unfinished, Users
  <1>5. RecordStep
    BY <1>2 DEF RecordStep, NoExam
  <1> QED BY <1>2, <1>4, <1>5, ExamChange

\* Past _lock: the record is open to work, in a case that is not closed.
LEMMA WorkingFacts ==
  ASSUME IInv, NEW s \in Sessions, NEW op \in ExamSteps, Working(s, op)
  PROVE  /\ caseLock = s /\ case # "Closed" /\ case # "Deleted"
         /\ exam \in Exam /\ exam = tx[s].view.exam
         /\ exam.status \in {"Pending", "In Progress"}
         /\ tx[s].arg \in Args(op)
  <1>1. CaseKept(s) /\ tx[s].arg \in Args(op)
    BY HoldsCase DEF Working
  <1> QED BY <1>1, IInvRecords DEF Working, can_work_on_examination, CaseKept, RecordsOK

\* A record open to work may become any other.
LEMMA WorkStep ==
  ASSUME IInv, NEW s \in Sessions, NEW op \in ExamSteps, Working(s, op), NEW new \in Exam,
         SetExam(s, new)
  PROVE  IInv' /\ Legal
  <1>1. RecordStep
    BY WorkingFacts DEF RecordStep
  <1>2. /\ exam' = new /\ End(s, Idle)
        /\ UNCHANGED <<case, members, leads, item, report, notes>>
    BY DEF SetExam
  <1> QED BY <1>1, <1>2, WorkingFacts, ExamChange

LEMMA update_recordStep ==
  ASSUME IInv, NEW s \in Sessions, update_record(s)
  PROVE  IInv' /\ Legal
  <1>1. Working(s, "record") /\ "record" \in ExamSteps
    BY DEF update_record, ExamSteps
  <1>2. exam \in Exam /\ exam.edits < MaxEdits /\ tx[s].arg \in BOOLEAN
    BY <1>1, WorkingFacts, ArgFacts DEF update_record
  <1> DEFINE new == [exam EXCEPT !.written = tx[s].arg, !.edits = @ + 1]
  <1>3. new \in Exam
    <2>1. \A b \in BOOLEAN : [exam EXCEPT !.written = b] \in Exam
      BY <1>2 DEF Exam
    <2> DEFINE filled == [exam EXCEPT !.written = tx[s].arg]
    <2>2. filled \in Exam /\ filled.edits = exam.edits
      BY <1>2, <2>1 DEF Exam
    <2> HIDE DEF filled
    <2>3. [filled EXCEPT !.edits = @ + 1] \in Exam
      BY <1>2, <2>2, CaseFileAssumption DEF Exam
    <2> QED BY <2>3 DEF filled
  <1>4. SetExam(s, new)
    BY DEF update_record
  <1> HIDE DEF new
  <1> QED BY <1>1, <1>3, <1>4, WorkStep

LEMMA add_artifactStep ==
  ASSUME IInv, NEW s \in Sessions, add_artifact(s)
  PROVE  IInv' /\ Legal
  <1>1. Working(s, "artifact") /\ "artifact" \in ExamSteps
    BY DEF add_artifact, ExamSteps
  <1>2. exam \in Exam /\ exam.edits < MaxEdits
    BY <1>1, WorkingFacts DEF add_artifact
  <1> DEFINE new == [exam EXCEPT !.edits = @ + 1]
  <1>3. new \in Exam
    BY <1>2, CaseFileAssumption DEF Exam
  <1>4. SetExam(s, new)
    BY DEF add_artifact
  <1> HIDE DEF new
  <1> QED BY <1>1, <1>3, <1>4, WorkStep

LEMMA link_evidenceStep ==
  ASSUME IInv, NEW s \in Sessions, link_evidence(s)
  PROVE  IInv' /\ Legal
  <1>1. Working(s, "link") /\ "link" \in ExamSteps
    BY DEF link_evidence, ExamSteps
  <1>2. exam \in Exam
    BY <1>1, WorkingFacts
  <1> DEFINE new == [exam EXCEPT !.linked = TRUE]
  <1>3. new \in Exam
    BY <1>2 DEF Exam
  <1>4. SetExam(s, new)
    BY DEF link_evidence
  <1> HIDE DEF new
  <1> QED BY <1>1, <1>3, <1>4, WorkStep

LEMMA startStep ==
  ASSUME IInv, NEW s \in Sessions, start(s)
  PROVE  IInv' /\ Legal
  <1>1. Working(s, "start") /\ "start" \in ExamSteps
    BY DEF start, ExamSteps
  <1>2. exam \in Exam
    BY <1>1, WorkingFacts
  <1> DEFINE new == [exam EXCEPT !.status = "In Progress"]
  <1>3. new \in Exam
    BY <1>2 DEF Exam, Unfinished
  <1>4. SetExam(s, new)
    BY DEF start
  <1> HIDE DEF new
  <1> QED BY <1>1, <1>3, <1>4, WorkStep

LEMMA submitStep ==
  ASSUME IInv, NEW s \in Sessions, submit(s)
  PROVE  IInv' /\ Legal
  <1>1. Working(s, "submit_exam") /\ "submit_exam" \in ExamSteps
    BY DEF submit, ExamSteps
  <1>2. exam \in Exam
    BY <1>1, WorkingFacts
  <1> DEFINE new == [exam EXCEPT !.status = "Under Review"]
  <1>3. new \in Exam
    BY <1>2 DEF Exam, Unfinished
  <1>4. SetExam(s, new)
    BY DEF submit
  <1> HIDE DEF new
  <1> QED BY <1>1, <1>3, <1>4, WorkStep

LEMMA cancelStep ==
  ASSUME IInv, NEW s \in Sessions, cancel(s)
  PROVE  IInv' /\ Legal
  <1>1. Working(s, "cancel") /\ "cancel" \in ExamSteps
    BY DEF cancel, ExamSteps
  <1>2. exam \in Exam
    BY <1>1, WorkingFacts
  <1> DEFINE new == [exam EXCEPT !.status = "Cancelled"]
  <1>3. new \in Exam
    BY <1>2 DEF Exam
  <1>4. SetExam(s, new)
    BY DEF cancel
  <1> HIDE DEF new
  <1> QED BY <1>1, <1>3, <1>4, WorkStep

\* A reviewer acts on a record under review, in a case that is not closed.
LEMMA ReviewFacts ==
  ASSUME IInv, NEW s \in Sessions, NEW op \in ExamSteps, Ready(s, op),
         can_review_examination(tx[s].by, tx[s].view)
  PROVE  /\ caseLock = s /\ case # "Closed" /\ case # "Deleted"
         /\ exam \in Exam /\ exam.status = "Under Review"
         /\ tx[s].by \in Users
  <1>1. CaseKept(s) /\ tx[s].by \in Users
    BY HoldsCase
  <1> QED BY <1>1, IInvRecords DEF can_review_examination, CaseKept, RecordsOK

LEMMA approveStep ==
  ASSUME IInv, NEW s \in Sessions, approve(s)
  PROVE  IInv' /\ Legal
  <1>1. /\ caseLock = s /\ case # "Closed" /\ case # "Deleted"
        /\ exam \in Exam /\ exam.status = "Under Review"
        /\ tx[s].by \in Users
    BY ReviewFacts DEF approve, ExamSteps
  <1>2. /\ exam' = [exam EXCEPT !.status = "Completed", !.reviewer = tx[s].by]
        /\ End(s, Idle) /\ UNCHANGED <<case, members, leads, item, report, notes>>
    BY DEF approve, SetExam
  <1>3. exam' \in Exam
    BY <1>1, <1>2 DEF Exam
  <1>4. RecordStep
    BY <1>1, <1>2 DEF RecordStep, Exam
  <1> QED BY <1>1, <1>2, <1>3, <1>4, ExamChange

LEMMA return_for_revisionStep ==
  ASSUME IInv, NEW s \in Sessions, return_for_revision(s)
  PROVE  IInv' /\ Legal
  <1>1. /\ caseLock = s /\ case # "Closed" /\ case # "Deleted"
        /\ exam \in Exam /\ exam.status = "Under Review"
    BY ReviewFacts DEF return_for_revision, ExamSteps
  <1>2. /\ exam' = [exam EXCEPT !.status = "In Progress"]
        /\ End(s, Idle) /\ UNCHANGED <<case, members, leads, item, report, notes>>
    BY DEF return_for_revision, SetExam
  <1>3. exam' \in Exam
    BY <1>1, <1>2 DEF Exam, Unfinished
  <1>4. RecordStep
    BY <1>1, <1>2 DEF RecordStep, Exam
  <1> QED BY <1>1, <1>2, <1>3, <1>4, ExamChange

---------------------------------------------------------------------------
(* The report.                                                             *)

\* The type of a report, with chk_rep_approval.
ReportOK(r) == r \in Report /\ (r.status = "Approved") = (r.approver # NoUser)

\* A change of the report that leaves the other records alone.
LEMMA ReportRecords ==
  ASSUME IInv, ReportOK(report'), case # "Deleted",
         UNCHANGED <<case, members, leads, item, exam, notes>>
  PROVE  RecordsOK'
  BY IInvRecords DEF RecordsOK, ReportOK, ExactlyOneLead, ExamsDoneOnClosed, DeletedLeftNothing

LEMMA ReportLegal ==
  ASSUME UNCHANGED <<case, members, leads, item, exam, notes>>, ReportStep
  PROVE  Legal
  <1>1. RecordStep
    BY DEF RecordStep
  <1>2. FrozenStep
    BY DEF FrozenStep
  <1> QED BY <1>1, <1>2 DEF Legal

LEMMA CreateReportStep ==
  ASSUME IInv, NEW s \in Sessions, CreateReport(s)
  PROVE  IInv' /\ Legal
  <1> DEFINE cite == Citation(tx[s].by)
  <1>1. CaseKept(s) /\ tx[s].by \in Users /\ tx[s].arg \in BOOLEAN
    BY HoldsCase, ArgFacts DEF CreateReport, NewRecords
  <1>2. /\ case # "Deleted" /\ caseLock = s /\ report = NoReport
        /\ report' = [NoReport EXCEPT !.status = "Draft", !.author = tx[s].by, !.versions = 1]
        /\ UNCHANGED <<case, members, leads, item, exam, notes>>
    BY <1>1 DEF CreateReport, CaseKept
  <1>3. report' = [status |-> "Draft", author |-> tx[s].by, approver |-> NoUser,
                   versions |-> 1, cited |-> FALSE]
    BY <1>2 DEF NoReport
  <1>4. ReportOK(report') /\ report' # NoReport
    BY <1>1, <1>3, CaseFileAssumption DEF ReportOK, Report, NoReport
  <1>5. ReportStep
    BY <1>2, <1>3 DEF ReportStep, NoReport
  <1>6. RecordsOK'
    BY <1>2, <1>4, ReportRecords
  <1>7. Legal
    BY <1>2, <1>5, ReportLegal
  <1>8. CASE ~ tx[s].arg
    <2>1. End(s, Idle)
      BY <1>8 DEF CreateReport
    <2> QED BY <1>2, <1>4, <1>6, <1>7, <2>1, EndStep
  <1>9. CASE tx[s].arg
    <2>1. [Idle EXCEPT !.pc = "asked", !.op = "cite", !.by = tx[s].by] = cite
      BY CitationOf
    <2>2. End(s, [Idle EXCEPT !.pc = "asked", !.op = "cite", !.by = tx[s].by])
      BY <1>9 DEF CreateReport
    <2>3. Fields(cite) /\ cite.pc = "asked" /\ cite.op = "cite" /\ cite.by = tx[s].by /\ cite.arg = NoUser
      BY DEF Fields, Citation
    <2> HIDE DEF cite
    <2>4. End(s, cite)
      BY <2>1, <2>2, Zenon
    <2>5. /\ Shape' /\ tx'[s] = cite /\ \A r \in Sessions \ {s} : tx'[r] = tx[r]
          /\ LocksLeft(s)
          /\ caseLock' \in Sessions \cup {NoSession}
          /\ reportLock' \in Sessions \cup {NoSession}
      BY <2>3, <2>4, EndFacts
    <2>6. \A r \in Sessions \ {s} : Sound(r)'
      BY <1>2, <1>4, <2>5, Others
    <2>7. Sound(s)'
      BY <1>1, <1>4, <2>3, <2>5, ArgFacts, OpFacts DEF Sound, Places, OnReport
    <2> QED BY <1>6, <1>7, <2>5, <2>6, <2>7, Assemble
  <1> QED BY <1>1, <1>8, <1>9

\* A change of a report that exists, when no other request holds it.
LEMMA ReportChange ==
  ASSUME IInv, NEW s \in Sessions, End(s, Idle), case # "Deleted",
         report # NoReport, report' # NoReport, ReportOK(report'), ReportStep,
         \A r \in Sessions \ {s} : reportLock # r,
         UNCHANGED <<case, members, leads, item, exam, notes>>
  PROVE  IInv' /\ Legal
  <1>1. RecordsOK'
    BY ReportRecords
  <1>2. IInv'
    BY <1>1, EndStep
  <1> QED BY <1>2, ReportLegal

\* Only an empty case is gone, so that one with a report is not.
LEMMA ReportNotDeleted ==
  ASSUME IInv, report # NoReport
  PROVE  case # "Deleted"
  BY IInvRecords DEF RecordsOK, DeletedLeftNothing, Empty, View

LEMMA SaveVersionStep ==
  ASSUME IInv, NEW s \in Sessions, SaveVersion(s)
  PROVE  IInv' /\ Legal
  <1>1. ReportKept(s) /\ report # NoReport
    BY HoldsReport DEF SaveVersion
  <1>2. /\ report.status = "Draft" /\ report.versions < MaxEdits /\ reportLock = s
        /\ report' = [report EXCEPT !.versions = report.versions + 1]
        /\ UNCHANGED <<case, members, leads, item, exam, notes>> /\ End(s, Idle)
    BY <1>1 DEF SaveVersion, ReportKept
  <1>3. ReportOK(report)
    BY IInvRecords DEF RecordsOK, ReportOK
  <1>4. ReportOK(report') /\ report'.status = "Draft"
    <2>1. report.versions + 1 \in 0 .. MaxEdits
      <3>1. report.versions \in 0 .. MaxEdits
        BY <1>3 DEF ReportOK, Report
      <3>2. MaxEdits \in Nat
        BY CaseFileAssumption
      <3> QED BY <1>2, <3>1, <3>2
    <2>2. /\ report' \in Report
          /\ report'.status = report.status /\ report'.approver = report.approver
      BY <1>2, <1>3, <2>1 DEF ReportOK, Report
    <2> QED BY <1>2, <1>3, <2>2 DEF ReportOK
  <1>5. ReportStep
    BY <1>2, <1>3 DEF ReportStep, ReportOK, Report
  <1>6. report' # NoReport
    BY <1>4 DEF NoReport
  <1> QED BY <1>1, <1>2, <1>4, <1>5, <1>6, ReportNotDeleted, ReportChange

LEMMA CiteStep ==
  ASSUME IInv, NEW s \in Sessions, Cite(s)
  PROVE  IInv' /\ Legal
  <1>1. /\ tx[s].pc = "asked" /\ tx[s].op = "cite" /\ reportLock = NoSession
        /\ report' = [report EXCEPT !.cited = TRUE]
        /\ UNCHANGED <<case, members, leads, item, exam, notes>> /\ End(s, Idle)
    BY DEF Cite
  <1>2. report # NoReport
    BY <1>1 DEF IInv, Sound, OnReport
  <1>3. ReportOK(report)
    BY IInvRecords DEF RecordsOK, ReportOK
  <1>4. ReportOK(report') /\ report'.cited = TRUE
    BY <1>1, <1>3 DEF ReportOK, Report
  <1>5. ReportStep
    BY <1>1, <1>3 DEF ReportStep, ReportOK, Report
  <1>6. report' # NoReport
    BY <1>4 DEF NoReport
  <1> QED BY <1>1, <1>2, <1>4, <1>5, <1>6, ReportNotDeleted, ReportChange, CaseFileAssumption

\* A review step holds the report and the case.
LEMMA ReviewStepFacts ==
  ASSUME IInv, NEW s \in Sessions, NEW op \in ReportSteps, Ready(s, op)
  PROVE  /\ reportLock = s /\ report # NoReport /\ case # "Deleted"
         /\ tx[s].view.report = report /\ tx[s].by \in Users
         /\ ReportOK(report)
  <1>1. ReportKept(s) /\ CaseKept(s) /\ tx[s].by \in Users /\ report # NoReport
    BY HoldsReport DEF ReportSteps
  <1> QED BY <1>1, IInvRecords DEF ReportKept, CaseKept, RecordsOK, ReportOK

LEMMA SubmitReportStep ==
  ASSUME IInv, NEW s \in Sessions, SubmitReport(s)
  PROVE  IInv' /\ Legal
  <1>1. /\ reportLock = s /\ report # NoReport /\ case # "Deleted"
        /\ tx[s].view.report = report /\ ReportOK(report)
    BY ReviewStepFacts DEF SubmitReport, ReportSteps
  <1>2. /\ report.status = "Draft" /\ report' = [report EXCEPT !.status = "Under Review"]
        /\ UNCHANGED <<case, members, leads, item, exam, notes>> /\ End(s, Idle)
    BY <1>1 DEF SubmitReport, SetReport, can_edit_report
  <1>3. ReportOK(report') /\ report'.status = "Under Review"
    BY <1>1, <1>2 DEF ReportOK, Report
  <1>4. ReportStep
    BY <1>1, <1>2 DEF ReportStep, ReportOK, Report
  <1>5. report' # NoReport
    <2>1. NoReport.status = "None"
      BY DEF NoReport
    <2> QED BY <1>3, <2>1
  <1> QED BY <1>1, <1>2, <1>3, <1>4, <1>5, ReportChange

LEMMA ApproveReportStep ==
  ASSUME IInv, NEW s \in Sessions, ApproveReport(s)
  PROVE  IInv' /\ Legal
  <1>1. /\ reportLock = s /\ report # NoReport /\ case # "Deleted"
        /\ tx[s].view.report = report /\ tx[s].by \in Users /\ ReportOK(report)
    BY ReviewStepFacts DEF ApproveReport, ReportSteps
  <1>2. /\ report.status = "Under Review"
        /\ report' = [report EXCEPT !.status = "Approved", !.approver = tx[s].by]
        /\ UNCHANGED <<case, members, leads, item, exam, notes>> /\ End(s, Idle)
    BY <1>1 DEF ApproveReport, SetReport, can_review_report
  <1>3. ReportOK(report') /\ report'.status = "Approved"
    BY <1>1, <1>2, CaseFileAssumption DEF ReportOK, Report
  <1>4. ReportStep
    BY <1>1, <1>2 DEF ReportStep, ReportOK, Report
  <1>5. report' # NoReport
    BY <1>3 DEF NoReport
  <1> QED BY <1>1, <1>2, <1>3, <1>4, <1>5, ReportChange

LEMMA return_to_draftStep ==
  ASSUME IInv, NEW s \in Sessions, return_to_draft(s)
  PROVE  IInv' /\ Legal
  <1>1. /\ reportLock = s /\ report # NoReport /\ case # "Deleted"
        /\ tx[s].view.report = report /\ ReportOK(report)
    BY ReviewStepFacts DEF return_to_draft, ReportSteps
  <1>2. /\ report.status = "Under Review" /\ report' = [report EXCEPT !.status = "Draft"]
        /\ UNCHANGED <<case, members, leads, item, exam, notes>> /\ End(s, Idle)
    BY <1>1 DEF return_to_draft, SetReport, can_review_report
  <1>3. ReportOK(report') /\ report'.status = "Draft"
    BY <1>1, <1>2 DEF ReportOK, Report
  <1>4. ReportStep
    BY <1>1, <1>2 DEF ReportStep, ReportOK, Report
  <1>5. report' # NoReport
    BY <1>3 DEF NoReport
  <1> QED BY <1>1, <1>2, <1>3, <1>4, <1>5, ReportChange

---------------------------------------------------------------------------
(* Every step.                                                             *)

LEMMA FinishStep ==
  ASSUME IInv, NEW s \in Sessions, Finish(s)
  PROVE  IInv' /\ Legal
  BY ChangeStatusStep, AssignInvestigatorStep, RemoveInvestigatorStep, CloseCaseStep,
     DeleteCaseStep, NoteTriggerStep, NoteInsertStep, RegisterEvidenceStep,
     CreateExaminationStep, update_recordStep, add_artifactStep, link_evidenceStep,
     startStep, submitStep, cancelStep, approveStep, return_for_revisionStep,
     CreateReportStep, SaveVersionStep, CiteStep, SubmitReportStep, ApproveReportStep,
     return_to_draftStep
     DEF Finish

LEMMA SameLegal ==
  ASSUME UNCHANGED records
  PROVE  Legal
  <1>1. UNCHANGED <<case, members, leads, item, exam, report>>
    BY DEF records
  <1> QED BY <1>1, Calm

LEMMA NextStep == IInv /\ [Next]_vars => IInv' /\ (Legal \/ UNCHANGED vars)
  <1> SUFFICES ASSUME IInv, [Next]_vars
               PROVE  IInv' /\ (Legal \/ UNCHANGED vars)
    OBVIOUS
  <1>1. ASSUME NEW s \in Sessions, NEW op \in Ops, NEW u \in Users, NEW arg \in Args(op),
               Ask(s, op, u, arg)
        PROVE  IInv' /\ Legal
    BY <1>1, AskStep, SameLegal DEF Ask
  <1>2. ASSUME NEW s \in Sessions, LockReport(s)
        PROVE  IInv' /\ Legal
    BY <1>2, LockReportStep, SameLegal DEF LockReport
  <1>3. ASSUME NEW s \in Sessions, LockCase(s)
        PROVE  IInv' /\ Legal
    BY <1>3, LockCaseStep, SameLegal DEF LockCase
  <1>4. ASSUME NEW s \in Sessions, Rollback(s)
        PROVE  IInv' /\ Legal
    BY <1>4, RollbackStep, SameLegal DEF Rollback
  <1>5. CASE UNCHANGED vars
    <2>1. RecordsOK'
      BY <1>5, IInvRecords, SameRecords DEF vars, records
    <2>2. Shape' /\ (\A r \in Sessions : Sound(r)') /\ caseLock' \in Sessions \cup {NoSession}
          /\ reportLock' \in Sessions \cup {NoSession}
      BY <1>5 DEF vars, IInv, Shape, Sound, CaseKept, ReportKept, TypeOK
    <2> QED BY <1>5, <2>1, <2>2, Assemble
  <1>6. CASE Next
    BY <1>1, <1>2, <1>3, <1>4, <1>6, FinishStep, MoveItemStep DEF Next
  <1> QED BY <1>5, <1>6

LEMMA Invariance == Spec => []IInv
  BY InitIInv, NextStep, PTL DEF Spec

---------------------------------------------------------------------------

\* The types of the case file (schema.sql), with chk_rep_approval: an approved
\* report names its approver.
THEOREM TypeCorrect == Spec => []TypeOK
  <1>1. IInv => TypeOK
    BY DEF IInv
  <1> QED BY <1>1, Invariance, PTL

\* sp_assign_investigator and sp_remove_investigator: a case has exactly one
\* lead, whichever assignments, changes of lead and removals run at once.
THEOREM OneLead == Spec => []ExactlyOneLead
  <1>1. IInv => ExactlyOneLead
    BY DEF IInv
  <1> QED BY <1>1, Invariance, PTL

\* sp_close_case: no examination of a closed case is unfinished, although
\* examinations are created, returned and cancelled while it closes.
THEOREM ClosedExaminations == Spec => []ExamsDoneOnClosed
  <1>1. IInv => ExamsDoneOnClosed
    BY DEF IInv
  <1> QED BY <1>1, Invariance, PTL

\* delete_case: a case that is gone left no item, examination, report or
\* note behind, although each may be added while it is deleted.
THEOREM DeletionLeavesNothing == Spec => []DeletedLeftNothing
  <1>1. IInv => DeletedLeftNothing
    BY DEF IInv
  <1> QED BY <1>1, Invariance, PTL

\* Decision D3: no step changes a closed case, its team or its examination,
\* or registers evidence in it, whatever was asked before it closed.
THEOREM ClosingIsFinal == Spec => FrozenCase
  <1>1. IInv /\ [Next]_vars => [FrozenStep]_vars
    BY NextStep DEF Legal
  <1> QED BY <1>1, Invariance, PTL DEF Spec, FrozenCase, FrozenStep

\* app/examinations: a submitted record is as it was submitted until a
\* reviewer returns it, and a finished one for good.
THEOREM SubmittedRecordFrozen == Spec => RecordFrozenUnderReview
  <1>1. IInv /\ [Next]_vars => [RecordStep]_vars
    BY NextStep DEF Legal
  <1> QED BY <1>1, Invariance, PTL DEF Spec, RecordFrozenUnderReview, RecordStep

\* sp_create_report_version and the review of a report: what is approved is
\* what was submitted, whoever saves a version at the same time.
THEOREM SubmittedReportFrozen == Spec => ReportFrozenUnderReview
  <1>1. IInv /\ [Next]_vars => [ReportStep]_vars
    BY NextStep DEF Legal
  <1> QED BY <1>1, Invariance, PTL DEF Spec, ReportFrozenUnderReview, ReportStep

=============================================================================
