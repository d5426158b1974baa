\* Two requests at once on a case, its team, its item, its examination and its notes.
SPECIFICATION Spec
CONSTANTS
  Admins = {adm}
  Custodians = {}
  Investigators = {inv1, inv2}
  EditableStatuses = {"Open", "On Hold"}
  Ops = {"register", "status", "assign", "lead", "remove", "close", "delete", "examine", "record", "start", "submit_exam", "cancel", "approve_exam", "return_exam", "note"}
  Moves = {}
  Sessions = {s1, s2}
  MaxEdits = 2
  MaxNotes = 1
  NoUser = NoUser
  NoSession = NoSession
  NoView = NoView
SYMMETRY SessionSymmetry
INVARIANTS ExactlyOneLead ExamsDoneOnClosed DeletedLeftNothing
PROPERTIES FrozenCase RecordFrozenUnderReview
CHECK_DEADLOCK FALSE
