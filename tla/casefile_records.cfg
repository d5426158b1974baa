\* Two requests at once on the item, the examination and the report of a case
\* that may close meanwhile.
SPECIFICATION Spec
CONSTANTS
  Admins = {adm}
  Custodians = {}
  Investigators = {inv1}
  EditableStatuses = {"Open"}
  Ops = {"close", "register", "examine", "link", "artifact", "cancel", "write", "version", "cite", "submit_report", "approve_report", "return_report"}
  Moves = {"Received", "Checked Out"}
  Sessions = {s1, s2}
  MaxEdits = 2
  MaxNotes = 1
  NoUser = NoUser
  NoSession = NoSession
  NoView = NoView
SYMMETRY SessionSymmetry
INVARIANTS TypeOK
PROPERTIES ReportFrozenUnderReview
CHECK_DEADLOCK FALSE
