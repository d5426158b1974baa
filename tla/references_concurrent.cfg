\* Three registrations by procedure at once, over two years, up to and past the
\* number that no longer fits the code (width 1 stands for 4 and 5).
SPECIFICATION Spec
CONSTANTS
  Sessions = {s1, s2, s3}
  MaxYear = 2
  MaxNumber = 11
  Capacity = 9
  YearReadAgain = FALSE
  NoSession = NoSession
  NoRow = NoRow
SYMMETRY SessionSymmetry
INVARIANTS CodesGapFree NumberIsFree
PROPERTIES ImplementsRegister
CHECK_DEADLOCK FALSE
