CONSTANTS
  ana = ana  ben = ben
  c1 = c1  c2 = c2  c3 = c3
  e1 = e1  e2 = e2  x1 = x1  x2 = x2  p1 = p1  a1 = a1
  h1 = h1  y1 = y1
  Users = {ana, ben}
  Cases = {c1, c2, c3}
  Items = {e1, e2, x1, x2, p1, a1}
  Hashes = {h1}
  Rules = {y1}
  NoHash = NoHash
  RolesOf <- MCRoles
  KindOf <- MCKind
  CaseOf <- MCCase
  HashOf <- MCHash
  FirstHits <- MCHits
  FirstThere <- MCThere
  FirstLinks <- MCLinks
  FirstAssigned <- MCAssigned
  Pages = {"cases", "evidence", "custody", "exams", "reports", "search", "dashboard", "charts", "analytics", "indicators", "case", "item", "exam", "report", "scan", "api_case", "api_evidence", "api_exam", "api_report", "api_cases", "api_items", "api_custody", "api_exams", "api_reports", "graph", "expand"}
  MAX_NODES = 5
  MaxChanges = 2
SPECIFICATION Spec
INVARIANTS TypeOK ShownWasVisible GraphIsWhole
