\* Two browsers, two administrators and a newcomer.
SPECIFICATION Spec
CONSTANTS
  Users = {adm, boss, new}
  FirstAdmins = {adm, boss}
  FirstStaff = {}
  Roles = {"Administrator", "Investigator"}
  Passwords = {p, q}
  Browsers = {b1, b2}
  Ops = {"logout", "password", "token", "add_role", "revoke_role", "deactivate", "activate", "reset", "create", "approve", "reject", "revoke_token"}
  LOGIN_MAX_FAILURES_PER_ACCOUNT = 1
  LOGIN_MAX_FAILURES_PER_IP = 2
  SIGNUP_MAX_PER_IP_PER_HOUR = 1
  API_FAILED_AUTH_PER_MINUTE = 1
  API_RATE_LIMIT_PER_MINUTE = 1
  MAX_ACTIVE_PER_USER = 1
  MaxRequests = 3
  NoUser = NoUser
  NoPassword = NoPassword
SYMMETRY BrowserSymmetry
INVARIANTS TypeOK AdminRemains LiveSessionKnowsPassword GuessesBounded TokensBounded
CHECK_DEADLOCK FALSE
