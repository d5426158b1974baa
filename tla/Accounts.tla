------------------------------ MODULE Accounts ------------------------------
(***************************************************************************)
(* Accounts: signing in and out, passwords, roles, access requests, the    *)
(* last administrator, personal API tokens and the limits on guessing      *)
(* (app/auth, app/users, app/api/tokens.py, the API's authenticate, and    *)
(* the commands set-password and create-admin).                            *)
(*                                                                         *)
(* A request first turns the cookie into g.user (Begin), then checks with  *)
(* plain reads, then runs one transaction; each of these is a step, since  *)
(* another request may come between them.  g.user, roles included, is as   *)
(* old as the beginning of the request.  Rows locked by a transaction are  *)
(* in held until it ends.                                                  *)
(*                                                                         *)
(* A password stands for its hash.  A user's names are constant, and all   *)
(* browsers come from one address; a terminal at the prompt of             *)
(* create-admin counts among them.  Attempts and API calls that fall out   *)
(* of their window do so in the order they were made.                      *)
(***************************************************************************)
EXTENDS Naturals, Sequences, FiniteSets

CONSTANTS
  Users,            \* accounts that may come to exist
  FirstAdmins,      \* the administrators of an installation already in use
  FirstStaff,       \* its other users
  Roles,            \* "Administrator" and others
  Passwords,
  Browsers,         \* each runs one request at a time
  Ops,              \* the operations of this instance
  LOGIN_MAX_FAILURES_PER_ACCOUNT,
  LOGIN_MAX_FAILURES_PER_IP,
  SIGNUP_MAX_PER_IP_PER_HOUR,
  API_FAILED_AUTH_PER_MINUTE,
  API_RATE_LIMIT_PER_MINUTE,
  MAX_ACTIVE_PER_USER,
  MaxRequests,      \* bound on the requests of a behaviour
  NoUser, NoPassword

ADMIN == "Administrator"

SelfOps  == {"logout", "password", "token"}
AdminOps == {"add_role", "revoke_role", "deactivate", "activate", "reset",
             "create", "approve", "reject"}
AllOps   == SelfOps \cup AdminOps \cup {"revoke_token"}

ASSUME AccountsAssumption ==
  /\ FirstAdmins \subseteq Users /\ FirstStaff \subseteq Users
  /\ FirstAdmins # {} /\ FirstAdmins \cap FirstStaff = {}
  /\ ADMIN \in Roles /\ Roles # {ADMIN}
  /\ NoUser \notin Users /\ NoPassword \notin Passwords
  /\ Passwords # {}
  /\ Ops \subseteq AllOps
  /\ IsFiniteSet(Browsers) /\ Browsers # {}
  /\ MaxRequests \in Nat
  /\ LOGIN_MAX_FAILURES_PER_ACCOUNT \in Nat
  /\ MAX_ACTIVE_PER_USER \in Nat

VARIABLES
  users,       \* users and user_roles
  requests,    \* account_requests: the latest request for each user's names
  attempts,    \* login_attempts
  signups,     \* audited requests of the last hour
  tokens,      \* api_tokens
  fails,       \* _HITS["api-fail:..."] within the last minute
  hits,        \* _HITS["api-user:..."] within the last minute
  cookie,      \* each browser's session; its password is a history field
  held,        \* row locks of each browser's transaction
  req,         \* each browser's request
  started      \* requests so far

vars == <<users, requests, attempts, signups, tokens, fails, hits, cookie, held, req, started>>

Row(a, h, v, m, R) == [exists |-> TRUE, active |-> a, hash |-> h, version |-> v,
                       must |-> m, roles |-> R]
NoRow == [exists |-> FALSE, active |-> FALSE, hash |-> NoPassword, version |-> 0,
          must |-> FALSE, roles |-> {}]

Idle == [pc |-> "idle", op |-> "logout", by |-> NoUser, admin |-> FALSE,
         target |-> NoUser, role |-> ADMIN, typed |-> NoPassword,
         new |-> NoPassword, ident |-> "username", row |-> NoRow, token |-> 0]

NoCookie == [uid |-> NoUser, sv |-> 0, pw |-> NoPassword]

Idents == {"username", "email"}
Places == {"idle", "limit", "attempt", "verify", "count", "check", "target", "admins",
           "commit", "signup", "api", "prompt"}

UserRow == [exists : BOOLEAN, active : BOOLEAN, hash : Passwords \cup {NoPassword},
            version : Nat, must : BOOLEAN, roles : SUBSET Roles]
Request == [pc : Places, op : AllOps, by : Users \cup {NoUser}, admin : BOOLEAN,
            target : Users \cup {NoUser}, role : Roles,
            typed : Passwords \cup {NoPassword}, new : Passwords \cup {NoPassword},
            ident : Idents, row : UserRow, token : Nat]

\* Bound: a new request starts only within the budget.
Start(b) == req[b].pc = "idle" /\ started < MaxRequests /\ started' = started + 1

To(b, place) == req' = [req EXCEPT ![b].pc = place]

Done(b) == req' = [req EXCEPT ![b] = Idle] /\ held' = [held EXCEPT ![b] = {}]

ActiveAdmins == {u \in Users : users[u].active /\ ADMIN \in users[u].roles}

\* No other transaction holds the row.
Free(b, row) == \A c \in Browsers \ {b} : row \notin held[c]

---------------------------------------------------------------------------
(* Signing in: app/auth/services.py, authenticate.                         *)

\* What was typed: the username or the email of an account.
Name(r) == <<r.target, r.ident>>

\* The failures after the last success, of the attempts that satisfy who.
Since(who(_)) ==
  {k \in DOMAIN attempts : who(attempts[k]) /\ attempts[k].reason = "invalid_credentials"
     /\ \A n \in DOMAIN attempts : who(attempts[n]) /\ attempts[n].reason = "" => n < k}

\* Mutant: counts per typed identifier, as the security view does.
is_rate_limited_ByIdentifier(r) ==
  Cardinality(Since(LAMBDA a : a.name = Name(r))) >= LOGIN_MAX_FAILURES_PER_ACCOUNT

\* Username and email are two identifiers of one account: an attempt counts
\* by what was typed or by the account the read has found.
is_rate_limited(r) ==
  \/ Cardinality(Since(LAMBDA a : \/ a.name = Name(r)
                                  \/ r.row.exists /\ a.user = r.target))
       >= LOGIN_MAX_FAILURES_PER_ACCOUNT
  \/ Cardinality({k \in DOMAIN attempts : attempts[k].reason # ""}) >= LOGIN_MAX_FAILURES_PER_IP

SignedIn(b) ==
  LET u == cookie[b].uid IN
  u # NoUser /\ users[u].active /\ users[u].version = cookie[b].sv

record_attempt(r, why) ==
  attempts' = Append(attempts, [name |-> Name(r), reason |-> why,
                                user |-> IF r.row.exists THEN r.target ELSE NoUser])

\* The login form, and the first read: hash, status and version together.
SubmitLogin(b, u, i, p) ==
  /\ Start(b)
  /\ ~ SignedIn(b)
  /\ req' = [req EXCEPT ![b] = [Idle EXCEPT !.pc = "limit", !.target = u, !.ident = i,
                                            !.typed = p, !.row = users[u]]]
  /\ UNCHANGED <<users, requests, attempts, signups, tokens, fails, hits, cookie, held>>

CheckLimit(b) ==
  LET r == req[b] IN
  /\ r.pc = "limit"
  /\ IF is_rate_limited(r)
     THEN record_attempt(r, "rate_limited") /\ Done(b)
     ELSE To(b, "attempt") /\ UNCHANGED <<attempts, held>>
  /\ UNCHANGED <<users, requests, signups, tokens, fails, hits, cookie, started>>

Refuse(b) ==
  LET r == req[b] IN
  /\ r.pc = "attempt"
  /\ r.row.hash # r.typed \/ ~ r.row.active
  /\ record_attempt(r, IF r.row.hash # r.typed THEN "invalid_credentials"
                                               ELSE "account_inactive")
  /\ Done(b)
  /\ UNCHANGED <<users, requests, signups, tokens, fails, hits, cookie, started>>

\* Mutant: the version is read again when the session starts.
Admit_FreshVersion(b) ==
  LET r == req[b] IN
  /\ r.pc = "attempt"
  /\ r.row.hash = r.typed /\ r.row.active
  /\ Free(b, <<"users", r.target>>)
  /\ record_attempt(r, "")
  /\ cookie' = [cookie EXCEPT ![b] = [uid |-> r.target, sv |-> users[r.target].version,
                                      pw |-> r.typed]]
  /\ Done(b)
  /\ UNCHANGED <<users, requests, signups, tokens, fails, hits, started>>

\* The attempt and last_login_at in one transaction, then the new session.
Admit(b) ==
  LET r == req[b] IN
  /\ r.pc = "attempt"
  /\ r.row.hash = r.typed /\ r.row.active
  /\ Free(b, <<"users", r.target>>)
  /\ record_attempt(r, "")
  /\ cookie' = [cookie EXCEPT ![b] = [uid |-> r.target, sv |-> r.row.version, pw |-> r.typed]]
  /\ Done(b)
  /\ UNCHANGED <<users, requests, signups, tokens, fails, hits, started>>

---------------------------------------------------------------------------
(* A signed-in request.                                                    *)

\* before_app_request: a cookie of a deactivated account or of another
\* version is dropped.
DropCookie(b) ==
  /\ Start(b)
  /\ cookie[b].uid # NoUser
  /\ ~ SignedIn(b)
  /\ cookie' = [cookie EXCEPT ![b] = NoCookie]
  /\ UNCHANGED <<users, requests, attempts, signups, tokens, fails, hits, held, req>>

\* The place a request goes to once g.user is loaded.
FirstPlace(op) ==
  CASE op = "password"    -> "verify"
    [] op = "token"       -> "count"
    [] op = "add_role"    -> "check"
    [] op = "revoke_role" -> "target"
    [] op = "deactivate"  -> "admins"
    [] OTHER              -> "commit"

\* What the form of an operation carries.
Forms(op) ==
  [target : IF op = "revoke_token" THEN {NoUser} ELSE Users,
   role   : IF op \in {"add_role", "revoke_role", "create", "approve"} THEN Roles ELSE {ADMIN},
   typed  : IF op = "password" THEN Passwords ELSE {NoPassword},
   new    : IF op \in {"password", "reset", "create"} THEN Passwords ELSE {NoPassword},
   token  : IF op = "revoke_token" THEN DOMAIN tokens ELSE {0}]

\* g.user is loaded; must_change_password leaves only the password page and
\* the logout; roles_required; _not_self.
Begin(b, op, f) ==
  LET u == cookie[b].uid IN
  /\ Start(b)
  /\ SignedIn(b)
  /\ users[u].must => op \in {"password", "logout"}
  /\ op \in AdminOps => ADMIN \in users[u].roles
  /\ IF op \in SelfOps THEN f.target = u ELSE f.target # u
  /\ req' = [req EXCEPT ![b] = [pc |-> FirstPlace(op), op |-> op, by |-> u,
                                admin |-> ADMIN \in users[u].roles,
                                target |-> f.target, role |-> f.role, typed |-> f.typed,
                                new |-> f.new, ident |-> "username", row |-> NoRow,
                                token |-> f.token]]
  /\ UNCHANGED <<users, requests, attempts, signups, tokens, fails, hits, cookie, held>>

\* A check that refuses, a deadlock, a lock wait timeout, a lost connection:
\* the transaction is undone and its locks are gone.
GiveUp(b) ==
  /\ req[b].pc # "idle"
  /\ Done(b)
  /\ UNCHANGED <<users, requests, attempts, signups, tokens, fails, hits, cookie, started>>

\* change_password reads the hash before its transaction.
VerifyCurrent(b) ==
  LET r == req[b]
      hash == users[r.target].hash IN
  /\ r.pc = "verify"
  /\ hash = r.typed /\ hash # r.new
  /\ To(b, "commit")
  /\ UNCHANGED <<users, requests, attempts, signups, tokens, fails, hits, cookie, held, started>>

ActiveTokens(u) == {n \in DOMAIN tokens : tokens[n].owner = u /\ tokens[n].state = "active"}

\* Mutant: the tokens are not counted.
CountTokens_NoLimit(b) ==
  /\ req[b].pc = "count"
  /\ To(b, "commit")
  /\ UNCHANGED <<users, requests, attempts, signups, tokens, fails, hits, cookie, held, started>>

\* The limit is counted before the transaction that inserts the token.
CountTokens(b) ==
  /\ req[b].pc = "count"
  /\ Cardinality(ActiveTokens(req[b].target)) < MAX_ACTIVE_PER_USER
  /\ To(b, "commit")
  /\ UNCHANGED <<users, requests, attempts, signups, tokens, fails, hits, cookie, held, started>>

\* add_role looks for the role before its transaction.
CheckRole(b) ==
  LET r == req[b] IN
  /\ r.pc = "check"
  /\ r.role \notin users[r.target].roles
  /\ To(b, "commit")
  /\ UNCHANGED <<users, requests, attempts, signups, tokens, fails, hits, cookie, held, started>>

---------------------------------------------------------------------------
(* The rows a transaction locks before it decides.                         *)

\* Mutant: the last role may go.
LockTarget_LastRole(b) ==
  LET r == req[b] IN
  /\ r.pc = "target"
  /\ Free(b, <<"roles", r.target>>)
  /\ r.role \in users[r.target].roles
  /\ held' = [held EXCEPT ![b] = {<<"roles", r.target>>}]
  /\ To(b, IF r.role = ADMIN THEN "admins" ELSE "commit")
  /\ UNCHANGED <<users, requests, attempts, signups, tokens, fails, hits, cookie, started>>

\* revoke_role locks the roles of its target; it keeps the last one.
LockTarget(b) ==
  LET r == req[b] IN
  /\ r.pc = "target"
  /\ Free(b, <<"roles", r.target>>)
  /\ r.role \in users[r.target].roles /\ users[r.target].roles # {r.role}
  /\ held' = [held EXCEPT ![b] = {<<"roles", r.target>>}]
  /\ To(b, IF r.role = ADMIN THEN "admins" ELSE "commit")
  /\ UNCHANGED <<users, requests, attempts, signups, tokens, fails, hits, cookie, started>>

AdminRows == {"users", "roles"} \X {u \in Users : ADMIN \in users[u].roles}

\* Mutant: the administrators are counted without FOR UPDATE.
lock_active_admins_NoForUpdate(b) ==
  LET r == req[b] IN
  /\ r.pc = "admins"
  /\ ActiveAdmins # {r.target}
  /\ To(b, "commit")
  /\ UNCHANGED <<users, requests, attempts, signups, tokens, fails, hits, cookie, held, started>>

\* The active administrators, with their rows locked: a current read.
lock_active_admins(b) ==
  LET r == req[b] IN
  /\ r.pc = "admins"
  /\ \A row \in AdminRows : Free(b, row)
  /\ ActiveAdmins # {r.target}
  /\ held' = [held EXCEPT ![b] = @ \cup AdminRows]
  /\ To(b, "commit")
  /\ UNCHANGED <<users, requests, attempts, signups, tokens, fails, hits, cookie, started>>

---------------------------------------------------------------------------
(* The transactions.                                                       *)

SetUser(b, u, row) ==
  /\ Free(b, <<"users", u>>)
  /\ users' = [users EXCEPT ![u] = row]

\* Every session of the user ends; the cookie goes.
logout(b) ==
  LET r == req[b] IN
  /\ SetUser(b, r.target, [users[r.target] EXCEPT !.version = @ + 1])
  /\ cookie' = [cookie EXCEPT ![b] = NoCookie]
  /\ UNCHANGED <<requests, tokens>>

\* The session keeps going with the version the transaction has read back.
change_password(b) ==
  LET r == req[b]
      old == users[r.target] IN
  /\ SetUser(b, r.target, Row(old.active, r.new, old.version + 1, FALSE, old.roles))
  /\ cookie' = [cookie EXCEPT ![b] = [uid |-> r.target, sv |-> old.version + 1, pw |-> r.new]]
  /\ UNCHANGED <<requests, tokens>>

reset_password(b) ==
  LET r == req[b]
      old == users[r.target] IN
  /\ old.exists
  /\ SetUser(b, r.target, Row(old.active, r.new, old.version + 1, TRUE, old.roles))
  /\ UNCHANGED <<requests, tokens, cookie>>

\* Deactivation signs the user out everywhere; activation changes no version.
set_active(b) ==
  LET r == req[b]
      old == users[r.target]
      on == r.op = "activate" IN
  /\ old.exists
  /\ SetUser(b, r.target, Row(on, old.hash, IF on THEN old.version ELSE old.version + 1,
                              old.must, old.roles))
  /\ UNCHANGED <<requests, tokens, cookie>>

\* uq_user_roles refuses a role granted meanwhile, the foreign key a missing user.
add_role(b) ==
  LET r == req[b] IN
  /\ users[r.target].exists /\ r.role \notin users[r.target].roles
  /\ Free(b, <<"users", r.target>>) /\ Free(b, <<"roles", r.target>>)
  /\ users' = [users EXCEPT ![r.target].roles = @ \cup {r.role}]
  /\ UNCHANGED <<requests, tokens, cookie>>

revoke_role(b) ==
  LET r == req[b] IN
  /\ users' = [users EXCEPT ![r.target].roles = @ \ {r.role}]
  /\ UNCHANGED <<requests, tokens, cookie>>

\* The row and its first role; the unique keys refuse a name that exists.
create_user(b) ==
  LET r == req[b] IN
  /\ ~ users[r.target].exists
  /\ \E must \in BOOLEAN :
       users' = [users EXCEPT ![r.target] = Row(TRUE, r.new, 0, must, {r.role})]
  /\ UNCHANGED <<requests, tokens, cookie>>

\* The procedures check the reviewer again, and that the request is pending.
approve_request(b) ==
  LET r == req[b] IN
  /\ r.by \in ActiveAdmins
  /\ requests[r.target].status = "Pending"
  /\ ~ users[r.target].exists
  /\ users' = [users EXCEPT ![r.target] =
                 Row(TRUE, requests[r.target].hash, 0, FALSE, {r.role})]
  /\ requests' = [requests EXCEPT ![r.target] = [status |-> "Approved", hash |-> NoPassword]]
  /\ UNCHANGED <<tokens, cookie>>

reject_request(b) ==
  LET r == req[b] IN
  /\ r.by \in ActiveAdmins
  /\ requests[r.target].status = "Pending"
  /\ requests' = [requests EXCEPT ![r.target] = [status |-> "Rejected", hash |-> NoPassword]]
  /\ UNCHANGED <<users, tokens, cookie>>

create_token(b) ==
  LET r == req[b] IN
  /\ Free(b, <<"users", r.target>>)
  /\ tokens' = Append(tokens, [owner |-> r.target, state |-> "active"])
  /\ UNCHANGED <<users, requests, cookie>>

\* The owner, or someone who was an administrator when the request began.
revoke_token(b) ==
  LET r == req[b] IN
  /\ r.token \in DOMAIN tokens
  /\ tokens[r.token].owner = r.by \/ r.admin
  /\ tokens[r.token].state # "revoked"
  /\ tokens' = [tokens EXCEPT ![r.token].state = "revoked"]
  /\ UNCHANGED <<users, requests, cookie>>

Commit(b) ==
  LET op == req[b].op IN
  /\ req[b].pc = "commit"
  /\ \/ op = "logout"       /\ logout(b)
     \/ op = "password"     /\ change_password(b)
     \/ op = "reset"        /\ reset_password(b)
     \/ op \in {"activate", "deactivate"} /\ set_active(b)
     \/ op = "add_role"     /\ add_role(b)
     \/ op = "revoke_role"  /\ revoke_role(b)
     \/ op = "create"       /\ create_user(b)
     \/ op = "approve"      /\ approve_request(b)
     \/ op = "reject"       /\ reject_request(b)
     \/ op = "token"        /\ create_token(b)
     \/ op = "revoke_token" /\ revoke_token(b)
  /\ Done(b)
  /\ UNCHANGED <<attempts, signups, fails, hits, started>>

---------------------------------------------------------------------------
(* Access requests, API calls and the command line.                        *)

Taken(u) == users[u].exists \/ requests[u].status = "Pending"

\* The signup page: the limit and signup_conflicts, on plain reads.
SubmitSignup(b, u, p) ==
  /\ Start(b)
  /\ ~ SignedIn(b)
  /\ signups < SIGNUP_MAX_PER_IP_PER_HOUR
  /\ ~ Taken(u)
  /\ req' = [req EXCEPT ![b] = [Idle EXCEPT !.pc = "signup", !.target = u, !.new = p]]
  /\ UNCHANGED <<users, requests, attempts, signups, tokens, fails, hits, cookie, held>>

\* The trigger and the unique keys of pending requests check again.
create_access_request(b) ==
  LET r == req[b] IN
  /\ r.pc = "signup"
  /\ ~ Taken(r.target)
  /\ requests' = [requests EXCEPT ![r.target] = [status |-> "Pending", hash |-> r.new]]
  /\ signups' = signups + 1
  /\ Done(b)
  /\ UNCHANGED <<users, attempts, tokens, fails, hits, cookie, started>>

\* An API call with a token: the failures are looked at before the token.
ApiAsk(b, n) ==
  /\ Start(b)
  /\ fails < API_FAILED_AUTH_PER_MINUTE
  /\ req' = [req EXCEPT ![b] = [Idle EXCEPT !.pc = "api",
       !.by = IF n \in DOMAIN tokens /\ tokens[n].state = "active" THEN tokens[n].owner
              ELSE NoUser]]
  /\ UNCHANGED <<users, requests, attempts, signups, tokens, fails, hits, cookie, held>>

\* load_user, then the counters: a failure is noted, a call is counted if
\* there is room.  mark_used and the answer change nothing modelled.
ApiAnswer(b) ==
  LET u == req[b].by IN
  /\ req[b].pc = "api"
  /\ IF u = NoUser \/ ~ users[u].active
     THEN fails' = fails + 1 /\ UNCHANGED hits
     ELSE /\ UNCHANGED fails
          /\ hits' = IF users[u].must \/ hits[u] >= API_RATE_LIMIT_PER_MINUTE THEN hits
                     ELSE [hits EXCEPT ![u] = @ + 1]
  /\ Done(b)
  /\ UNCHANGED <<users, requests, attempts, signups, tokens, cookie, started>>

\* flask set-password
set_password(u, p, temporary) ==
  LET old == users[u] IN
  /\ started < MaxRequests /\ started' = started + 1
  /\ old.exists
  /\ \A b \in Browsers : <<"users", u>> \notin held[b]
  /\ users' = [users EXCEPT ![u] = Row(old.active, p, old.version + 1, temporary, old.roles)]
  /\ UNCHANGED <<requests, attempts, signups, tokens, fails, hits, cookie, held, req>>

\* flask create-admin: refused while there is an active administrator.  Then
\* it waits at the prompt for a password.
CountAdmins(b, u) ==
  /\ Start(b)
  /\ ActiveAdmins = {}
  /\ req' = [req EXCEPT ![b] = [Idle EXCEPT !.pc = "prompt", !.target = u]]
  /\ UNCHANGED <<users, requests, attempts, signups, tokens, fails, hits, cookie, held>>

\* The administrators are not counted again; the unique keys refuse a name.
create_admin(b, p) ==
  LET u == req[b].target IN
  /\ req[b].pc = "prompt"
  /\ ~ users[u].exists
  /\ users' = [users EXCEPT ![u] = Row(TRUE, p, 0, FALSE, {ADMIN})]
  /\ Done(b)
  /\ UNCHANGED <<requests, attempts, signups, tokens, fails, hits, cookie, started>>

\* Windows end: fifteen minutes, an hour, a minute, the days of a token.
TimePasses ==
  /\ \/ attempts # <<>> /\ attempts' = Tail(attempts) /\ UNCHANGED <<signups, fails, hits, tokens>>
     \/ signups > 0 /\ signups' = signups - 1 /\ UNCHANGED <<attempts, fails, hits, tokens>>
     \/ fails > 0 /\ fails' = fails - 1 /\ UNCHANGED <<attempts, signups, hits, tokens>>
     \/ \E u \in Users : /\ hits[u] > 0
                         /\ hits' = [hits EXCEPT ![u] = @ - 1]
                         /\ UNCHANGED <<attempts, signups, fails, tokens>>
     \/ \E n \in DOMAIN tokens : /\ tokens[n].state = "active"
                                 /\ tokens' = [tokens EXCEPT ![n].state = "expired"]
                                 /\ UNCHANGED <<attempts, signups, fails, hits>>
  /\ UNCHANGED <<users, requests, cookie, held, req, started>>

---------------------------------------------------------------------------

\* A session as a login has left it.
Session(u, p) == [uid |-> u, sv |-> 0, pw |-> p]

InUse(p) ==
  [u \in Users |-> IF u \in FirstAdmins THEN Row(TRUE, p, 0, FALSE, Roles)
                   ELSE IF u \in FirstStaff THEN Row(TRUE, p, 0, FALSE, Roles \ {ADMIN})
                   ELSE NoRow]

\* An empty installation, or one in use where some have signed in.
Init ==
  /\ \/ /\ users = [u \in Users |-> NoRow]
        /\ cookie = [b \in Browsers |-> NoCookie]
     \/ \E p \in Passwords :
          /\ users = InUse(p)
          /\ cookie \in [Browsers -> {NoCookie} \cup {Session(u, p) : u \in FirstAdmins \cup FirstStaff}]
  /\ requests = [u \in Users |-> [status |-> "None", hash |-> NoPassword]]
  /\ attempts = <<>>
  /\ signups = 0
  /\ tokens = <<>>
  /\ fails = 0
  /\ hits = [u \in Users |-> 0]
  /\ held = [b \in Browsers |-> {}]
  /\ req = [b \in Browsers |-> Idle]
  /\ started = 0

Step(b) ==
  \/ \E u \in Users, i \in Idents, p \in Passwords : SubmitLogin(b, u, i, p)
  \/ CheckLimit(b) \/ Refuse(b) \/ Admit(b)
  \/ DropCookie(b)
  \/ \E op \in Ops : \E f \in Forms(op) : Begin(b, op, f)
  \/ VerifyCurrent(b) \/ CountTokens(b) \/ CheckRole(b)
  \/ LockTarget(b) \/ lock_active_admins(b)
  \/ Commit(b) \/ GiveUp(b)
  \/ \E u \in Users, p \in Passwords : SubmitSignup(b, u, p)
  \/ create_access_request(b)
  \/ \E n \in 0 .. Len(tokens) : ApiAsk(b, n)
  \/ ApiAnswer(b)
  \/ \E u \in Users : CountAdmins(b, u)
  \/ \E p \in Passwords : create_admin(b, p)

Next ==
  \/ \E b \in Browsers : Step(b)
  \/ \E u \in Users, p \in Passwords, t \in BOOLEAN : set_password(u, p, t)
  \/ TimePasses

Spec == Init /\ [][Next]_vars

---------------------------------------------------------------------------
(* Properties                                                              *)

\* The values of each variable; a user who does not exist has no role and is
\* not active, one who exists has at least one role (revoke_role keeps the
\* last), and no two transactions hold one row.
TypeOK ==
  /\ users \in [Users -> UserRow]
  /\ \A u \in Users : IF users[u].exists THEN users[u].roles # {} ELSE users[u] = NoRow
  /\ requests \in [Users -> [status : {"None", "Pending", "Approved", "Rejected"},
                             hash : Passwords \cup {NoPassword}]]
  /\ attempts \in Seq([name : Users \X Idents, user : Users \cup {NoUser},
                       reason : {"", "invalid_credentials", "account_inactive", "rate_limited"}])
  /\ tokens \in Seq([owner : Users, state : {"active", "expired", "revoked"}])
  /\ signups \in Nat /\ fails \in Nat /\ hits \in [Users -> Nat] /\ started \in Nat
  /\ cookie \in [Browsers -> [uid : Users \cup {NoUser}, sv : Nat,
                              pw : Passwords \cup {NoPassword}]]
  /\ held \in [Browsers -> SUBSET ({"users", "roles"} \X Users)]
  /\ \A b, c \in Browsers : b # c => held[b] \cap held[c] = {}
  /\ req \in [Browsers -> Request]
  /\ \A b \in Browsers : req[b].target = NoUser =>
       req[b].pc \in {"idle", "api"} \/ req[b].op = "revoke_token"

\* At least one active administrator remains, however deactivations and
\* revocations of administrators interleave (users/services.py, the "keep at
\* least one administrator" rule of _lock_active_admins).
AdminRemains == (\E u \in Users : users[u].exists) => ActiveAdmins # {}

\* A session that would be accepted belongs to someone who has shown, or
\* set, the password of today: a login overtaken by a reset, a change or a
\* deactivation gets a session that is already over (auth/services.py:102).
LiveSessionKnowsPassword ==
  \A b \in Browsers : SignedIn(b) => cookie[b].pw = users[cookie[b].uid].hash

\* The wrong passwords accepted for checking since an account's last success
\* stay within the limit plus the requests that were already past the count
\* (auth/services.py:81), whichever of its identifiers are typed.
GuessesBounded ==
  \A u \in Users : Cardinality(Since(LAMBDA a : a.user = u))
                     <= LOGIN_MAX_FAILURES_PER_ACCOUNT + Cardinality(Browsers) - 1

\* The active tokens of a user stay within the limit plus the requests that
\* were already past the count (api/tokens.py:37).
TokensBounded ==
  \A u \in Users : Cardinality(ActiveTokens(u)) <= MAX_ACTIVE_PER_USER + Cardinality(Browsers) - 1

=============================================================================
