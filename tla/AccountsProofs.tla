--------------------------- MODULE AccountsProofs ---------------------------
(***************************************************************************)
(* Theorems about Accounts, for any users, roles, passwords, browsers and  *)
(* limits.                                                                 *)
(*                                                                         *)
(* AdminRemains alone is not inductive: a deactivation or a revocation     *)
(* commits some steps after it has counted.  What it counted on is         *)
(* OtherAdmin: another active administrator, both of whose rows it keeps   *)
(* locked.  LiveSessionKnowsPassword needs that versions only grow, and    *)
(* that a session, and a login on its way, with the version of today has   *)
(* the password of today.                                                  *)
(*                                                                         *)
(* The two limits that are counted before they are used (LInv) bound the   *)
(* sum of what counts and of the requests already past the count: such a   *)
(* request adds to the one only by leaving the other.                      *)
(***************************************************************************)
EXTENDS Accounts, SequenceTheorems, FiniteSetTheorems, TLAPS

\* Which operation can be where, and that it acts for a user who exists.
PlaceFits(b) ==
  LET r == req[b] IN
  /\ r.pc = "verify" => r.op = "password"
  /\ r.pc = "prompt" => r.op = "logout"
  /\ r.pc = "count" => r.op = "token"
  /\ r.pc = "check" => r.op = "add_role"
  /\ r.pc = "target" => r.op = "revoke_role"
  /\ r.pc = "admins" => \/ r.op = "deactivate"
                        \/ r.op = "revoke_role" /\ r.role = ADMIN
  /\ r.pc \in {"verify", "count", "check", "target", "admins", "commit"} =>
       /\ r.by \in Users /\ users[r.by].exists
       /\ r.op \in SelfOps => r.target = r.by

\* A revocation that has read the roles of its target keeps them locked, and
\* they still hold the role and another one.
RevokeHolds(b) ==
  LET r == req[b] IN
  r.op = "revoke_role" /\ r.pc \in {"admins", "commit"} =>
    /\ <<"roles", r.target>> \in held[b]
    /\ r.role \in users[r.target].roles
    /\ users[r.target].roles # {r.role}

Removing(b) ==
  /\ req[b].pc = "commit"
  /\ \/ req[b].op = "deactivate"
     \/ req[b].op = "revoke_role" /\ req[b].role = ADMIN

\* What a removal has counted on is still there, and locked.
OtherAdmin(b) ==
  Removing(b) => \E a \in Users :
    /\ a # req[b].target
    /\ users[a].active /\ ADMIN \in users[a].roles
    /\ <<"users", a>> \in held[b] /\ <<"roles", a>> \in held[b]

\* A login on its way has read a version that has been, and the password of
\* today if it is the version of today.
LoginFits(b) ==
  LET r == req[b] IN
  r.pc \in {"limit", "attempt"} =>
    /\ r.target \in Users /\ r.typed \in Passwords
    /\ ~ r.row.exists => r.row.hash = NoPassword
    /\ r.row.exists =>
         /\ users[r.target].exists
         /\ r.row.version <= users[r.target].version
         /\ r.row.version = users[r.target].version => r.row.hash = users[r.target].hash

Fits(b) == PlaceFits(b) /\ RevokeHolds(b) /\ OtherAdmin(b) /\ LoginFits(b)

\* The same of a session.
SessionFits(c) ==
  c.uid # NoUser =>
    /\ users[c.uid].exists
    /\ c.sv <= users[c.uid].version
    /\ c.sv = users[c.uid].version => c.pw = users[c.uid].hash

IInv ==
  /\ TypeOK
  /\ AdminRemains
  /\ \A b \in Browsers : Fits(b) /\ SessionFits(cookie[b])

---------------------------------------------------------------------------
(* Types.                                                                  *)

AttemptRow == [name : Users \X Idents, user : Users \cup {NoUser},
               reason : {"", "invalid_credentials", "account_inactive", "rate_limited"}]
TokenRow == [owner : Users, state : {"active", "expired", "revoked"}]
CookieRow == [uid : Users \cup {NoUser}, sv : Nat, pw : Passwords \cup {NoPassword}]
Targeted(r) == r.target = NoUser => r.pc \in {"idle", "api"} \/ r.op = "revoke_token"

\* An idle browser's request is a request.
LEMMA IdleType == Idle \in Request /\ NoRow \in UserRow /\ Targeted(Idle) /\ NoCookie \in CookieRow
  BY AccountsAssumption
     DEF Idle, NoRow, Request, UserRow, Places, AllOps, SelfOps, AdminOps, Idents, Targeted, NoCookie, CookieRow

\* What TypeOK says of the requests and the locks.
ReqsOK ==
  /\ held \in [Browsers -> SUBSET ({"users", "roles"} \X Users)]
  /\ \A b, c \in Browsers : b # c => held[b] \cap held[c] = {}
  /\ req \in [Browsers -> Request]
  /\ \A b \in Browsers : Targeted(req[b])

LEMMA TypeReqs == TypeOK => ReqsOK
  BY DEF TypeOK, ReqsOK, Targeted

\* The end of a request leaves the requests and the locks in order.
LEMMA DoneType ==
  ASSUME ReqsOK, NEW b \in Browsers, Done(b)
  PROVE  ReqsOK'
  BY IdleType DEF Done, ReqsOK

\* So does a request that goes on, or a new one.
LEMMA NextReq ==
  ASSUME ReqsOK, NEW b \in Browsers, NEW r \in Request, Targeted(r),
         req' = [req EXCEPT ![b] = r], UNCHANGED held
  PROVE  ReqsOK'
  BY DEF ReqsOK

\* Moving a request to another place changes nothing else of it.
LEMMA ToFacts ==
  ASSUME ReqsOK, NEW b \in Browsers, NEW p \in Places, To(b, p)
  PROVE  /\ req' = [req EXCEPT ![b] = [req[b] EXCEPT !.pc = p]]
         /\ [req[b] EXCEPT !.pc = p] \in Request
  BY DEF ReqsOK, To, Request

UsersOK ==
  /\ users \in [Users -> UserRow]
  /\ \A u \in Users : IF users[u].exists THEN users[u].roles # {} ELSE users[u] = NoRow

TablesOK ==
  /\ requests \in [Users -> [status : {"None", "Pending", "Approved", "Rejected"},
                             hash : Passwords \cup {NoPassword}]]
  /\ attempts \in Seq(AttemptRow)
  /\ tokens \in Seq(TokenRow)
  /\ signups \in Nat /\ fails \in Nat /\ hits \in [Users -> Nat] /\ started \in Nat

CookiesOK == cookie \in [Browsers -> CookieRow]

\* TypeOK, taken apart.
LEMMA TypeParts == TypeOK <=> UsersOK /\ TablesOK /\ CookiesOK /\ ReqsOK
  BY DEF TypeOK, UsersOK, TablesOK, CookiesOK, ReqsOK, AttemptRow, TokenRow, CookieRow, Targeted

---------------------------------------------------------------------------
(* Steps in general.                                                       *)

\* Whoever exists stays, with a version that grows with the password.
Grown(old, new) ==
  /\ new.exists
  /\ old.exists => /\ old.version <= new.version
                   /\ old.version = new.version => old.hash = new.hash

\* A change of row u respects the rows browser c has locked.
Respects(c, u, new) ==
  users[u].exists =>
    /\ <<"roles", u>> \in held[c] => new.roles = users[u].roles
    /\ <<"users", u>> \in held[c] => new.active = users[u].active

\* A browser without a request has nothing to keep.
LEMMA IdleFits ==
  ASSUME NEW b \in Browsers, req'[b] = Idle
  PROVE  Fits(b)'
  BY DEF Fits, PlaceFits, RevokeHolds, OtherAdmin, Removing, LoginFits, Idle

\* A browser keeps what it relies on while another one changes a user.
LEMMA OthersFit ==
  ASSUME UsersOK, UsersOK', ReqsOK, NEW c \in Browsers, Fits(c), NEW u \in Users,
         users' = [users EXCEPT ![u] = users'[u]], Grown(users[u], users'[u]),
         Respects(c, u, users'[u]), req'[c] = req[c], held'[c] = held[c]
  PROVE  Fits(c)'
  <1> DEFINE r == req[c]
  <1>0. /\ r \in Request /\ Targeted(r) /\ users \in [Users -> UserRow]
        /\ users' \in [Users -> UserRow]
        /\ \A v \in Users : v # u => users'[v] = users[v]
        /\ \A v \in Users : ~ users[v].exists => users[v] = NoRow
    BY DEF UsersOK, ReqsOK
  <1>1. \A v \in Users : users[v].exists =>
          /\ users'[v].exists
          /\ users[v].version <= users'[v].version
          /\ users[v].version = users'[v].version => users[v].hash = users'[v].hash
    BY <1>0 DEF Grown, UserRow
  <1>2. PlaceFits(c)'
    BY <1>0, <1>1 DEF Fits, PlaceFits
  <1>3. RevokeHolds(c)'
    <2> SUFFICES ASSUME r.op = "revoke_role", r.pc \in {"admins", "commit"}
                 PROVE  r.role \in users'[r.target].roles /\ users'[r.target].roles # {r.role}
      BY DEF Fits, RevokeHolds
    <2>1. /\ <<"roles", r.target>> \in held[c]
          /\ r.role \in users[r.target].roles /\ users[r.target].roles # {r.role}
      BY DEF Fits, RevokeHolds
    <2>2. r.target \in Users
      BY <1>0 DEF Request, Targeted
    <2>3. users[r.target].exists
      BY <1>0, <2>1, <2>2 DEF NoRow
    <2> QED
      BY <1>0, <2>1, <2>2, <2>3 DEF Respects
  <1>4. OtherAdmin(c)'
    <2> SUFFICES ASSUME Removing(c)
                 PROVE  \E a \in Users :
                          /\ a # r.target
                          /\ users'[a].active /\ ADMIN \in users'[a].roles
                          /\ <<"users", a>> \in held[c] /\ <<"roles", a>> \in held[c]
      BY DEF OtherAdmin, Removing
    <2>1. PICK a \in Users : /\ a # r.target
                             /\ users[a].active /\ ADMIN \in users[a].roles
                             /\ <<"users", a>> \in held[c] /\ <<"roles", a>> \in held[c]
      BY DEF Fits, OtherAdmin
    <2>2. users[a].exists
      BY <1>0, <2>1 DEF NoRow
    <2>3. users'[a].active /\ ADMIN \in users'[a].roles
      BY <1>0, <2>1, <2>2 DEF Respects
    <2> QED
      BY <2>1, <2>3
  <1>5. LoginFits(c)'
    <2> SUFFICES ASSUME r.pc \in {"limit", "attempt"}, r.row.exists
                 PROVE  /\ users'[r.target].exists
                        /\ r.row.version <= users'[r.target].version
                        /\ r.row.version = users'[r.target].version =>
                             r.row.hash = users'[r.target].hash
      BY DEF Fits, LoginFits
    <2>1. /\ users[r.target].exists /\ r.target \in Users
          /\ r.row.version <= users[r.target].version
          /\ r.row.version = users[r.target].version => r.row.hash = users[r.target].hash
      BY DEF Fits, LoginFits
    <2>3. r.row.version \in Nat /\ users[r.target].version \in Nat /\ users'[r.target].version \in Nat
      BY <1>0, <2>1 DEF Request, UserRow
    <2> QED
      BY <1>1, <2>1, <2>3
  <1> QED
    BY <1>2, <1>3, <1>4, <1>5 DEF Fits

\* Nothing a browser relies on changes while no user does.
LEMMA OthersFitQuiet ==
  ASSUME NEW c \in Browsers, Fits(c), users' = users, req'[c] = req[c], held'[c] = held[c]
  PROVE  Fits(c)'
  BY DEF Fits, PlaceFits, RevokeHolds, OtherAdmin, Removing, LoginFits

\* A session stays what it is while a user changes.
LEMMA SessionKept ==
  ASSUME UsersOK, UsersOK', NEW c \in CookieRow, SessionFits(c), NEW u \in Users,
         users' = [users EXCEPT ![u] = users'[u]], Grown(users[u], users'[u])
  PROVE  c.uid # NoUser =>
           /\ users'[c.uid].exists
           /\ c.sv <= users'[c.uid].version
           /\ c.sv = users'[c.uid].version => c.pw = users'[c.uid].hash
  BY DEF SessionFits, Grown, UsersOK, UserRow, CookieRow

\* A step that changes neither users nor sessions, and only browser b's
\* request and locks.
LEMMA QuietStep ==
  ASSUME IInv, TypeOK', NEW b \in Browsers, UNCHANGED <<users, cookie>>, Fits(b)',
         \A c \in Browsers \ {b} : req'[c] = req[c] /\ held'[c] = held[c]
  PROVE  IInv'
  <1>1. \A c \in Browsers : Fits(c)'
    BY OthersFitQuiet DEF IInv
  <1>2. AdminRemains'
    BY DEF IInv, AdminRemains, ActiveAdmins
  <1>3. \A c \in Browsers : SessionFits(cookie[c])'
    BY DEF IInv, SessionFits
  <1> QED
    BY <1>1, <1>2, <1>3 DEF IInv

---------------------------------------------------------------------------
(* Steps that change no user.                                              *)

\* Init establishes the invariant.
LEMMA InitInv == Init => IInv
  <1> SUFFICES ASSUME Init PROVE IInv
    OBVIOUS
  <1>1. UsersOK /\ CookiesOK
    <2>1. CASE users = [u \in Users |-> NoRow] /\ cookie = [b \in Browsers |-> NoCookie]
      BY <2>1, IdleType DEF UsersOK, CookiesOK, NoRow
    <2>2. ASSUME NEW p \in Passwords, users = InUse(p),
                 cookie \in [Browsers -> {NoCookie} \cup {Session(u, p) : u \in FirstAdmins \cup FirstStaff}]
          PROVE  UsersOK /\ CookiesOK
      <3>1. \A u \in Users : users[u] \in UserRow
        BY <2>2, AccountsAssumption, IdleType DEF InUse, Row, UserRow
      <3>2. \A u \in Users : IF users[u].exists THEN users[u].roles # {} ELSE users[u] = NoRow
        BY <2>2, AccountsAssumption DEF InUse, Row, NoRow
      <3>3. \A u \in Users : Session(u, p) \in CookieRow
        BY <2>2 DEF Session, CookieRow
      <3>4. CookiesOK
        BY <2>2, <3>3, IdleType, AccountsAssumption DEF CookiesOK
      <3> QED
        BY <2>2, <3>1, <3>2, <3>4 DEF UsersOK, InUse
    <2> QED
      BY <2>1, <2>2 DEF Init
  <1>2. TablesOK
    BY AccountsAssumption DEF Init, TablesOK
  <1>3. ReqsOK
    BY IdleType DEF Init, ReqsOK
  <1>4. AdminRemains
    <2>1. CASE users = [u \in Users |-> NoRow]
      BY <2>1 DEF AdminRemains, NoRow
    <2>2. ASSUME NEW p \in Passwords, users = InUse(p)
          PROVE  AdminRemains
      <3>1. PICK a \in FirstAdmins : a \in Users
        BY AccountsAssumption
      <3>2. users[a].active /\ ADMIN \in users[a].roles
        BY <2>2, <3>1, AccountsAssumption DEF InUse, Row
      <3> QED
        BY <3>1, <3>2 DEF AdminRemains, ActiveAdmins
    <2> QED
      BY <2>1, <2>2 DEF Init
  <1>5. ASSUME NEW b \in Browsers PROVE Fits(b)
    BY DEF Init, Fits, PlaceFits, RevokeHolds, OtherAdmin, Removing, LoginFits, Idle
  <1>6. ASSUME NEW b \in Browsers PROVE SessionFits(cookie[b])
    <2>1. CASE cookie = [c \in Browsers |-> NoCookie]
      BY <2>1 DEF SessionFits, NoCookie
    <2>2. ASSUME NEW p \in Passwords, users = InUse(p),
                 cookie \in [Browsers -> {NoCookie} \cup {Session(u, p) : u \in FirstAdmins \cup FirstStaff}]
          PROVE  SessionFits(cookie[b])
      <3>1. CASE cookie[b] = NoCookie
        BY <3>1 DEF SessionFits, NoCookie
      <3>2. CASE cookie[b] # NoCookie
        <4>1. PICK u \in FirstAdmins \cup FirstStaff : cookie[b] = Session(u, p)
          BY <2>2, <3>2
        <4>2. users[u].exists /\ users[u].version = 0 /\ users[u].hash = p
          BY <2>2, <4>1, AccountsAssumption DEF InUse, Row
        <4> QED
          BY <4>1, <4>2 DEF SessionFits, Session
      <3> QED
        BY <3>1, <3>2
    <2> QED
      BY <2>1, <2>2 DEF Init
  <1> QED
    BY <1>1, <1>2, <1>3, <1>4, <1>5, <1>6, TypeParts DEF IInv

\* The attempt of a login is a row of login_attempts.
LEMMA AttemptType ==
  ASSUME attempts \in Seq(AttemptRow), NEW r \in Request, r.target \in Users,
         NEW why \in {"", "invalid_credentials", "account_inactive", "rate_limited"},
         record_attempt(r, why)
  PROVE  attempts' \in Seq(AttemptRow)
  <1> DEFINE a == [name |-> Name(r), reason |-> why,
                   user |-> IF r.row.exists THEN r.target ELSE NoUser]
  <1>1. a \in AttemptRow
    BY DEF AttemptRow, Name, Request
  <1>2. attempts' = Append(attempts, a)
    BY DEF record_attempt
  <1> HIDE DEF a
  <1> QED
    BY <1>1, <1>2, AppendProperties

\* A request that ends and changes no user or session.
LEMMA QuietEnd ==
  ASSUME IInv, NEW b \in Browsers, Done(b), UNCHANGED <<users, cookie>>, TablesOK'
  PROVE  IInv'
  <1>1. UsersOK /\ CookiesOK /\ ReqsOK
    BY TypeParts DEF IInv
  <1>2. UsersOK' /\ CookiesOK' /\ ReqsOK'
    BY <1>1, DoneType DEF UsersOK, CookiesOK
  <1>3. TypeOK'
    BY <1>2, TypeParts, PTL
  <1>4. /\ req'[b] = Idle
        /\ \A c \in Browsers \ {b} : req'[c] = req[c] /\ held'[c] = held[c]
    BY <1>1 DEF Done, ReqsOK
  <1> QED
    BY <1>3, <1>4, IdleFits, QuietStep

\* A request that goes on, or begins, and only reads.
LEMMA QuietMove ==
  ASSUME IInv, NEW b \in Browsers, NEW r \in Request, Targeted(r),
         req' = [req EXCEPT ![b] = r],
         UNCHANGED <<users, cookie, requests, attempts, signups, tokens, fails, hits, held>>,
         started' \in Nat, Fits(b)'
  PROVE  IInv'
  <1>1. UsersOK /\ TablesOK /\ CookiesOK /\ ReqsOK
    BY TypeParts DEF IInv
  <1>2. UsersOK' /\ TablesOK' /\ CookiesOK' /\ ReqsOK'
    BY <1>1, NextReq DEF UsersOK, TablesOK, CookiesOK
  <1>3. TypeOK'
    BY <1>2, TypeParts, PTL
  <1>4. \A c \in Browsers \ {b} : req'[c] = req[c] /\ held'[c] = held[c]
    BY <1>1 DEF ReqsOK
  <1> QED
    BY <1>3, <1>4, QuietStep

\* The login form, its limit and its refusal.
LEMMA SubmitLoginInv ==
  ASSUME IInv, NEW b \in Browsers, NEW u \in Users, NEW i \in Idents, NEW p \in Passwords,
         SubmitLogin(b, u, i, p)
  PROVE  IInv'
  <1> DEFINE r == [Idle EXCEPT !.pc = "limit", !.target = u, !.ident = i,
                               !.typed = p, !.row = users[u]]
  <1>1. UsersOK /\ TablesOK /\ ReqsOK
    BY TypeParts DEF IInv
  <1>2. r \in Request /\ Targeted(r)
    BY <1>1, IdleType, AccountsAssumption DEF Request, Idle, Places, UsersOK, Targeted
  <1>3. req' = [req EXCEPT ![b] = r] /\ req'[b] = r /\ started' \in Nat
    BY <1>1 DEF SubmitLogin, Start, TablesOK, ReqsOK
  <1>4. /\ r.pc = "limit" /\ r.op = "logout" /\ r.target = u /\ r.typed = p /\ r.row = users[u]
    BY DEF Idle
  <1>5. ~ users[u].exists => users[u].hash = NoPassword
    BY <1>1 DEF UsersOK, NoRow
  <1>6. users' = users /\ users[u].version \in Nat
    BY <1>1 DEF SubmitLogin, UsersOK, UserRow
  <1> HIDE DEF r
  <1>7. Fits(b)'
    BY <1>3, <1>4, <1>5, <1>6 DEF Fits, PlaceFits, RevokeHolds, OtherAdmin, Removing, LoginFits
  <1> QED
    BY <1>2, <1>3, <1>7, QuietMove DEF SubmitLogin

\* A request that goes from one place to another without a lock.
LEMMA MoveInv ==
  ASSUME IInv, NEW b \in Browsers, NEW p \in Places, To(b, p), req[b].pc \notin {"idle", "api"},
         UNCHANGED <<users, cookie, requests, attempts, signups, tokens, fails, hits, held, started>>,
         Fits(b)'
  PROVE  IInv'
  <1> DEFINE r == [req[b] EXCEPT !.pc = p]
  <1>1. TablesOK /\ ReqsOK
    BY TypeParts DEF IInv
  <1>2. req' = [req EXCEPT ![b] = r] /\ r \in Request
    BY <1>1, ToFacts
  <1>3. Targeted(r)
    BY <1>1 DEF ReqsOK, Targeted, Request
  <1>4. started' \in Nat
    BY <1>1 DEF TablesOK
  <1> HIDE DEF r
  <1> QED
    BY <1>2, <1>3, <1>4, QuietMove

\* After such a step only the place of the request is new.
LEMMA MovedFields ==
  ASSUME ReqsOK, NEW b \in Browsers, NEW p \in Places, To(b, p)
  PROVE  /\ req'[b].pc = p /\ req'[b].op = req[b].op /\ req'[b].by = req[b].by
         /\ req'[b].target = req[b].target /\ req'[b].role = req[b].role
         /\ req'[b].typed = req[b].typed /\ req'[b].row = req[b].row
         /\ \A c \in Browsers \ {b} : req'[c] = req[c]
  BY DEF ReqsOK, To, Request

LEMMA CheckLimitInv ==
  ASSUME IInv, NEW b \in Browsers, CheckLimit(b)
  PROVE  IInv'
  <1>1. TablesOK /\ ReqsOK /\ Fits(b) /\ req[b].pc = "limit" /\ req[b] \in Request /\ req[b].target \in Users
    BY TypeParts DEF IInv, CheckLimit, Fits, LoginFits, ReqsOK
  <1>2. CASE record_attempt(req[b], "rate_limited") /\ Done(b)
    <2>1. TablesOK'
      BY <1>1, <1>2, AttemptType DEF TablesOK, CheckLimit
    <2> QED
      BY <1>2, <2>1, QuietEnd DEF CheckLimit
  <1>3. CASE To(b, "attempt") /\ UNCHANGED <<attempts, held>>
    <2>1. Fits(b)'
      BY <1>1, <1>3, MovedFields DEF CheckLimit, Places, Fits, PlaceFits, RevokeHolds, OtherAdmin, Removing, LoginFits
    <2> QED
      BY <1>1, <1>3, <2>1, MoveInv DEF CheckLimit, Places
  <1> QED
    BY <1>2, <1>3 DEF CheckLimit

LEMMA RefuseInv ==
  ASSUME IInv, NEW b \in Browsers, Refuse(b)
  PROVE  IInv'
  <1>1. TablesOK /\ ReqsOK /\ Fits(b) /\ req[b].pc = "attempt" /\ req[b] \in Request /\ req[b].target \in Users
    BY TypeParts DEF IInv, Refuse, Fits, LoginFits, ReqsOK
  <1>2. PICK why \in {"invalid_credentials", "account_inactive"} : record_attempt(req[b], why)
    BY DEF Refuse
  <1>3. TablesOK'
    BY <1>1, <1>2, AttemptType DEF TablesOK, Refuse
  <1> QED
    BY <1>3, QuietEnd DEF Refuse

\* A request that gives up.
LEMMA GiveUpInv ==
  ASSUME IInv, NEW b \in Browsers, GiveUp(b)
  PROVE  IInv'
  <1>1. TablesOK
    BY TypeParts DEF IInv
  <1>2. TablesOK'
    BY <1>1 DEF TablesOK, GiveUp
  <1> QED
    BY <1>2, QuietEnd DEF GiveUp

\* The checks before a transaction.
LEMMA ChecksInv ==
  ASSUME IInv, NEW b \in Browsers, VerifyCurrent(b) \/ CountTokens(b) \/ CheckRole(b)
  PROVE  IInv'
  <1>1. ReqsOK /\ Fits(b)
    BY TypeParts DEF IInv
  <1>2. /\ req[b].pc \in {"verify", "count", "check"} /\ To(b, "commit") /\ "commit" \in Places
        /\ UNCHANGED <<users, cookie, requests, attempts, signups, tokens, fails, hits, held, started>>
    BY DEF VerifyCurrent, CountTokens, CheckRole, Places
  <1>3. Fits(b)'
    BY <1>1, <1>2, MovedFields DEF Fits, PlaceFits, RevokeHolds, OtherAdmin, Removing, LoginFits
  <1> QED
    BY <1>1, <1>2, <1>3, MoveInv

\* A request that goes on after it has locked rows nobody else has.
LEMMA LockInv ==
  ASSUME IInv, NEW b \in Browsers, NEW p \in Places, To(b, p), req[b].pc \notin {"idle", "api"},
         NEW H \in SUBSET ({"users", "roles"} \X Users), held' = [held EXCEPT ![b] = H],
         \A c \in Browsers \ {b} : H \cap held[c] = {},
         UNCHANGED <<users, cookie, requests, attempts, signups, tokens, fails, hits, started>>,
         Fits(b)'
  PROVE  IInv'
  <1> DEFINE r == [req[b] EXCEPT !.pc = p]
  <1>1. UsersOK /\ TablesOK /\ CookiesOK /\ ReqsOK
    BY TypeParts DEF IInv
  <1>2. req' = [req EXCEPT ![b] = r] /\ r \in Request
    BY <1>1, ToFacts
  <1>3. Targeted(r)
    BY <1>1 DEF ReqsOK, Targeted, Request
  <1> HIDE DEF r
  <1>4. held' \in [Browsers -> SUBSET ({"users", "roles"} \X Users)]
    BY <1>1 DEF ReqsOK
  <1>5. \A c, d \in Browsers : c # d => held'[c] \cap held'[d] = {}
    BY <1>1 DEF ReqsOK
  <1>6. req' \in [Browsers -> Request] /\ \A c \in Browsers : Targeted(req'[c])
    BY <1>1, <1>2, <1>3 DEF ReqsOK
  <1>7. UsersOK' /\ TablesOK' /\ CookiesOK' /\ ReqsOK'
    BY <1>1, <1>4, <1>5, <1>6 DEF UsersOK, TablesOK, CookiesOK, ReqsOK
  <1>8. TypeOK'
    BY <1>7, TypeParts, PTL
  <1>9. \A c \in Browsers \ {b} : req'[c] = req[c] /\ held'[c] = held[c]
    BY <1>1, <1>2 DEF ReqsOK
  <1> QED
    BY <1>8, <1>9, QuietStep

\* The roles of the target of a revocation.
LEMMA LockTargetInv ==
  ASSUME IInv, NEW b \in Browsers, LockTarget(b)
  PROVE  IInv'
  <1> DEFINE r == req[b]
             p == IF r.role = ADMIN THEN "admins" ELSE "commit"
             H == {<<"roles", r.target>>}
  <1>1. ReqsOK /\ Fits(b) /\ r.pc = "target" /\ r.op = "revoke_role"
    BY TypeParts DEF IInv, LockTarget, Fits, PlaceFits
  <1>2. r \in Request /\ r.target \in Users
    BY <1>1 DEF ReqsOK, Request, Targeted
  <1>3. p \in Places /\ To(b, p) /\ held' = [held EXCEPT ![b] = H]
    BY DEF LockTarget, Places
  <1>4. H \in SUBSET ({"users", "roles"} \X Users) /\ \A c \in Browsers \ {b} : H \cap held[c] = {}
    BY <1>2 DEF LockTarget, Free
  <1>5. /\ <<"roles", r.target>> \in held'[b] /\ users' = users
        /\ r.role \in users[r.target].roles /\ users[r.target].roles # {r.role}
    BY <1>1, <1>3 DEF ReqsOK, LockTarget
  <1>6. /\ req'[b].pc = p /\ req'[b].op = r.op /\ req'[b].by = r.by
        /\ req'[b].target = r.target /\ req'[b].role = r.role
    BY <1>1, <1>3, MovedFields
  <1>7. Fits(b)'
    BY <1>1, <1>5, <1>6 DEF Fits, PlaceFits, RevokeHolds, OtherAdmin, Removing, LoginFits
  <1> QED
    BY <1>1, <1>3, <1>4, <1>7, LockInv DEF LockTarget

\* The rows of the administrators: whoever counted keeps another one locked.
LEMMA LockAdminsInv ==
  ASSUME IInv, NEW b \in Browsers, lock_active_admins(b)
  PROVE  IInv'
  <1> DEFINE r == req[b]
             H == held[b] \cup AdminRows
  <1>1. UsersOK /\ ReqsOK /\ Fits(b) /\ r.pc = "admins"
    BY TypeParts DEF IInv, lock_active_admins
  <1>2. To(b, "commit") /\ "commit" \in Places /\ held' = [held EXCEPT ![b] = H] /\ held'[b] = H
    BY <1>1 DEF lock_active_admins, Places, ReqsOK
  <1>3. H \in SUBSET ({"users", "roles"} \X Users)
    BY <1>1 DEF ReqsOK, AdminRows
  <1>4. \A c \in Browsers \ {b} : H \cap held[c] = {}
    BY <1>1 DEF ReqsOK, lock_active_admins, Free
  <1>5. PICK a \in ActiveAdmins : a # r.target
    <2>1. ActiveAdmins # {}
      BY <1>1 DEF IInv, AdminRemains, Fits, PlaceFits
    <2> QED
      BY <2>1 DEF lock_active_admins
  <1>6. /\ a \in Users /\ users[a].active /\ ADMIN \in users[a].roles
        /\ <<"users", a>> \in H /\ <<"roles", a>> \in H
    BY <1>5 DEF ActiveAdmins, AdminRows
  <1>7. users' = users
    BY DEF lock_active_admins
  <1>8. /\ req'[b].pc = "commit" /\ req'[b].op = r.op /\ req'[b].by = r.by
        /\ req'[b].target = r.target /\ req'[b].role = r.role
    BY <1>1, <1>2, MovedFields
  <1>9. PlaceFits(b)' /\ RevokeHolds(b)' /\ LoginFits(b)'
    BY <1>1, <1>2, <1>7, <1>8 DEF Fits, PlaceFits, RevokeHolds, LoginFits
  <1>10. OtherAdmin(b)'
    BY <1>2, <1>5, <1>6, <1>7, <1>8 DEF OtherAdmin
  <1>11. Fits(b)'
    BY <1>9, <1>10 DEF Fits
  <1> QED
    BY <1>1, <1>2, <1>3, <1>4, <1>11, LockInv DEF lock_active_admins

\* A signed-in request begins.
LEMMA BeginInv ==
  ASSUME IInv, NEW b \in Browsers, NEW op \in Ops, NEW f \in Forms(op), Begin(b, op, f)
  PROVE  IInv'
  <1> DEFINE u == cookie[b].uid
             r == [pc |-> FirstPlace(op), op |-> op, by |-> u,
                   admin |-> ADMIN \in users[u].roles,
                   target |-> f.target, role |-> f.role, typed |-> f.typed,
                   new |-> f.new, ident |-> "username", row |-> NoRow,
                   token |-> f.token]
  <1>1. UsersOK /\ TablesOK /\ CookiesOK /\ ReqsOK
    BY TypeParts DEF IInv
  <1>2. op \in AllOps /\ u \in Users /\ users[u].active /\ users[u].exists
    BY <1>1, AccountsAssumption DEF Begin, SignedIn, CookiesOK, CookieRow, UsersOK, NoRow
  <1>3. /\ FirstPlace(op) \in {"verify", "count", "check", "target", "admins", "commit"}
        /\ FirstPlace(op) = "verify" => op = "password"
        /\ FirstPlace(op) = "count" => op = "token"
        /\ FirstPlace(op) = "check" => op = "add_role"
        /\ FirstPlace(op) = "target" => op = "revoke_role"
        /\ FirstPlace(op) = "admins" => op = "deactivate"
        /\ FirstPlace(op) = "commit" => op \notin {"deactivate", "revoke_role"}
    BY <1>2 DEF FirstPlace, AllOps, SelfOps, AdminOps
  <1>4. /\ f.target \in Users \cup {NoUser} /\ (f.target = NoUser => op = "revoke_token")
        /\ f.role \in Roles /\ f.typed \in Passwords \cup {NoPassword}
        /\ f.new \in Passwords \cup {NoPassword} /\ f.token \in Nat
    BY <1>1, AccountsAssumption DEF Forms, TablesOK
  <1>5. r \in Request /\ Targeted(r)
    BY <1>2, <1>3, <1>4, IdleType DEF Request, Places, Idents, Targeted
  <1>6. req' = [req EXCEPT ![b] = r] /\ req'[b] = r /\ started' \in Nat /\ users' = users
    BY <1>1 DEF Begin, Start, TablesOK, ReqsOK
  <1>7. op \in SelfOps => f.target = u
    BY DEF Begin
  <1>8. /\ r.pc = FirstPlace(op) /\ r.op = op /\ r.by = u /\ r.target = f.target /\ r.role = f.role
    OBVIOUS
  <1> HIDE DEF r
  <1>9. Fits(b)'
    BY <1>2, <1>3, <1>6, <1>7, <1>8
       DEF Fits, PlaceFits, RevokeHolds, OtherAdmin, Removing, LoginFits
  <1> QED
    BY <1>5, <1>6, <1>9, QuietMove DEF Begin

\* The steps of an access request.
LEMMA SubmitSignupInv ==
  ASSUME IInv, NEW b \in Browsers, NEW u \in Users, NEW p \in Passwords, SubmitSignup(b, u, p)
  PROVE  IInv'
  <1> DEFINE r == [Idle EXCEPT !.pc = "signup", !.target = u, !.new = p]
  <1>1. TablesOK /\ ReqsOK
    BY TypeParts DEF IInv
  <1>2. r \in Request /\ Targeted(r) /\ r.pc = "signup"
    BY IdleType, AccountsAssumption DEF Request, Idle, Places, Targeted
  <1>3. req' = [req EXCEPT ![b] = r] /\ req'[b] = r /\ started' \in Nat
    BY <1>1 DEF SubmitSignup, Start, TablesOK, ReqsOK
  <1> HIDE DEF r
  <1>4. Fits(b)'
    BY <1>2, <1>3 DEF Fits, PlaceFits, RevokeHolds, OtherAdmin, Removing, LoginFits
  <1> QED
    BY <1>2, <1>3, <1>4, QuietMove DEF SubmitSignup

LEMMA AccessRequestInv ==
  ASSUME IInv, NEW b \in Browsers, create_access_request(b)
  PROVE  IInv'
  <1>1. TablesOK /\ ReqsOK
    BY TypeParts DEF IInv
  <1>2. req[b].new \in Passwords \cup {NoPassword}
    BY <1>1 DEF ReqsOK, Request
  <1>3. [status |-> "Pending", hash |-> req[b].new] \in
          [status : {"None", "Pending", "Approved", "Rejected"}, hash : Passwords \cup {NoPassword}]
    BY <1>2
  <1>4. requests' \in [Users -> [status : {"None", "Pending", "Approved", "Rejected"},
                                  hash : Passwords \cup {NoPassword}]]
    BY <1>1, <1>3 DEF TablesOK, create_access_request
  <1>5. TablesOK'
    BY <1>1, <1>4 DEF TablesOK, create_access_request
  <1> QED
    BY <1>5, QuietEnd DEF create_access_request

\* The steps of an API call.
LEMMA ApiAskInv ==
  ASSUME IInv, NEW b \in Browsers, NEW n, ApiAsk(b, n)
  PROVE  IInv'
  <1> DEFINE o == IF n \in DOMAIN tokens /\ tokens[n].state = "active" THEN tokens[n].owner ELSE NoUser
             r == [Idle EXCEPT !.pc = "api", !.by = o]
  <1>1. TablesOK /\ ReqsOK
    BY TypeParts DEF IInv
  <1>2. o \in Users \cup {NoUser}
    <2>1. ASSUME n \in DOMAIN tokens PROVE tokens[n].owner \in Users
      <3>1. tokens \in Seq(TokenRow) /\ n \in 1 .. Len(tokens)
        BY <1>1, <2>1 DEF TablesOK
      <3>2. tokens[n] \in TokenRow
        BY <3>1, ElementOfSeq
      <3> QED
        BY <3>2 DEF TokenRow
    <2> QED
      BY <2>1
  <1> HIDE DEF o
  <1>3. r \in Request /\ Targeted(r) /\ r.pc = "api"
    BY <1>2, IdleType DEF Request, Idle, Places, Targeted
  <1>4. req' = [req EXCEPT ![b] = r] /\ req'[b] = r /\ started' \in Nat
    BY <1>1 DEF ApiAsk, Start, TablesOK, ReqsOK, o
  <1> HIDE DEF r
  <1>5. Fits(b)'
    BY <1>3, <1>4 DEF Fits, PlaceFits, RevokeHolds, OtherAdmin, Removing, LoginFits
  <1> QED
    BY <1>3, <1>4, <1>5, QuietMove DEF ApiAsk

LEMMA ApiAnswerInv ==
  ASSUME IInv, NEW b \in Browsers, ApiAnswer(b)
  PROVE  IInv'
  <1>1. TablesOK /\ ReqsOK
    BY TypeParts DEF IInv
  <1>2. req[b].by \in Users \cup {NoUser}
    BY <1>1 DEF ReqsOK, Request
  <1>3. fails' \in Nat /\ hits' \in [Users -> Nat]
    BY <1>1, <1>2 DEF TablesOK, ApiAnswer
  <1>4. TablesOK'
    BY <1>1, <1>3 DEF TablesOK, ApiAnswer
  <1> QED
    BY <1>4, QuietEnd DEF ApiAnswer

\* Another state of a token leaves it a token.
LEMMA TokenState ==
  ASSUME tokens \in Seq(TokenRow), NEW n \in DOMAIN tokens,
         NEW t \in {"active", "expired", "revoked"}, tokens' = [tokens EXCEPT ![n].state = t]
  PROVE  tokens' \in Seq(TokenRow)
  <1>1. n \in 1 .. Len(tokens)
    OBVIOUS
  <1>2. tokens[n] \in TokenRow
    BY <1>1, ElementOfSeq
  <1> DEFINE e == [tokens[n] EXCEPT !.state = t]
  <1>3. e \in TokenRow /\ tokens' = [tokens EXCEPT ![n] = e]
    BY <1>2 DEF TokenRow
  <1> HIDE DEF e
  <1> QED
    BY <1>1, <1>3, ExceptSeq

\* Windows that end touch neither users, sessions nor requests.
LEMMA TimePassesInv ==
  ASSUME IInv, TimePasses
  PROVE  IInv'
  <1>1. UsersOK /\ TablesOK /\ CookiesOK /\ ReqsOK
    BY TypeParts DEF IInv
  <1>2. attempts' \in Seq(AttemptRow)
    <2>1. CASE attempts # <<>> /\ attempts' = Tail(attempts)
      BY <1>1, <2>1 DEF TablesOK
    <2> QED
      BY <1>1, <2>1 DEF TablesOK, TimePasses
  <1>3. tokens' \in Seq(TokenRow)
    <2>1. ASSUME NEW n \in DOMAIN tokens, tokens' = [tokens EXCEPT ![n].state = "expired"]
          PROVE  tokens' \in Seq(TokenRow)
      BY <1>1, <2>1, TokenState DEF TablesOK
    <2> QED
      BY <1>1, <2>1 DEF TablesOK, TimePasses
  <1>4. signups' \in Nat /\ fails' \in Nat
    BY <1>1 DEF TablesOK, TimePasses
  <1>5. hits' \in [Users -> Nat]
    <2>1. ASSUME NEW u \in Users, hits[u] > 0, hits' = [hits EXCEPT ![u] = @ - 1]
          PROVE  hits' \in [Users -> Nat]
      BY <1>1, <2>1 DEF TablesOK
    <2> QED
      BY <1>1, <2>1 DEF TablesOK, TimePasses
  <1>6. UNCHANGED <<users, requests, cookie, held, req, started>>
    BY DEF TimePasses
  <1>7. UsersOK' /\ TablesOK' /\ CookiesOK' /\ ReqsOK'
    BY <1>1, <1>2, <1>3, <1>4, <1>5, <1>6 DEF UsersOK, TablesOK, CookiesOK, ReqsOK
  <1>8. TypeOK'
    BY <1>7, TypeParts, PTL
  <1>9. \A c \in Browsers : Fits(c)' /\ SessionFits(cookie[c])'
    BY <1>6, OthersFitQuiet DEF IInv, SessionFits
  <1>10. AdminRemains'
    BY <1>6 DEF IInv, AdminRemains, ActiveAdmins
  <1> QED
    BY <1>8, <1>9, <1>10 DEF IInv

---------------------------------------------------------------------------
(* Steps that change a user or a session.                                  *)

\* A login that succeeds.
LEMMA AdmitInv ==
  ASSUME IInv, NEW b \in Browsers, Admit(b)
  PROVE  IInv'
  <1> DEFINE r == req[b]
             c == [uid |-> r.target, sv |-> r.row.version, pw |-> r.typed]
  <1>1. UsersOK /\ TablesOK /\ CookiesOK /\ ReqsOK /\ Fits(b) /\ r \in Request
    BY TypeParts DEF IInv, ReqsOK
  <1>2. /\ r.pc = "attempt" /\ r.row.hash = r.typed /\ Done(b)
        /\ cookie' = [cookie EXCEPT ![b] = c]
        /\ UNCHANGED <<users, requests, signups, tokens, fails, hits, started>>
    BY DEF Admit
  <1>3. r.target \in Users /\ r.row.exists /\ users[r.target].exists
        /\ r.row.version <= users[r.target].version
        /\ (r.row.version = users[r.target].version => r.row.hash = users[r.target].hash)
    BY <1>1, <1>2, AccountsAssumption DEF Fits, LoginFits
  <1>4. c \in CookieRow
    BY <1>1, <1>3 DEF CookieRow, Request, UserRow
  <1>5. TablesOK'
    BY <1>1, <1>2, <1>3, AttemptType DEF TablesOK, Admit
  <1>6. UsersOK' /\ CookiesOK' /\ ReqsOK'
    BY <1>1, <1>2, <1>4, DoneType DEF UsersOK, CookiesOK
  <1>7. TypeOK'
    BY <1>5, <1>6, TypeParts, PTL
  <1>8. /\ req'[b] = Idle
        /\ \A d \in Browsers \ {b} : req'[d] = req[d] /\ held'[d] = held[d] /\ cookie'[d] = cookie[d]
        /\ cookie'[b] = c
    BY <1>1, <1>2 DEF Done, ReqsOK, CookiesOK
  <1>9. \A d \in Browsers : Fits(d)'
    BY <1>2, <1>8, IdleFits, OthersFitQuiet DEF IInv
  <1>10. \A d \in Browsers : SessionFits(cookie[d])'
    BY <1>2, <1>3, <1>8 DEF IInv, SessionFits
  <1>11. AdminRemains'
    BY <1>2 DEF IInv, AdminRemains, ActiveAdmins
  <1> QED
    BY <1>7, <1>9, <1>10, <1>11 DEF IInv

LEMMA DropCookieInv ==
  ASSUME IInv, NEW b \in Browsers, DropCookie(b)
  PROVE  IInv'
  <1>1. UsersOK /\ TablesOK /\ CookiesOK /\ ReqsOK
    BY TypeParts DEF IInv
  <1>2. /\ cookie' = [cookie EXCEPT ![b] = NoCookie]
        /\ UNCHANGED <<users, requests, attempts, signups, tokens, fails, hits, held, req>>
        /\ started' \in Nat
    BY <1>1 DEF DropCookie, Start, TablesOK
  <1>3. UsersOK' /\ TablesOK' /\ CookiesOK' /\ ReqsOK'
    BY <1>1, <1>2, IdleType DEF UsersOK, TablesOK, CookiesOK, ReqsOK
  <1>4. TypeOK'
    BY <1>3, TypeParts, PTL
  <1>5. \A d \in Browsers : Fits(d)'
    BY <1>2, OthersFitQuiet DEF IInv
  <1>6. \A d \in Browsers : SessionFits(cookie[d])'
    BY <1>1, <1>2 DEF IInv, SessionFits, NoCookie, CookiesOK
  <1>7. AdminRemains'
    BY <1>2 DEF IInv, AdminRemains, ActiveAdmins
  <1> QED
    BY <1>4, <1>5, <1>6, <1>7 DEF IInv

\* The end of a request that has changed one user.
LEMMA ChangeInv ==
  ASSUME IInv, NEW b \in Browsers, Done(b), NEW u \in Users, NEW new \in UserRow,
         users' = [users EXCEPT ![u] = new], new.roles # {}, Grown(users[u], new),
         TablesOK', CookiesOK',
         \A c \in Browsers \ {b} : Respects(c, u, new),
         \A c \in Browsers : SessionFits(cookie[c])',
         ActiveAdmins' # {}
  PROVE  IInv'
  <1>1. UsersOK /\ ReqsOK
    BY TypeParts DEF IInv
  <1>2. users'[u] = new /\ \A v \in Users : v # u => users'[v] = users[v]
    BY <1>1 DEF UsersOK
  <1>3. UsersOK'
    BY <1>1, <1>2 DEF UsersOK, Grown
  <1>4. ReqsOK'
    BY <1>1, DoneType
  <1>5. TypeOK'
    BY <1>3, <1>4, TypeParts, PTL
  <1>6. /\ req'[b] = Idle
        /\ \A c \in Browsers \ {b} : req'[c] = req[c] /\ held'[c] = held[c]
    BY <1>1 DEF Done, ReqsOK
  <1>7. ASSUME NEW c \in Browsers PROVE Fits(c)'
    <2>1. CASE c = b
      BY <1>6, <2>1, IdleFits
    <2>2. CASE c # b
      BY <1>1, <1>2, <1>3, <1>6, <2>2, OthersFit DEF IInv
    <2> QED
      BY <2>1, <2>2
  <1>8. AdminRemains'
    BY DEF AdminRemains
  <1> QED
    BY <1>5, <1>7, <1>8 DEF IInv

\* What every transaction starts from.
LEMMA CommitFacts ==
  ASSUME IInv, NEW b \in Browsers, req[b].pc = "commit"
  PROVE  /\ UsersOK /\ TablesOK /\ CookiesOK /\ ReqsOK /\ Fits(b) /\ req[b] \in Request
         /\ ActiveAdmins # {}
         /\ req[b].op # "revoke_token" => req[b].target \in Users
         /\ req[b].op \in SelfOps => users[req[b].target].exists
  <1>1. UsersOK /\ TablesOK /\ CookiesOK /\ ReqsOK /\ Fits(b) /\ req[b] \in Request
    BY TypeParts DEF IInv, ReqsOK
  <1>2. /\ req[b].by \in Users /\ users[req[b].by].exists
        /\ req[b].op \in SelfOps => req[b].target = req[b].by
    BY <1>1 DEF Fits, PlaceFits
  <1>3. ActiveAdmins # {}
    BY <1>2 DEF IInv, AdminRemains
  <1>4. req[b].op # "revoke_token" => req[b].target \in Users
    BY <1>1 DEF ReqsOK, Targeted, Request
  <1> QED
    BY <1>1, <1>2, <1>3, <1>4

\* The sessions after a change of one user; browser b's may be gone.
LEMMA SessionsKept ==
  ASSUME IInv, UsersOK', CookiesOK, NEW u \in Users, users' = [users EXCEPT ![u] = users'[u]],
         Grown(users[u], users'[u]), NEW b \in Browsers,
         \A c \in Browsers \ {b} : cookie'[c] = cookie[c],
         cookie'[b] \in {cookie[b], NoCookie}
  PROVE  \A c \in Browsers : SessionFits(cookie[c])'
  <1> SUFFICES ASSUME NEW c \in Browsers, cookie'[c] = cookie[c] PROVE SessionFits(cookie[c])'
    BY DEF SessionFits, NoCookie
  <1>1. UsersOK /\ cookie[c] \in CookieRow /\ SessionFits(cookie[c])
    BY TypeParts DEF IInv, CookiesOK
  <1>2. cookie[c].uid # NoUser =>
          /\ users'[cookie[c].uid].exists
          /\ cookie[c].sv <= users'[cookie[c].uid].version
          /\ cookie[c].sv = users'[cookie[c].uid].version =>
               cookie[c].pw = users'[cookie[c].uid].hash
    BY <1>1, SessionKept
  <1> QED
    BY <1>2 DEF SessionFits

\* The rows of users after a change of one.
LEMMA ChangedRows ==
  ASSUME UsersOK, NEW u \in Users, NEW new \in UserRow, users' = [users EXCEPT ![u] = new],
         new.exists, new.roles # {}
  PROVE  /\ UsersOK' /\ users'[u] = new /\ users' = [users EXCEPT ![u] = users'[u]]
         /\ \A v \in Users : v # u => users'[v] = users[v]
  BY DEF UsersOK

\* A change that takes nothing from anybody leaves the administrators.
LEMMA AdminsStay ==
  ASSUME UsersOK, ActiveAdmins # {}, NEW u \in Users, NEW new,
         users' = [users EXCEPT ![u] = new],
         u \in ActiveAdmins => new.active /\ ADMIN \in new.roles
  PROVE  ActiveAdmins' # {}
  <1>1. PICK a \in Users : users[a].active /\ ADMIN \in users[a].roles
    BY DEF ActiveAdmins
  <1>2. users'[a].active /\ ADMIN \in users'[a].roles
    BY <1>1 DEF UsersOK, ActiveAdmins
  <1> QED
    BY <1>1, <1>2 DEF ActiveAdmins

\* logout
LEMMA LogoutInv ==
  ASSUME IInv, NEW b \in Browsers, req[b].pc = "commit", req[b].op = "logout", logout(b), Done(b),
         UNCHANGED <<attempts, signups, fails, hits, started>>
  PROVE  IInv'
  <1> DEFINE u == req[b].target
             new == [users[u] EXCEPT !.version = @ + 1]
  <1>1. /\ UsersOK /\ TablesOK /\ CookiesOK /\ ReqsOK /\ ActiveAdmins # {}
        /\ u \in Users /\ users[u].exists /\ users[u] \in UserRow
    BY CommitFacts DEF SelfOps, UsersOK
  <1>2. /\ users' = [users EXCEPT ![u] = new] /\ Free(b, <<"users", u>>)
        /\ cookie' = [cookie EXCEPT ![b] = NoCookie] /\ UNCHANGED <<requests, tokens>>
    BY DEF logout, SetUser
  <1>3. /\ new \in UserRow /\ new.exists /\ new.roles = users[u].roles /\ new.roles # {}
        /\ new.active = users[u].active /\ Grown(users[u], new)
    BY <1>1 DEF UserRow, UsersOK, Grown
  <1> HIDE DEF new
  <1>4. TablesOK' /\ CookiesOK'
    BY <1>1, <1>2, IdleType DEF TablesOK, CookiesOK
  <1>5. \A c \in Browsers \ {b} : Respects(c, u, new)
    BY <1>2, <1>3 DEF Respects, Free
  <1>6. \A c \in Browsers : SessionFits(cookie[c])'
    BY <1>1, <1>2, <1>3, ChangedRows, SessionsKept DEF CookiesOK
  <1>7. ActiveAdmins' # {}
    BY <1>1, <1>2, <1>3, AdminsStay DEF ActiveAdmins
  <1> QED
    BY <1>1, <1>2, <1>3, <1>4, <1>5, <1>6, <1>7, ChangeInv

\* change_password
LEMMA PasswordInv ==
  ASSUME IInv, NEW b \in Browsers, req[b].pc = "commit", req[b].op = "password",
         change_password(b), Done(b), UNCHANGED <<attempts, signups, fails, hits, started>>
  PROVE  IInv'
  <1> DEFINE u == req[b].target
             old == users[u]
             new == Row(old.active, req[b].new, old.version + 1, FALSE, old.roles)
             s == [uid |-> u, sv |-> old.version + 1, pw |-> req[b].new]
  <1>1. /\ UsersOK /\ TablesOK /\ CookiesOK /\ ReqsOK /\ ActiveAdmins # {}
        /\ u \in Users /\ old.exists /\ old \in UserRow
        /\ req[b].new \in Passwords \cup {NoPassword}
    BY CommitFacts DEF SelfOps, UsersOK, Request
  <1>2. /\ users' = [users EXCEPT ![u] = new] /\ Free(b, <<"users", u>>)
        /\ cookie' = [cookie EXCEPT ![b] = s] /\ UNCHANGED <<requests, tokens>>
    BY DEF change_password, SetUser
  <1>3. /\ new \in UserRow /\ new.exists /\ new.roles = old.roles /\ new.roles # {}
        /\ new.active = old.active /\ Grown(old, new)
        /\ new.version = old.version + 1 /\ new.hash = req[b].new
    BY <1>1 DEF UserRow, UsersOK, Grown, Row
  <1> HIDE DEF new
  <1>4. /\ s \in CookieRow /\ s.uid = u /\ s.sv = new.version /\ s.pw = new.hash
    BY <1>1, <1>3 DEF CookieRow, UserRow
  <1> HIDE DEF s
  <1>5. TablesOK' /\ CookiesOK'
    BY <1>1, <1>2, <1>4 DEF TablesOK, CookiesOK
  <1>6. \A c \in Browsers \ {b} : Respects(c, u, new)
    BY <1>2, <1>3 DEF Respects, Free
  <1>7. ASSUME NEW c \in Browsers PROVE SessionFits(cookie[c])'
    <2>1. users'[u] = new /\ UsersOK' /\ users' = [users EXCEPT ![u] = users'[u]]
      BY <1>1, <1>2, <1>3, ChangedRows
    <2>2. CASE c = b
      <3>1. cookie'[c] = s
        BY <1>1, <1>2, <2>2 DEF CookiesOK
      <3>2. new.version \in Nat
        BY <1>3 DEF UserRow
      <3> QED
        BY <1>3, <1>4, <2>1, <3>1, <3>2 DEF SessionFits
    <2>3. CASE c # b
      <3>1. cookie'[c] = cookie[c] /\ cookie[c] \in CookieRow /\ SessionFits(cookie[c])
        BY <1>1, <1>2, <2>3 DEF CookiesOK, IInv
      <3>2. cookie[c].uid # NoUser =>
              /\ users'[cookie[c].uid].exists
              /\ cookie[c].sv <= users'[cookie[c].uid].version
              /\ cookie[c].sv = users'[cookie[c].uid].version =>
                   cookie[c].pw = users'[cookie[c].uid].hash
        BY <1>1, <1>3, <2>1, <3>1, SessionKept
      <3> QED
        BY <3>1, <3>2 DEF SessionFits
    <2> QED
      BY <2>2, <2>3
  <1>8. ActiveAdmins' # {}
    BY <1>1, <1>2, <1>3, AdminsStay DEF ActiveAdmins
  <1> QED
    BY <1>1, <1>2, <1>3, <1>5, <1>6, <1>7, <1>8, ChangeInv

\* A change by an administrator leaves every session as it is.
LEMMA AdminChange ==
  ASSUME IInv, NEW b \in Browsers, Done(b),
         NEW u \in Users, NEW new \in UserRow, users' = [users EXCEPT ![u] = new],
         new.roles # {}, Grown(users[u], new), UNCHANGED cookie, TablesOK',
         \A c \in Browsers \ {b} : Respects(c, u, new),
         ActiveAdmins' # {}
  PROVE  IInv'
  <1>1. UsersOK /\ CookiesOK
    BY TypeParts DEF IInv
  <1>2. CookiesOK' /\ new.exists
    BY <1>1 DEF CookiesOK, Grown
  <1>3. \A c \in Browsers : SessionFits(cookie[c])'
    BY <1>1, <1>2, ChangedRows, SessionsKept
  <1> QED
    BY <1>2, <1>3, ChangeInv

\* reset_password
LEMMA ResetInv ==
  ASSUME IInv, NEW b \in Browsers, req[b].pc = "commit", req[b].op = "reset",
         reset_password(b), Done(b), UNCHANGED <<attempts, signups, fails, hits, started>>
  PROVE  IInv'
  <1> DEFINE u == req[b].target
             old == users[u]
             new == Row(old.active, req[b].new, old.version + 1, TRUE, old.roles)
  <1>1. /\ UsersOK /\ TablesOK /\ ActiveAdmins # {} /\ u \in Users /\ old \in UserRow
        /\ req[b].new \in Passwords \cup {NoPassword}
    BY CommitFacts DEF UsersOK, Request
  <1>2. /\ users' = [users EXCEPT ![u] = new] /\ Free(b, <<"users", u>>) /\ old.exists
        /\ UNCHANGED <<requests, tokens, cookie>>
    BY DEF reset_password, SetUser
  <1>3. /\ new \in UserRow /\ new.roles = old.roles /\ new.roles # {}
        /\ new.active = old.active /\ Grown(old, new)
    BY <1>1, <1>2 DEF UserRow, UsersOK, Grown, Row
  <1> HIDE DEF new
  <1>4. TablesOK' /\ \A c \in Browsers \ {b} : Respects(c, u, new)
    BY <1>1, <1>2, <1>3 DEF TablesOK, Respects, Free
  <1>5. ActiveAdmins' # {}
    BY <1>1, <1>2, <1>3, AdminsStay DEF ActiveAdmins
  <1> QED
    BY <1>1, <1>2, <1>3, <1>4, <1>5, AdminChange

\* An administrator other than the target of a removal.
LEMMA AnotherAdmin ==
  ASSUME IInv, NEW b \in Browsers, Removing(b), NEW new,
         users' = [users EXCEPT ![req[b].target] = new]
  PROVE  ActiveAdmins' # {}
  <1>1. UsersOK /\ Fits(b)
    BY CommitFacts DEF Removing
  <1>2. PICK a \in Users : a # req[b].target /\ users[a].active /\ ADMIN \in users[a].roles
    BY <1>1 DEF Fits, OtherAdmin
  <1>3. users'[a] = users[a]
    BY <1>1, <1>2 DEF UsersOK
  <1> QED
    BY <1>2, <1>3 DEF ActiveAdmins

\* set_active
LEMMA SetActiveInv ==
  ASSUME IInv, NEW b \in Browsers, req[b].pc = "commit", req[b].op \in {"activate", "deactivate"},
         set_active(b), Done(b), UNCHANGED <<attempts, signups, fails, hits, started>>
  PROVE  IInv'
  <1> DEFINE u == req[b].target
             old == users[u]
             on == req[b].op = "activate"
             new == Row(on, old.hash, IF on THEN old.version ELSE old.version + 1,
                        old.must, old.roles)
  <1>1. /\ UsersOK /\ TablesOK /\ ActiveAdmins # {} /\ u \in Users /\ old \in UserRow
    BY CommitFacts DEF UsersOK
  <1>2. /\ users' = [users EXCEPT ![u] = new] /\ Free(b, <<"users", u>>) /\ old.exists
        /\ UNCHANGED <<requests, tokens, cookie>>
    BY DEF set_active, SetUser
  <1>3. /\ new \in UserRow /\ new.roles = old.roles /\ new.roles # {}
        /\ new.active = on /\ Grown(old, new)
    BY <1>1, <1>2 DEF UserRow, UsersOK, Grown, Row
  <1> HIDE DEF new
  <1>4. TablesOK' /\ \A c \in Browsers \ {b} : Respects(c, u, new)
    BY <1>1, <1>2, <1>3 DEF TablesOK, Respects, Free
  <1>5. ActiveAdmins' # {}
    <2>1. CASE req[b].op = "activate"
      BY <1>1, <1>2, <1>3, <2>1, AdminsStay DEF ActiveAdmins
    <2>2. CASE req[b].op = "deactivate"
      BY <1>2, <2>2, AnotherAdmin DEF Removing
    <2> QED
      BY <2>1, <2>2
  <1> QED
    BY <1>1, <1>2, <1>3, <1>4, <1>5, AdminChange

\* add_role
LEMMA AddRoleInv ==
  ASSUME IInv, NEW b \in Browsers, req[b].pc = "commit", req[b].op = "add_role",
         add_role(b), Done(b), UNCHANGED <<attempts, signups, fails, hits, started>>
  PROVE  IInv'
  <1> DEFINE u == req[b].target
             old == users[u]
             new == [old EXCEPT !.roles = old.roles \cup {req[b].role}]
  <1>1. /\ UsersOK /\ TablesOK /\ ActiveAdmins # {} /\ u \in Users /\ old \in UserRow
        /\ req[b].role \in Roles
    BY CommitFacts DEF UsersOK, Request
  <1>2. /\ users' = [users EXCEPT ![u] = new] /\ old.exists
        /\ Free(b, <<"users", u>>) /\ Free(b, <<"roles", u>>)
        /\ UNCHANGED <<requests, tokens, cookie>>
    BY <1>1 DEF add_role, UsersOK, UserRow
  <1>3. /\ new \in UserRow /\ old.roles \subseteq new.roles /\ new.roles # {}
        /\ new.active = old.active /\ Grown(old, new)
    BY <1>1, <1>2 DEF UserRow, Grown
  <1> HIDE DEF new
  <1>4. TablesOK' /\ \A c \in Browsers \ {b} : Respects(c, u, new)
    BY <1>1, <1>2, <1>3 DEF TablesOK, Respects, Free
  <1>5. ActiveAdmins' # {}
    BY <1>1, <1>2, <1>3, AdminsStay DEF ActiveAdmins
  <1> QED
    BY <1>1, <1>2, <1>3, <1>4, <1>5, AdminChange

\* revoke_role
LEMMA RevokeRoleInv ==
  ASSUME IInv, NEW b \in Browsers, req[b].pc = "commit", req[b].op = "revoke_role",
         revoke_role(b), Done(b), UNCHANGED <<attempts, signups, fails, hits, started>>
  PROVE  IInv'
  <1> DEFINE u == req[b].target
             old == users[u]
             new == [old EXCEPT !.roles = old.roles \ {req[b].role}]
  <1>1. /\ UsersOK /\ TablesOK /\ ReqsOK /\ ActiveAdmins # {} /\ u \in Users /\ old \in UserRow
        /\ req[b].role \in Roles
    BY CommitFacts DEF UsersOK, Request
  <1>2. /\ <<"roles", u>> \in held[b] /\ req[b].role \in old.roles /\ old.roles # {req[b].role}
    BY CommitFacts DEF Fits, RevokeHolds
  <1>3. /\ users' = [users EXCEPT ![u] = new] /\ old.exists
        /\ UNCHANGED <<requests, tokens, cookie>>
    BY <1>1, <1>2 DEF revoke_role, UsersOK, UserRow, NoRow
  <1>4. /\ new \in UserRow /\ new.roles = old.roles \ {req[b].role} /\ new.roles # {}
        /\ new.active = old.active /\ Grown(old, new)
    BY <1>1, <1>2, <1>3 DEF UserRow, Grown
  <1> HIDE DEF new
  <1>5. TablesOK' /\ \A c \in Browsers \ {b} : Respects(c, u, new)
    <2>1. \A c \in Browsers \ {b} : <<"roles", u>> \notin held[c]
      BY <1>1, <1>2 DEF ReqsOK
    <2> QED
      BY <1>1, <1>3, <1>4, <2>1 DEF TablesOK, Respects
  <1>6. ActiveAdmins' # {}
    <2>1. CASE req[b].role = ADMIN
      BY <1>3, <2>1, AnotherAdmin DEF Removing
    <2>2. CASE req[b].role # ADMIN
      BY <1>1, <1>3, <1>4, <2>2, AdminsStay DEF ActiveAdmins
    <2> QED
      BY <2>1, <2>2
  <1> QED
    BY <1>1, <1>3, <1>4, <1>5, <1>6, AdminChange

\* A new user takes nothing from anybody.
LEMMA NewUserInv ==
  ASSUME IInv, NEW b \in Browsers, req[b].pc = "commit", Done(b), NEW u \in Users,
         ~ users[u].exists, NEW h \in Passwords \cup {NoPassword}, NEW must \in BOOLEAN,
         NEW role \in Roles, users' = [users EXCEPT ![u] = Row(TRUE, h, 0, must, {role})],
         UNCHANGED cookie, TablesOK'
  PROVE  IInv'
  <1> DEFINE new == Row(TRUE, h, 0, must, {role})
  <1>1. UsersOK /\ ActiveAdmins # {}
    BY CommitFacts
  <1>2. new \in UserRow /\ new.roles # {} /\ Grown(users[u], new)
    BY DEF Row, UserRow, Grown
  <1>3. u \notin ActiveAdmins
    BY <1>1 DEF ActiveAdmins, UsersOK, NoRow
  <1>4. users' = [users EXCEPT ![u] = new] /\ \A c \in Browsers : Respects(c, u, new)
    BY DEF Respects
  <1> HIDE DEF new
  <1>5. ActiveAdmins' # {}
    BY <1>1, <1>3, <1>4, AdminsStay
  <1> QED
    BY <1>2, <1>4, <1>5, AdminChange

\* create_user, approve_request and reject_request
LEMMA CreateUserInv ==
  ASSUME IInv, NEW b \in Browsers, req[b].pc = "commit", req[b].op = "create",
         create_user(b), Done(b), UNCHANGED <<attempts, signups, fails, hits, started>>
  PROVE  IInv'
  <1>1. /\ TablesOK /\ req[b].target \in Users /\ req[b].role \in Roles
        /\ req[b].new \in Passwords \cup {NoPassword}
    BY CommitFacts DEF Request
  <1>2. TablesOK'
    BY <1>1 DEF TablesOK, create_user
  <1>3. PICK must \in BOOLEAN :
          users' = [users EXCEPT ![req[b].target] = Row(TRUE, req[b].new, 0, must, {req[b].role})]
    BY DEF create_user
  <1> QED
    BY <1>1, <1>2, <1>3, NewUserInv DEF create_user

LEMMA RequestRow ==
  ASSUME TablesOK, NEW u \in Users, NEW st \in {"Approved", "Rejected"},
         requests' = [requests EXCEPT ![u] = [status |-> st, hash |-> NoPassword]],
         UNCHANGED <<tokens, attempts, signups, fails, hits, started>>
  PROVE  TablesOK' /\ requests[u].hash \in Passwords \cup {NoPassword}
  <1>1. [status |-> st, hash |-> NoPassword] \in
          [status : {"None", "Pending", "Approved", "Rejected"}, hash : Passwords \cup {NoPassword}]
    OBVIOUS
  <1> QED
    BY <1>1 DEF TablesOK

LEMMA ApproveInv ==
  ASSUME IInv, NEW b \in Browsers, req[b].pc = "commit", req[b].op = "approve",
         approve_request(b), Done(b), UNCHANGED <<attempts, signups, fails, hits, started>>
  PROVE  IInv'
  <1>1. TablesOK /\ req[b].target \in Users /\ req[b].role \in Roles
    BY CommitFacts DEF Request
  <1>2. TablesOK' /\ requests[req[b].target].hash \in Passwords \cup {NoPassword}
    BY <1>1, RequestRow DEF approve_request
  <1> QED
    BY <1>1, <1>2, NewUserInv DEF approve_request

LEMMA RejectInv ==
  ASSUME IInv, NEW b \in Browsers, req[b].pc = "commit", req[b].op = "reject",
         reject_request(b), Done(b), UNCHANGED <<attempts, signups, fails, hits, started>>
  PROVE  IInv'
  <1>1. TablesOK /\ req[b].target \in Users
    BY CommitFacts
  <1>2. TablesOK'
    BY <1>1, RequestRow DEF reject_request
  <1> QED
    BY <1>2, QuietEnd DEF reject_request

\* create_token and revoke_token
LEMMA TokenInv ==
  ASSUME IInv, NEW b \in Browsers, req[b].pc = "commit",
         \/ req[b].op = "token" /\ create_token(b)
         \/ req[b].op = "revoke_token" /\ revoke_token(b),
         Done(b), UNCHANGED <<attempts, signups, fails, hits, started>>
  PROVE  IInv'
  <1>1. TablesOK /\ tokens \in Seq(TokenRow)
    BY CommitFacts DEF TablesOK
  <1>2. tokens' \in Seq(TokenRow)
    <2>1. CASE req[b].op = "token" /\ create_token(b)
      <3> DEFINE t == [owner |-> req[b].target, state |-> "active"]
      <3>1. req[b].target \in Users
        BY <2>1, CommitFacts
      <3>2. t \in TokenRow /\ tokens' = Append(tokens, t)
        BY <2>1, <3>1 DEF TokenRow, create_token
      <3> HIDE DEF t
      <3> QED
        BY <1>1, <3>2, AppendProperties
    <2>2. CASE revoke_token(b)
      BY <1>1, <2>2, TokenState DEF revoke_token
    <2> QED
      BY <2>1, <2>2
  <1>3. UNCHANGED <<users, requests, cookie>>
    BY DEF create_token, revoke_token
  <1>4. TablesOK'
    BY <1>1, <1>2, <1>3 DEF TablesOK
  <1> QED
    BY <1>3, <1>4, QuietEnd

\* Every transaction.
LEMMA CommitInv ==
  ASSUME IInv, NEW b \in Browsers, Commit(b)
  PROVE  IInv'
  BY LogoutInv, PasswordInv, ResetInv, SetActiveInv, AddRoleInv, RevokeRoleInv, CreateUserInv,
     ApproveInv, RejectInv, TokenInv DEF Commit

\* A change from the command line, where no request ends.
LEMMA CommandInv ==
  ASSUME IInv, NEW u \in Users, NEW new \in UserRow, users' = [users EXCEPT ![u] = new],
         new.roles # {}, Grown(users[u], new), started' \in Nat,
         UNCHANGED <<requests, attempts, signups, tokens, fails, hits, cookie, held, req>>,
         \A c \in Browsers : Respects(c, u, new),
         ActiveAdmins' # {}
  PROVE  IInv'
  <1>1. UsersOK /\ TablesOK /\ CookiesOK /\ ReqsOK
    BY TypeParts DEF IInv
  <1>2. UsersOK' /\ users'[u] = new /\ users' = [users EXCEPT ![u] = users'[u]]
    BY <1>1, ChangedRows DEF Grown
  <1>3. TablesOK' /\ CookiesOK' /\ ReqsOK'
    BY <1>1 DEF TablesOK, CookiesOK, ReqsOK
  <1>4. TypeOK'
    BY <1>2, <1>3, TypeParts, PTL
  <1>5. \A c \in Browsers : Fits(c)'
    BY <1>1, <1>2, OthersFit DEF IInv
  <1>6. \A c \in Browsers : SessionFits(cookie[c])'
    BY <1>1, <1>2, SessionsKept DEF IInv
  <1>7. AdminRemains'
    BY DEF AdminRemains
  <1> QED
    BY <1>4, <1>5, <1>6, <1>7 DEF IInv

LEMMA SetPasswordInv ==
  ASSUME IInv, NEW u \in Users, NEW p \in Passwords, NEW t \in BOOLEAN, set_password(u, p, t)
  PROVE  IInv'
  <1> DEFINE old == users[u]
             new == Row(old.active, p, old.version + 1, t, old.roles)
  <1>1. UsersOK /\ TablesOK /\ old \in UserRow
    BY TypeParts DEF IInv, UsersOK
  <1>2. /\ users' = [users EXCEPT ![u] = new] /\ old.exists
        /\ \A b \in Browsers : <<"users", u>> \notin held[b]
    BY Zenon DEF set_password
  <1>6. started' \in Nat
    BY <1>1 DEF set_password, TablesOK
  <1>3. /\ new \in UserRow /\ new.roles = old.roles /\ new.roles # {}
        /\ new.active = old.active /\ Grown(old, new)
    BY <1>1, <1>2 DEF UserRow, UsersOK, Grown, Row
  <1> HIDE DEF new
  <1>4. \A c \in Browsers : Respects(c, u, new)
    BY <1>2, <1>3 DEF Respects
  <1>5. ActiveAdmins' # {}
    <2>1. ActiveAdmins # {}
      BY <1>2 DEF IInv, AdminRemains
    <2> QED
      BY <1>1, <1>2, <1>3, <2>1, AdminsStay DEF ActiveAdmins
  <1> QED
    BY <1>2, <1>6, <1>3, <1>4, <1>5, CommandInv DEF set_password

LEMMA CountAdminsInv ==
  ASSUME IInv, NEW b \in Browsers, NEW u \in Users, CountAdmins(b, u)
  PROVE  IInv'
  <1> DEFINE r == [Idle EXCEPT !.pc = "prompt", !.target = u]
  <1>1. TablesOK /\ ReqsOK
    BY TypeParts DEF IInv
  <1>2. r \in Request /\ Targeted(r) /\ r.pc = "prompt" /\ r.op = "logout"
    BY IdleType, AccountsAssumption DEF Request, Idle, Places, Targeted
  <1>3. req' = [req EXCEPT ![b] = r] /\ req'[b] = r /\ started' \in Nat
    BY <1>1 DEF CountAdmins, Start, TablesOK, ReqsOK
  <1> HIDE DEF r
  <1>4. Fits(b)'
    BY <1>2, <1>3 DEF Fits, PlaceFits, RevokeHolds, OtherAdmin, Removing, LoginFits
  <1> QED
    BY <1>2, <1>3, <1>4, QuietMove DEF CountAdmins

\* The administrator inserted takes nothing from anybody, whoever else there
\* is by then.
LEMMA CreateAdminInv ==
  ASSUME IInv, NEW b \in Browsers, NEW p \in Passwords, create_admin(b, p)
  PROVE  IInv'
  <1> DEFINE u == req[b].target
             new == Row(TRUE, p, 0, FALSE, {ADMIN})
  <1>1. UsersOK /\ TablesOK /\ ReqsOK
    BY TypeParts DEF IInv
  <1>2. u \in Users
    <2>1. req[b] \in Request /\ Targeted(req[b]) /\ req[b].pc = "prompt"
      BY <1>1 DEF ReqsOK, create_admin
    <2>2. req[b].op # "revoke_token"
      BY <2>1 DEF IInv, Fits, PlaceFits
    <2> QED
      BY <2>1, <2>2 DEF Targeted, Request
  <1>3. /\ users' = [users EXCEPT ![u] = new] /\ ~ users[u].exists
        /\ UNCHANGED cookie /\ Done(b)
    BY DEF create_admin
  <1>4. /\ new \in UserRow /\ new.roles # {} /\ Grown(users[u], new)
        /\ new.active /\ ADMIN \in new.roles
    BY <1>3, AccountsAssumption DEF Row, UserRow, Grown
  <1> HIDE DEF new
  <1>5. \A c \in Browsers : Respects(c, u, new)
    BY <1>3 DEF Respects
  <1>6. ActiveAdmins' # {}
    BY <1>1, <1>2, <1>3, <1>4 DEF ActiveAdmins, UsersOK
  <1>7. TablesOK'
    BY <1>1 DEF TablesOK, create_admin
  <1> HIDE DEF u
  <1> QED
    BY <1>2, <1>3, <1>4, <1>5, <1>6, <1>7, AdminChange

---------------------------------------------------------------------------

\* Every step keeps the invariant.
LEMMA NextInv == IInv /\ [Next]_vars => IInv'
  <1> SUFFICES ASSUME IInv, [Next]_vars PROVE IInv'
    OBVIOUS
  <1>1. ASSUME NEW b \in Browsers, Step(b) PROVE IInv'
    BY <1>1, SubmitLoginInv, CheckLimitInv, RefuseInv, AdmitInv, DropCookieInv, BeginInv, ChecksInv,
       LockTargetInv, LockAdminsInv, CommitInv, GiveUpInv, SubmitSignupInv, AccessRequestInv,
       ApiAskInv, ApiAnswerInv, CountAdminsInv, CreateAdminInv DEF Step
  <1>2. CASE UNCHANGED vars
    <2>1. TypeOK'
      BY <1>2 DEF vars, IInv, TypeOK
    <2>2. \A c \in Browsers : Fits(c)' /\ SessionFits(cookie[c])'
      BY <1>2, OthersFitQuiet DEF vars, IInv, SessionFits
    <2>3. AdminRemains'
      BY <1>2 DEF vars, IInv, AdminRemains, ActiveAdmins
    <2> QED
      BY <2>1, <2>2, <2>3 DEF IInv
  <1> QED
    BY <1>1, <1>2, SetPasswordInv, TimePassesInv DEF Next

LEMMA Invariance == Spec => []IInv
  BY InitInv, NextInv, PTL DEF Spec

\* Every variable keeps its type, no two transactions hold one row, and a user
\* who exists has a role (users/services.py, revoke_role).
THEOREM TypeCorrect == Spec => []TypeOK
  <1>1. IInv => TypeOK
    BY DEF IInv
  <1> QED
    BY <1>1, Invariance, PTL

\* An installation in use always has an active administrator, for any number of
\* administrators removing each other at once (users/services.py,
\* _lock_active_admins).
THEOREM AdministratorRemains == Spec => []AdminRemains
  <1>1. IInv => AdminRemains
    BY DEF IInv
  <1> QED
    BY <1>1, Invariance, PTL

\* No session outlives the password it was opened with: a login overtaken by a
\* reset, a change or a logout everywhere gets a session that is over
\* (auth/services.py, authenticate).
THEOREM SessionsKnowPassword == Spec => []LiveSessionKnowsPassword
  <1>1. IInv => LiveSessionKnowsPassword
    BY DEF IInv, LiveSessionKnowsPassword, SignedIn, SessionFits
  <1> QED
    BY <1>1, Invariance, PTL

---------------------------------------------------------------------------
(* Limits that are checked before they are used.                           *)

\* The requests that have passed the count of tokens, and those that have
\* passed the count of failures, for a user.
Creating(u) ==
  {b \in Browsers : req[b].pc = "commit" /\ req[b].op = "token" /\ req[b].target = u}
Guessing(u) ==
  {b \in Browsers : req[b].pc = "attempt" /\ req[b].target = u /\ req[b].row.exists}

\* Since(LAMBDA a : a.user = u), of any attempts.
WrongIn(log, u) ==
  {k \in DOMAIN log : /\ log[k].user = u /\ log[k].reason = "invalid_credentials"
                      /\ \A n \in DOMAIN log : log[n].user = u /\ log[n].reason = "" => n < k}

\* Whoever has passed a count counts already.  A success is recorded with the
\* account it was for.
LInv ==
  /\ \A u \in Users : Cardinality(ActiveTokens(u)) + Cardinality(Creating(u))
                        < MAX_ACTIVE_PER_USER + Cardinality(Browsers)
  /\ \A u \in Users : Cardinality(WrongIn(attempts, u)) + Cardinality(Guessing(u))
                        < LOGIN_MAX_FAILURES_PER_ACCOUNT + Cardinality(Browsers)
  /\ \A n \in DOMAIN attempts : attempts[n].reason = "" => attempts[n].user = attempts[n].name[1]

\* The failures that GuessesBounded counts.
LEMMA WrongIsSince ==
  ASSUME NEW u
  PROVE  Since(LAMBDA a : a.user = u) = WrongIn(attempts, u)
  BY DEF Since, WrongIn

\* The sum of what counts and of who is past the count: it grows only when
\* the count was below the limit.
LEMMA Counting ==
  ASSUME NEW A, NEW B, NEW P, NEW Q, NEW M \in Nat, IsFiniteSet(A), IsFiniteSet(B),
         P \subseteq Browsers, Q \subseteq Browsers,
         Cardinality(A) + Cardinality(P) < M + Cardinality(Browsers),
         \/ Cardinality(B) <= Cardinality(A) /\ Q \subseteq P
         \/ B = A /\ Cardinality(A) < M
         \/ \E x : B \subseteq A \cup {x} /\ \E b \in P : Q \subseteq P \ {b}
  PROVE  Cardinality(B) + Cardinality(Q) < M + Cardinality(Browsers)
  <1>1. /\ IsFiniteSet(Browsers) /\ IsFiniteSet(P) /\ IsFiniteSet(Q)
        /\ Cardinality(Q) <= Cardinality(Browsers)
    BY AccountsAssumption, FS_Subset
  <1>2. /\ Cardinality(A) \in Nat /\ Cardinality(B) \in Nat /\ Cardinality(P) \in Nat
        /\ Cardinality(Q) \in Nat /\ Cardinality(Browsers) \in Nat
    BY <1>1, FS_CardinalityType
  <1>3. CASE Cardinality(B) <= Cardinality(A) /\ Q \subseteq P
    <2>1. Cardinality(Q) <= Cardinality(P)
      BY <1>1, <1>3, FS_Subset
    <2> QED  BY <1>2, <1>3, <2>1
  <1>4. CASE B = A /\ Cardinality(A) < M
    BY <1>1, <1>2, <1>4
  <1>5. ASSUME NEW x, B \subseteq A \cup {x}, NEW b \in P, Q \subseteq P \ {b}
        PROVE  Cardinality(B) + Cardinality(Q) < M + Cardinality(Browsers)
    <2>1. /\ IsFiniteSet(A \cup {x}) /\ Cardinality(A \cup {x}) <= Cardinality(A) + 1
          /\ Cardinality(A \cup {x}) \in Nat
      <3>1. /\ IsFiniteSet(A \cup {x})
            /\ Cardinality(A \cup {x}) = IF x \in A THEN Cardinality(A) ELSE Cardinality(A) + 1
        BY FS_AddElement
      <3> QED  BY <1>2, <3>1
    <2>2. IsFiniteSet(P \ {b}) /\ Cardinality(P \ {b}) = Cardinality(P) - 1
      BY <1>1, FS_RemoveElement
    <2>3. Cardinality(B) <= Cardinality(A \cup {x}) /\ Cardinality(Q) <= Cardinality(P \ {b})
      BY <1>5, <2>1, <2>2, FS_Subset
    <2> QED  BY <1>2, <2>1, <2>2, <2>3
  <1> QED
    BY <1>3, <1>4, <1>5

\* A subset of a sequence's places is finite.
LEMMA PlacesFinite ==
  ASSUME NEW S, NEW q \in Seq(S), NEW A \in SUBSET (DOMAIN q)
  PROVE  IsFiniteSet(A) /\ Cardinality(A) \in Nat
  <1>1. DOMAIN q = 1 .. Len(q) /\ Len(q) \in Nat
    OBVIOUS
  <1>2. IsFiniteSet(DOMAIN q)
    BY <1>1, FS_Interval
  <1> QED
    BY <1>2, FS_Subset, FS_CardinalityType

\* What is counted is finite.
LEMMA CountsFinite ==
  ASSUME TablesOK, NEW u
  PROVE  IsFiniteSet(ActiveTokens(u)) /\ IsFiniteSet(WrongIn(attempts, u))
  <1>1. ActiveTokens(u) \in SUBSET (DOMAIN tokens) /\ WrongIn(attempts, u) \in SUBSET (DOMAIN attempts)
    BY DEF ActiveTokens, WrongIn
  <1> QED
    BY <1>1, PlacesFinite DEF TablesOK

\* Only the count of tokens lets a request create one, and only the count of
\* failures lets one try a password.
LEMMA PastTheCount ==
  ASSUME IInv, NEW b \in Browsers, Step(b)
  PROVE  /\ \A c \in Browsers \ {b} : req'[c] = req[c]
         /\ req'[b].pc = "commit" /\ req'[b].op = "token" => CountTokens(b)
         /\ req'[b].pc = "attempt" => CheckLimit(b)
  <1>1. ReqsOK /\ PlaceFits(b)
    BY TypeParts DEF IInv, Fits
  <1>2. CASE Done(b)
    BY <1>1, <1>2 DEF Done, ReqsOK, Idle
  <1>3. CASE CheckLimit(b)
    BY <1>1, <1>2, <1>3, ToFacts, MovedFields DEF CheckLimit, Places, ReqsOK, To
  <1>4. CASE CountTokens(b)
    BY <1>1, <1>4, MovedFields DEF CountTokens, Places, ReqsOK, To
  <1>5. CASE VerifyCurrent(b)
    BY <1>1, <1>5, MovedFields DEF VerifyCurrent, Places, ReqsOK, To, PlaceFits
  <1>6. CASE CheckRole(b)
    BY <1>1, <1>6, MovedFields DEF CheckRole, Places, ReqsOK, To, PlaceFits
  <1>7. CASE LockTarget(b)
    BY <1>1, <1>7, MovedFields DEF LockTarget, Places, ReqsOK, To, PlaceFits
  <1>8. CASE lock_active_admins(b)
    BY <1>1, <1>8, MovedFields DEF lock_active_admins, Places, ReqsOK, To, PlaceFits
  <1>9. CASE DropCookie(b)
    BY <1>9 DEF DropCookie, Start
  <1>10. ASSUME NEW r, req' = [req EXCEPT ![b] = r], r.pc # "attempt",
                r.op = "token" => r.pc # "commit"
         PROVE  /\ \A c \in Browsers \ {b} : req'[c] = req[c]
                /\ req'[b].pc = "commit" /\ req'[b].op = "token" => CountTokens(b)
                /\ req'[b].pc = "attempt" => CheckLimit(b)
    BY <1>1, <1>10 DEF ReqsOK
  <1>11. ASSUME NEW op \in Ops, NEW f \in Forms(op), Begin(b, op, f)
         PROVE  /\ \A c \in Browsers \ {b} : req'[c] = req[c]
                /\ req'[b].pc = "commit" /\ req'[b].op = "token" => CountTokens(b)
                /\ req'[b].pc = "attempt" => CheckLimit(b)
    <2>1. PICK r : /\ r = [pc |-> FirstPlace(op), op |-> op, by |-> cookie[b].uid,
                           admin |-> ADMIN \in users[cookie[b].uid].roles,
                           target |-> f.target, role |-> f.role, typed |-> f.typed,
                           new |-> f.new, ident |-> "username", row |-> NoRow,
                           token |-> f.token]
      OBVIOUS
    <2>2. req' = [req EXCEPT ![b] = r] /\ r.pc = FirstPlace(op) /\ r.op = op
      BY <1>11, <2>1 DEF Begin
    <2>3. FirstPlace(op) # "attempt" /\ (op = "token" => FirstPlace(op) # "commit")
      BY DEF FirstPlace
    <2> QED  BY <1>10, <2>2, <2>3
  <1>12. ASSUME NEW u \in Users, NEW i \in Idents, NEW p \in Passwords, SubmitLogin(b, u, i, p)
         PROVE  /\ \A c \in Browsers \ {b} : req'[c] = req[c]
                /\ req'[b].pc = "commit" /\ req'[b].op = "token" => CountTokens(b)
                /\ req'[b].pc = "attempt" => CheckLimit(b)
    <2>1. PICK r : r = [Idle EXCEPT !.pc = "limit", !.target = u, !.ident = i,
                                    !.typed = p, !.row = users[u]]
      OBVIOUS
    <2>2. req' = [req EXCEPT ![b] = r] /\ r.pc = "limit"
      BY <1>12, <2>1 DEF SubmitLogin, Idle
    <2> QED  BY <1>10, <2>2
  <1>13. ASSUME NEW u \in Users, NEW p \in Passwords, SubmitSignup(b, u, p)
         PROVE  /\ \A c \in Browsers \ {b} : req'[c] = req[c]
                /\ req'[b].pc = "commit" /\ req'[b].op = "token" => CountTokens(b)
                /\ req'[b].pc = "attempt" => CheckLimit(b)
    <2>1. PICK r : r = [Idle EXCEPT !.pc = "signup", !.target = u, !.new = p]
      OBVIOUS
    <2>2. req' = [req EXCEPT ![b] = r] /\ r.pc = "signup"
      BY <1>13, <2>1 DEF SubmitSignup, Idle
    <2> QED  BY <1>10, <2>2
  <1>16. ASSUME NEW u \in Users, CountAdmins(b, u)
         PROVE  /\ \A c \in Browsers \ {b} : req'[c] = req[c]
                /\ req'[b].pc = "commit" /\ req'[b].op = "token" => CountTokens(b)
                /\ req'[b].pc = "attempt" => CheckLimit(b)
    <2>1. PICK r : r = [Idle EXCEPT !.pc = "prompt", !.target = u]
      OBVIOUS
    <2>2. req' = [req EXCEPT ![b] = r] /\ r.pc = "prompt"
      BY <1>16, <2>1 DEF CountAdmins, Idle
    <2> QED  BY <1>10, <2>2
  <1>14. ASSUME NEW n, ApiAsk(b, n)
         PROVE  /\ \A c \in Browsers \ {b} : req'[c] = req[c]
                /\ req'[b].pc = "commit" /\ req'[b].op = "token" => CountTokens(b)
                /\ req'[b].pc = "attempt" => CheckLimit(b)
    <2>1. PICK r : r = [Idle EXCEPT !.pc = "api",
       !.by = IF n \in DOMAIN tokens /\ tokens[n].state = "active" THEN tokens[n].owner
              ELSE NoUser]
      OBVIOUS
    <2>2. req' = [req EXCEPT ![b] = r] /\ r.pc = "api"
      BY <1>14, <2>1 DEF ApiAsk, Idle
    <2> QED  BY <1>10, <2>2
  <1>15. (\/ Refuse(b) \/ Admit(b) \/ Commit(b) \/ GiveUp(b) \/ create_access_request(b)
          \/ ApiAnswer(b) \/ \E p \in Passwords : create_admin(b, p))
            => Done(b)
    BY DEF Refuse, Admit, Commit, GiveUp, create_access_request, ApiAnswer, create_admin
  <1> QED
    BY <1>2, <1>3, <1>4, <1>5, <1>6, <1>7, <1>8, <1>9, <1>11, <1>12, <1>13, <1>14, <1>15, <1>16 DEF Step

\* The requests past a count, after a step of b.
LEMMA Waiting ==
  ASSUME NEW b \in Browsers, NEW u, \A c \in Browsers \ {b} : req'[c] = req[c]
  PROVE  /\ ~ (req'[b].pc = "commit" /\ req'[b].op = "token") => Creating(u)' \subseteq Creating(u) \ {b}
         /\ req'[b].pc # "attempt" => Guessing(u)' \subseteq Guessing(u) \ {b}
  <1>1. ASSUME ~ (req'[b].pc = "commit" /\ req'[b].op = "token")
        PROVE  Creating(u)' \subseteq Creating(u) \ {b}
    BY <1>1 DEF Creating
  <1>2. ASSUME req'[b].pc # "attempt"
        PROVE  Guessing(u)' \subseteq Guessing(u) \ {b}
    BY <1>2 DEF Guessing
  <1> QED
    BY <1>1, <1>2

\* A token that is not new, and not activated, adds nothing.
LEMMA TokenChanged ==
  ASSUME TablesOK, NEW n \in DOMAIN tokens, NEW t \in {"expired", "revoked"},
         tokens' = [tokens EXCEPT ![n].state = t], NEW u
  PROVE  ActiveTokens(u)' \subseteq ActiveTokens(u)
  <1>1. ASSUME NEW k \in ActiveTokens(u)'
        PROVE  k \in ActiveTokens(u)
    <2>1. k \in DOMAIN tokens /\ tokens'[k].owner = u /\ tokens'[k].state = "active"
      BY <1>1 DEF ActiveTokens
    <2>2. k # n
      BY <2>1 DEF TablesOK, TokenRow
    <2> QED  BY <2>1, <2>2 DEF ActiveTokens
  <1> QED
    BY <1>1

\* What a step does to the tokens of a user, and to the requests that are
\* past the count.
LEMMA TokenStep ==
  ASSUME IInv, [Next]_vars, NEW u \in Users
  PROVE  \/ ActiveTokens(u)' \subseteq ActiveTokens(u) /\ Creating(u)' \subseteq Creating(u)
         \/ ActiveTokens(u)' = ActiveTokens(u) /\ Cardinality(ActiveTokens(u)) < MAX_ACTIVE_PER_USER
         \/ \E x : /\ ActiveTokens(u)' \subseteq ActiveTokens(u) \cup {x}
                  /\ \E b \in Creating(u) : Creating(u)' \subseteq Creating(u) \ {b}
  <1>0. TablesOK /\ ReqsOK
    BY TypeParts DEF IInv
  <1>1. CASE UNCHANGED <<tokens, req>>
    BY <1>1 DEF ActiveTokens, Creating
  <1>2. CASE TimePasses
    <2>1. Creating(u)' = Creating(u)
      BY <1>2 DEF TimePasses, Creating
    <2>2. CASE tokens' = tokens
      BY <2>1, <2>2 DEF ActiveTokens
    <2>3. ASSUME NEW n \in DOMAIN tokens, tokens' = [tokens EXCEPT ![n].state = "expired"]
          PROVE  ActiveTokens(u)' \subseteq ActiveTokens(u)
      BY <1>0, <2>3, TokenChanged
    <2> QED
      BY <1>2, <2>1, <2>2, <2>3 DEF TimePasses
  <1>3. ASSUME NEW b \in Browsers, Step(b), ~ CountTokens(b), tokens' = tokens
        PROVE  ActiveTokens(u)' \subseteq ActiveTokens(u) /\ Creating(u)' \subseteq Creating(u)
    <2>1. Creating(u)' \subseteq Creating(u)
      BY <1>3, PastTheCount, Waiting
    <2> QED  BY <1>3, <2>1 DEF ActiveTokens
  <1>4. ASSUME NEW b \in Browsers, CountTokens(b)
        PROVE  \/ ActiveTokens(u)' \subseteq ActiveTokens(u) /\ Creating(u)' \subseteq Creating(u)
               \/ ActiveTokens(u)' = ActiveTokens(u) /\ Cardinality(ActiveTokens(u)) < MAX_ACTIVE_PER_USER
    <2>1. ActiveTokens(u)' = ActiveTokens(u)
      BY <1>4 DEF CountTokens, ActiveTokens
    <2>2. CASE req[b].target = u
      BY <1>4, <2>1, <2>2 DEF CountTokens
    <2>3. CASE req[b].target # u
      <3>1. req'[b].target # u /\ \A c \in Browsers \ {b} : req'[c] = req[c]
        BY <1>0, <1>4, <2>3, MovedFields DEF CountTokens, Places, To, ReqsOK
      <3>2. Creating(u)' \subseteq Creating(u)
        BY <3>1 DEF Creating
      <3> QED  BY <2>1, <3>2
    <2> QED  BY <2>2, <2>3
  <1>5. ASSUME NEW b \in Browsers, Commit(b), tokens' # tokens
        PROVE  \/ ActiveTokens(u)' \subseteq ActiveTokens(u) /\ Creating(u)' \subseteq Creating(u)
               \/ \E x : /\ ActiveTokens(u)' \subseteq ActiveTokens(u) \cup {x}
                        /\ \E c \in Creating(u) : Creating(u)' \subseteq Creating(u) \ {c}
    <2>1. Creating(u)' \subseteq Creating(u) \ {b}
      <3>1. /\ \A c \in Browsers \ {b} : req'[c] = req[c]
            /\ req'[b] = Idle
        BY <1>0, <1>5 DEF Commit, Done, ReqsOK
      <3>2. ~ (req'[b].pc = "commit" /\ req'[b].op = "token")
        BY <3>1 DEF Idle
      <3> QED  BY <3>1, <3>2, Waiting
    <2>2. \/ req[b].op = "token" /\ create_token(b)
          \/ revoke_token(b)
      BY <1>5 DEF Commit, logout, change_password, reset_password, set_active, add_role,
                  revoke_role, create_user, approve_request, reject_request
    <2>3. CASE revoke_token(b)
      BY <1>0, <2>1, <2>3, TokenChanged DEF revoke_token
    <2>4. CASE req[b].op = "token" /\ create_token(b)
      <3>1. PICK t : t = [owner |-> req[b].target, state |-> "active"]
        OBVIOUS
      <3>2. t.owner = req[b].target /\ tokens' = Append(tokens, t) /\ tokens \in Seq(TokenRow)
        BY <1>0, <2>4, <3>1 DEF create_token, TablesOK
      <3>3. /\ DOMAIN tokens' = DOMAIN tokens \cup {Len(tokens) + 1}
            /\ \A k \in DOMAIN tokens : tokens'[k] = tokens[k]
            /\ tokens'[Len(tokens) + 1] = t
        BY <3>2
      <3>4. CASE req[b].target = u
        <4>1. ActiveTokens(u)' \subseteq ActiveTokens(u) \cup {Len(tokens) + 1}
          BY <3>3 DEF ActiveTokens
        <4>2. b \in Creating(u)
          BY <1>5, <2>4, <3>4 DEF Creating, Commit
        <4> QED  BY <2>1, <4>1, <4>2
      <3>5. CASE req[b].target # u
        <4>1. ActiveTokens(u)' \subseteq ActiveTokens(u)
          BY <3>2, <3>3, <3>5 DEF ActiveTokens
        <4> QED  BY <2>1, <4>1
      <3> QED  BY <3>4, <3>5
    <2> QED
      BY <2>2, <2>3, <2>4
  <1>6. ASSUME NEW b \in Browsers, Step(b)
        PROVE  CountTokens(b) \/ tokens' = tokens \/ Commit(b)
    BY <1>6 DEF Step, SubmitLogin, CheckLimit, Refuse, Admit, DropCookie, Begin, VerifyCurrent,
                CheckRole, LockTarget, lock_active_admins, GiveUp, SubmitSignup,
                create_access_request, ApiAsk, ApiAnswer, CountAdmins, create_admin
  <1>7. CASE \E v \in Users, p \in Passwords, t \in BOOLEAN : set_password(v, p, t)
    BY <1>1, <1>7 DEF set_password
  <1>9. UNCHANGED vars => UNCHANGED <<tokens, req>>
    BY DEF vars
  <1> QED
    BY <1>1, <1>2, <1>3, <1>4, <1>5, <1>6, <1>7, <1>9 DEF Next

\* Tail and Append, point by point.
LEMMA TailPoints ==
  ASSUME NEW S, NEW log \in Seq(S), log # <<>>, NEW new, new = Tail(log)
  PROVE  /\ Len(log) \in Nat \ {0} /\ DOMAIN log = 1 .. Len(log) /\ DOMAIN new = 1 .. Len(log) - 1
         /\ \A k \in DOMAIN new : k + 1 \in DOMAIN log /\ new[k] = log[k + 1]
  OBVIOUS

LEMMA AppendPoints ==
  ASSUME NEW S, NEW log \in Seq(S), NEW a \in S, NEW new, new = Append(log, a)
  PROVE  /\ DOMAIN new = DOMAIN log \cup {Len(log) + 1}
         /\ \A k \in DOMAIN log : new[k] = log[k]
         /\ new[Len(log) + 1] = a
  OBVIOUS

\* An attempt more: only a wrong password of an account counts more.
LEMMA WrongAppend ==
  ASSUME NEW log \in Seq(AttemptRow), NEW a \in AttemptRow, NEW u
  PROVE  /\ WrongIn(Append(log, a), u) \subseteq WrongIn(log, u) \cup {Len(log) + 1}
         /\ a.reason # "invalid_credentials" \/ a.user # u
              => WrongIn(Append(log, a), u) \subseteq WrongIn(log, u)
  <1>1. PICK new : new = Append(log, a)
    OBVIOUS
  <1>2. /\ DOMAIN new = DOMAIN log \cup {Len(log) + 1}
        /\ \A k \in DOMAIN log : new[k] = log[k]
        /\ new[Len(log) + 1] = a
    BY <1>1, AppendPoints
  <1>3. WrongIn(new, u) \subseteq WrongIn(log, u) \cup {Len(log) + 1}
    BY <1>2 DEF WrongIn
  <1>4. a.reason # "invalid_credentials" \/ a.user # u => Len(log) + 1 \notin WrongIn(new, u)
    BY <1>2 DEF WrongIn
  <1> QED
    BY <1>1, <1>3, <1>4

\* The oldest attempt less: nothing counts that did not count before.
LEMMA WrongTail ==
  ASSUME NEW log \in Seq(AttemptRow), log # <<>>, NEW u
  PROVE  Cardinality(WrongIn(Tail(log), u)) <= Cardinality(WrongIn(log, u))
  <1>1. PICK new : new = Tail(log)
    OBVIOUS
  <1>2. /\ Len(log) \in Nat \ {0} /\ DOMAIN log = 1 .. Len(log) /\ DOMAIN new = 1 .. Len(log) - 1
        /\ \A k \in DOMAIN new : k + 1 \in DOMAIN log /\ new[k] = log[k + 1]
    BY <1>1, TailPoints
  <1>3. ASSUME NEW k \in WrongIn(new, u)
        PROVE  k + 1 \in WrongIn(log, u)
    <2>1. k \in DOMAIN new /\ k + 1 \in DOMAIN log /\ new[k] = log[k + 1]
      <3>1. k \in DOMAIN new
        BY <1>3 DEF WrongIn
      <3> QED  BY <1>2, <3>1
    <2>2. log[k + 1].user = u /\ log[k + 1].reason = "invalid_credentials"
      BY <1>3, <2>1 DEF WrongIn
    <2>3. ASSUME NEW n \in DOMAIN log, log[n].user = u, log[n].reason = ""
          PROVE  n < k + 1
      <3>1. CASE n = 1
        BY <1>2, <2>1, <3>1
      <3>2. CASE n # 1
        <4>1. n - 1 \in DOMAIN new /\ new[n - 1] = log[n]
          BY <1>2, <3>2
        <4>2. n - 1 < k
          BY <1>3, <2>3, <4>1 DEF WrongIn
        <4> QED  BY <1>2, <2>1, <4>2
      <3> QED  BY <3>1, <3>2
    <2> QED  BY <2>1, <2>2, <2>3 DEF WrongIn
  <1>4. PICK shift : shift = [k \in WrongIn(new, u) |-> k + 1]
    OBVIOUS
  <1>5. WrongIn(new, u) \subseteq Nat
    <2>1. WrongIn(new, u) \subseteq DOMAIN new
      BY DEF WrongIn
    <2> QED  BY <1>2, <2>1
  <1>6. shift \in Injection(WrongIn(new, u), WrongIn(log, u))
    BY <1>3, <1>4, <1>5 DEF Injection, IsInjective
  <1>7. IsFiniteSet(WrongIn(log, u))
    <2>1. WrongIn(log, u) \in SUBSET (DOMAIN log)
      BY DEF WrongIn
    <2> QED  BY <2>1, PlacesFinite
  <1> QED
    BY <1>1, <1>6, <1>7, FS_Injection

\* Each kind of attempt that a login records.
LEMMA Recorded ==
  ASSUME TablesOK, NEW r \in Request, r.target \in Users,
         NEW why \in {"", "invalid_credentials", "account_inactive", "rate_limited"},
         record_attempt(r, why)
  PROVE  \E a \in AttemptRow : /\ attempts' = Append(attempts, a) /\ attempts \in Seq(AttemptRow)
                              /\ a.reason = why /\ a.name[1] = r.target
                              /\ a.user = IF r.row.exists THEN r.target ELSE NoUser
  <1>1. PICK a : a = [name |-> Name(r), reason |-> why,
                      user |-> IF r.row.exists THEN r.target ELSE NoUser]
    OBVIOUS
  <1>2. Name(r) \in Users \X Idents /\ Name(r)[1] = r.target
    BY DEF Name, Request
  <1>3. a \in AttemptRow
    BY <1>1, <1>2 DEF AttemptRow
  <1>4. a.reason = why /\ a.name = Name(r) /\ a.user = IF r.row.exists THEN r.target ELSE NoUser
    BY <1>1
  <1> QED
    BY <1>1, <1>2, <1>3, <1>4 DEF record_attempt, TablesOK

\* An account whose name is not limited has few enough failures: every success
\* that the count looks at, by name or by account, is one of the account.
LEMMA CountedAll ==
  ASSUME TablesOK, LInv, NEW r \in Request, r.target \in Users, r.row.exists, ~ is_rate_limited(r)
  PROVE  Cardinality(WrongIn(attempts, r.target)) < LOGIN_MAX_FAILURES_PER_ACCOUNT
  <1>1. PICK S : S = {k \in DOMAIN attempts :
           /\ attempts[k].name = Name(r) \/ (r.row.exists /\ attempts[k].user = r.target)
           /\ attempts[k].reason = "invalid_credentials"
           /\ \A n \in DOMAIN attempts :
                (attempts[n].name = Name(r) \/ (r.row.exists /\ attempts[n].user = r.target))
                  /\ attempts[n].reason = "" => n < k}
    OBVIOUS
  <1>2. ~ (Cardinality(S) >= LOGIN_MAX_FAILURES_PER_ACCOUNT)
    <2>1. S = Since(LAMBDA a : a.name = Name(r) \/ (r.row.exists /\ a.user = r.target))
      BY <1>1, Zenon DEF Since
    <2>2. ~ (Cardinality(Since(LAMBDA a : \/ a.name = Name(r)
                                          \/ r.row.exists /\ a.user = r.target))
               >= LOGIN_MAX_FAILURES_PER_ACCOUNT)
      BY Zenon DEF is_rate_limited
    <2> QED  BY <2>1, <2>2, Zenon
  <1>3. Name(r)[1] = r.target
    BY DEF Name
  <1>4. WrongIn(attempts, r.target) \subseteq S
    <2>1. \A n \in DOMAIN attempts : attempts[n].reason = "" => attempts[n].user = attempts[n].name[1]
      BY DEF LInv
    <2>2. ASSUME NEW n \in DOMAIN attempts, attempts[n].reason = "",
                 attempts[n].name = Name(r) \/ attempts[n].user = r.target
          PROVE  attempts[n].user = r.target
      BY <1>3, <2>1, <2>2
    <2>3. \A k \in WrongIn(attempts, r.target) :
            /\ k \in DOMAIN attempts /\ attempts[k].user = r.target
            /\ attempts[k].reason = "invalid_credentials"
            /\ \A n \in DOMAIN attempts :
                 attempts[n].user = r.target /\ attempts[n].reason = "" => n < k
      BY Zenon DEF WrongIn
    <2> QED  BY <1>1, <2>2, <2>3, Zenon
  <1>5. IsFiniteSet(S) /\ Cardinality(S) \in Nat
    <2>1. S \in SUBSET (DOMAIN attempts)
      BY <1>1
    <2> QED  BY <2>1, PlacesFinite DEF TablesOK
  <1>6. /\ Cardinality(WrongIn(attempts, r.target)) <= Cardinality(S)
        /\ Cardinality(WrongIn(attempts, r.target)) \in Nat
    BY <1>4, <1>5, FS_Subset, FS_CardinalityType
  <1> QED
    BY <1>2, <1>5, <1>6, AccountsAssumption

\* What a step does to the wrong passwords of a user, and to the requests that
\* are past the count.
LEMMA GuessStep ==
  ASSUME IInv, LInv, [Next]_vars, NEW u \in Users
  PROVE  \/ /\ Cardinality(WrongIn(attempts', u)) <= Cardinality(WrongIn(attempts, u))
            /\ Guessing(u)' \subseteq Guessing(u)
         \/ /\ attempts' = attempts
            /\ Cardinality(WrongIn(attempts, u)) < LOGIN_MAX_FAILURES_PER_ACCOUNT
         \/ \E x : /\ WrongIn(attempts', u) \subseteq WrongIn(attempts, u) \cup {x}
                  /\ \E b \in Guessing(u) : Guessing(u)' \subseteq Guessing(u) \ {b}
  <1>0. TablesOK /\ ReqsOK
    BY TypeParts DEF IInv
  <1>F. IsFiniteSet(WrongIn(attempts, u)) /\ Cardinality(WrongIn(attempts, u)) \in Nat
    BY <1>0, CountsFinite, FS_CardinalityType
  <1>1. CASE attempts' = attempts /\ Guessing(u)' \subseteq Guessing(u)
    BY <1>1, <1>F
  <1>2. CASE TimePasses
    <2>1. Guessing(u)' = Guessing(u)
      BY <1>2 DEF TimePasses, Guessing
    <2>2. CASE attempts' = attempts
      BY <1>1, <2>1, <2>2
    <2>3. CASE attempts # <<>> /\ attempts' = Tail(attempts)
      BY <1>0, <2>1, <2>3, WrongTail DEF TablesOK
    <2> QED
      BY <1>2, <2>2, <2>3 DEF TimePasses
  <1>3. ASSUME NEW b \in Browsers, Step(b), ~ CheckLimit(b)
        PROVE  Guessing(u)' \subseteq Guessing(u) \ {b}
    BY <1>3, PastTheCount, Waiting
  <1>4. ASSUME NEW b \in Browsers, CheckLimit(b), is_rate_limited(req[b])
        PROVE  /\ Cardinality(WrongIn(attempts', u)) <= Cardinality(WrongIn(attempts, u))
               /\ Guessing(u)' \subseteq Guessing(u)
    <2>1. /\ \A c \in Browsers \ {b} : req'[c] = req[c]
          /\ req'[b].pc # "attempt"
      BY <1>0, <1>4 DEF CheckLimit, Done, ReqsOK, Idle
    <2>2. Guessing(u)' \subseteq Guessing(u)
      BY <2>1, Waiting
    <2>3. /\ req[b] \in Request /\ req[b].target \in Users
          /\ record_attempt(req[b], "rate_limited")
      BY <1>0, <1>4 DEF CheckLimit, IInv, Fits, LoginFits, ReqsOK
    <2>4. PICK a \in AttemptRow : attempts' = Append(attempts, a) /\ attempts \in Seq(AttemptRow)
                                 /\ a.reason = "rate_limited"
      BY <1>0, <2>3, Recorded
    <2>5. WrongIn(attempts', u) \subseteq WrongIn(attempts, u)
      BY <2>4, WrongAppend
    <2> QED  BY <1>F, <2>2, <2>5, FS_Subset
  <1>5. ASSUME NEW b \in Browsers, CheckLimit(b), ~ is_rate_limited(req[b])
        PROVE  \/ Guessing(u)' \subseteq Guessing(u)
               \/ Cardinality(WrongIn(attempts, u)) < LOGIN_MAX_FAILURES_PER_ACCOUNT
    <2>1. /\ req[b] \in Request /\ req[b].target \in Users
      BY <1>0, <1>5 DEF CheckLimit, IInv, Fits, LoginFits, ReqsOK
    <2>2. /\ req'[b].target = req[b].target /\ req'[b].row = req[b].row
          /\ \A c \in Browsers \ {b} : req'[c] = req[c]
      BY <1>0, <1>5, MovedFields DEF CheckLimit, To, Places, ReqsOK
    <2>3. CASE req[b].target = u /\ req[b].row.exists
      BY <1>0, <1>5, <2>1, <2>3, CountedAll
    <2>4. CASE ~ (req[b].target = u /\ req[b].row.exists)
      BY <2>2, <2>4 DEF Guessing
    <2> QED  BY <2>3, <2>4
  <1>6. ASSUME NEW b \in Browsers, Admit(b)
        PROVE  WrongIn(attempts', u) \subseteq WrongIn(attempts, u)
    <2>1. /\ req[b] \in Request /\ req[b].target \in Users
          /\ record_attempt(req[b], "")
      BY <1>0, <1>6 DEF Admit, IInv, Fits, LoginFits, ReqsOK
    <2>2. PICK a \in AttemptRow : attempts' = Append(attempts, a) /\ attempts \in Seq(AttemptRow)
                                 /\ a.reason = ""
      BY <1>0, <2>1, Recorded
    <2> QED  BY <2>2, WrongAppend
  <1>7. ASSUME NEW b \in Browsers, Refuse(b)
        PROVE  \/ WrongIn(attempts', u) \subseteq WrongIn(attempts, u)
               \/ /\ WrongIn(attempts', u) \subseteq WrongIn(attempts, u) \cup {Len(attempts) + 1}
                  /\ b \in Guessing(u)
    <2>1. /\ req[b] \in Request /\ req[b].target \in Users /\ req[b].pc = "attempt"
      BY <1>0, <1>7 DEF Refuse, IInv, Fits, LoginFits, ReqsOK
    <2>2. PICK why \in {"invalid_credentials", "account_inactive"} : record_attempt(req[b], why)
      BY <1>7 DEF Refuse
    <2>3. PICK a \in AttemptRow : /\ attempts' = Append(attempts, a) /\ attempts \in Seq(AttemptRow)
                                 /\ a.user = IF req[b].row.exists THEN req[b].target ELSE NoUser
      BY <1>0, <2>1, <2>2, Recorded
    <2>4. CASE a.user = u
      <3>1. b \in Guessing(u)
        BY <2>1, <2>3, <2>4, AccountsAssumption DEF Guessing
      <3> QED  BY <2>3, <3>1, WrongAppend
    <2>5. CASE a.user # u
      BY <2>3, <2>5, WrongAppend
    <2> QED  BY <2>4, <2>5
  <1>8. ASSUME NEW b \in Browsers, Step(b), ~ CheckLimit(b), ~ Refuse(b), ~ Admit(b)
        PROVE  attempts' = attempts
    BY <1>8 DEF Step, SubmitLogin, DropCookie, Begin, VerifyCurrent, CountTokens, Commit,
                CheckRole, LockTarget, lock_active_admins, GiveUp, SubmitSignup,
                create_access_request, ApiAsk, ApiAnswer, CountAdmins, create_admin
  <1>9. ASSUME NEW b \in Browsers, Step(b)
        PROVE  \/ /\ Cardinality(WrongIn(attempts', u)) <= Cardinality(WrongIn(attempts, u))
                  /\ Guessing(u)' \subseteq Guessing(u)
               \/ /\ attempts' = attempts
                  /\ Cardinality(WrongIn(attempts, u)) < LOGIN_MAX_FAILURES_PER_ACCOUNT
               \/ \E x : /\ WrongIn(attempts', u) \subseteq WrongIn(attempts, u) \cup {x}
                        /\ \E c \in Guessing(u) : Guessing(u)' \subseteq Guessing(u) \ {c}
    <2>1. CASE CheckLimit(b) /\ is_rate_limited(req[b])
      BY <1>4, <2>1
    <2>2. CASE CheckLimit(b) /\ ~ is_rate_limited(req[b])
      <3>1. attempts' = attempts
        BY <2>2 DEF CheckLimit
      <3> QED  BY <1>1, <1>5, <2>2, <3>1
    <2>3. CASE ~ CheckLimit(b) /\ WrongIn(attempts', u) \subseteq WrongIn(attempts, u)
      <3>1. Guessing(u)' \subseteq Guessing(u)
        BY <1>3, <1>9, <2>3
      <3>2. Cardinality(WrongIn(attempts', u)) <= Cardinality(WrongIn(attempts, u))
        BY <1>F, <2>3, FS_Subset
      <3> QED  BY <3>1, <3>2
    <2>4. CASE ~ CheckLimit(b) /\ Refuse(b)
      BY <1>3, <1>7, <1>9, <2>3, <2>4
    <2>5. CASE ~ CheckLimit(b) /\ Admit(b)
      BY <1>6, <2>3, <2>5
    <2>6. CASE ~ CheckLimit(b) /\ ~ Refuse(b) /\ ~ Admit(b)
      BY <1>8, <1>9, <2>3, <2>6
    <2> QED
      BY <2>1, <2>2, <2>4, <2>5, <2>6
  <1>10. CASE \E v \in Users, p \in Passwords, t \in BOOLEAN : set_password(v, p, t)
    BY <1>1, <1>10 DEF set_password, Guessing
  <1>11. CASE UNCHANGED vars
    BY <1>1, <1>11 DEF vars, Guessing
  <1> QED
    BY <1>2, <1>9, <1>10, <1>11 DEF Next

\* A success more, of an account that was read.
LEMMA SuccessAppend ==
  ASSUME NEW log \in Seq(AttemptRow), NEW a \in AttemptRow
  PROVE  (a.reason = "" => a.user = a.name[1])
           /\ (\A n \in DOMAIN log : log[n].reason = "" => log[n].user = log[n].name[1])
         => \A n \in DOMAIN Append(log, a) :
           Append(log, a)[n].reason = "" => Append(log, a)[n].user = Append(log, a)[n].name[1]
  <1>1. PICK new : new = Append(log, a)
    OBVIOUS
  <1>2. /\ DOMAIN new = DOMAIN log \cup {Len(log) + 1}
        /\ \A k \in DOMAIN log : new[k] = log[k]
        /\ new[Len(log) + 1] = a
    BY <1>1, AppendPoints
  <1>3. ASSUME a.reason = "" => a.user = a.name[1],
               \A n \in DOMAIN log : log[n].reason = "" => log[n].user = log[n].name[1],
               NEW n \in DOMAIN new, new[n].reason = ""
        PROVE  new[n].user = new[n].name[1]
    BY <1>2, <1>3, Zenon
  <1> QED
    BY <1>1, <1>3, Zenon

\* A success is recorded only for an account that was read.
LEMMA SuccessStep ==
  ASSUME IInv, LInv, [Next]_vars, NEW n \in DOMAIN attempts', attempts'[n].reason = ""
  PROVE  attempts'[n].user = attempts'[n].name[1]
  <1>0. /\ TablesOK /\ ReqsOK /\ attempts \in Seq(AttemptRow)
        /\ \A k \in DOMAIN attempts : attempts[k].reason = "" => attempts[k].user = attempts[k].name[1]
    BY TypeParts DEF IInv, TablesOK, LInv
  <1>1. CASE attempts' = attempts
    BY <1>0, <1>1
  <1>2. CASE attempts # <<>> /\ attempts' = Tail(attempts)
    <2>1. n + 1 \in DOMAIN attempts /\ attempts'[n] = attempts[n + 1]
      <3>1. PICK log, new : log = attempts /\ new = attempts'
        OBVIOUS
      <3>2. log \in Seq(AttemptRow) /\ log # <<>> /\ new = Tail(log) /\ n \in DOMAIN new
        BY <1>0, <1>2, <3>1
      <3>3. n + 1 \in DOMAIN log /\ new[n] = log[n + 1]
        BY <3>2, TailPoints, Zenon
      <3> QED  BY <3>1, <3>3, Zenon
    <2> QED  BY <1>0, <2>1
  <1>3. ASSUME NEW a \in AttemptRow, attempts' = Append(attempts, a),
               a.reason = "" => a.user = a.name[1]
        PROVE  attempts'[n].user = attempts'[n].name[1]
    <2>1. \A k \in DOMAIN Append(attempts, a) :
            Append(attempts, a)[k].reason = "" => Append(attempts, a)[k].user = Append(attempts, a)[k].name[1]
      BY <1>0, <1>3, SuccessAppend, Zenon
    <2> QED  BY <1>3, <2>1, Zenon
  <1>4. ASSUME NEW b \in Browsers, req[b].pc \in {"limit", "attempt"},
               NEW why \in {"", "invalid_credentials", "account_inactive", "rate_limited"},
               record_attempt(req[b], why), why = "" => Admit(b)
        PROVE  attempts'[n].user = attempts'[n].name[1]
    <2>1. /\ req[b] \in Request /\ req[b].target \in Users /\ req[b].typed \in Passwords
          /\ ~ req[b].row.exists => req[b].row.hash = NoPassword
      BY <1>0, <1>4 DEF IInv, Fits, LoginFits, ReqsOK
    <2>2. why = "" => req[b].row.exists
      BY <1>4, <2>1, AccountsAssumption DEF Admit
    <2>3. PICK a \in AttemptRow : /\ attempts' = Append(attempts, a)
                                 /\ a.reason = why /\ a.name[1] = req[b].target
                                 /\ a.user = IF req[b].row.exists THEN req[b].target ELSE NoUser
      BY <1>0, <1>4, <2>1, Recorded
    <2>4. a.reason = "" => a.user = a.name[1]
      BY <2>2, <2>3
    <2> QED  BY <1>3, <2>3, <2>4
  <1>5. ASSUME NEW b \in Browsers, Step(b), ~ CheckLimit(b), ~ Refuse(b), ~ Admit(b)
        PROVE  attempts' = attempts
    BY <1>5 DEF Step, SubmitLogin, DropCookie, Begin, VerifyCurrent, CountTokens, Commit,
                CheckRole, LockTarget, lock_active_admins, GiveUp, SubmitSignup,
                create_access_request, ApiAsk, ApiAnswer, CountAdmins, create_admin
  <1>6. ASSUME NEW b \in Browsers, CheckLimit(b) \/ Refuse(b) \/ Admit(b)
        PROVE  attempts'[n].user = attempts'[n].name[1]
    BY <1>1, <1>4, <1>6 DEF CheckLimit, Refuse, Admit
  <1>7. CASE TimePasses
    BY <1>1, <1>2, <1>7 DEF TimePasses
  <1>8. (\E v \in Users, p \in Passwords, t \in BOOLEAN : set_password(v, p, t)) => attempts' = attempts
    BY DEF set_password
  <1>9. UNCHANGED vars => attempts' = attempts
    BY DEF vars
  <1> QED
    BY <1>1, <1>5, <1>6, <1>7, <1>8, <1>9 DEF Next

\* A step keeps both sums below their bounds ...
LEMMA LimitsStep ==
  ASSUME IInv, IInv', LInv, [Next]_vars
  PROVE  LInv'
  <1>1. TablesOK /\ TablesOK'
    <2>1. TypeOK /\ TypeOK'
      BY DEF IInv
    <2> QED  BY <2>1 DEF TypeOK, TablesOK, AttemptRow, TokenRow
  <1>2. LOGIN_MAX_FAILURES_PER_ACCOUNT \in Nat /\ MAX_ACTIVE_PER_USER \in Nat
    BY AccountsAssumption
  <1>3. ASSUME NEW u \in Users
        PROVE  (Cardinality(ActiveTokens(u)) + Cardinality(Creating(u))
                  < MAX_ACTIVE_PER_USER + Cardinality(Browsers))'
    <2>1. PICK A, P : A = ActiveTokens(u) /\ P = Creating(u)
      OBVIOUS
    <2>2. PICK B, Q : B = ActiveTokens(u)' /\ Q = Creating(u)'
      OBVIOUS
    <2>3. IsFiniteSet(A) /\ IsFiniteSet(B)
      <3>1. IsFiniteSet(ActiveTokens(u))
        BY <1>1, CountsFinite
      <3>2. IsFiniteSet(ActiveTokens(u)')
        <4>1. ActiveTokens(u)' \in SUBSET (DOMAIN tokens')
          BY DEF ActiveTokens
        <4> QED  BY <1>1, <4>1, PlacesFinite DEF TablesOK
      <3> QED  BY <2>1, <2>2, <3>1, <3>2
    <2>4. P \subseteq Browsers /\ Q \subseteq Browsers
      BY <2>1, <2>2 DEF Creating
    <2>5. Cardinality(A) + Cardinality(P) < MAX_ACTIVE_PER_USER + Cardinality(Browsers)
      BY <2>1 DEF LInv
    <2>6. \/ B \subseteq A /\ Q \subseteq P
          \/ B = A /\ Cardinality(A) < MAX_ACTIVE_PER_USER
          \/ \E x : B \subseteq A \cup {x} /\ \E b \in P : Q \subseteq P \ {b}
      BY <2>1, <2>2, TokenStep
    <2>7. B \subseteq A => Cardinality(B) <= Cardinality(A)
      BY <2>3, FS_Subset
    <2>8. Cardinality(B) + Cardinality(Q) < MAX_ACTIVE_PER_USER + Cardinality(Browsers)
      BY <1>2, <2>3, <2>4, <2>5, <2>6, <2>7, Counting
    <2> QED  BY <2>2, <2>8
  <1>4. ASSUME NEW u \in Users
        PROVE  (Cardinality(WrongIn(attempts, u)) + Cardinality(Guessing(u))
                  < LOGIN_MAX_FAILURES_PER_ACCOUNT + Cardinality(Browsers))'
    <2>1. PICK A, P : A = WrongIn(attempts, u) /\ P = Guessing(u)
      OBVIOUS
    <2>2. PICK B, Q : B = WrongIn(attempts', u) /\ Q = Guessing(u)'
      OBVIOUS
    <2>3. IsFiniteSet(A) /\ IsFiniteSet(B)
      <3>1. A \in SUBSET (DOMAIN attempts) /\ B \in SUBSET (DOMAIN attempts')
        BY <2>1, <2>2 DEF WrongIn
      <3> QED  BY <1>1, <3>1, PlacesFinite DEF TablesOK
    <2>4. P \subseteq Browsers /\ Q \subseteq Browsers
      BY <2>1, <2>2 DEF Guessing
    <2>5. Cardinality(A) + Cardinality(P) < LOGIN_MAX_FAILURES_PER_ACCOUNT + Cardinality(Browsers)
      BY <2>1 DEF LInv
    <2>6. \/ Cardinality(B) <= Cardinality(A) /\ Q \subseteq P
          \/ B = A /\ Cardinality(A) < LOGIN_MAX_FAILURES_PER_ACCOUNT
          \/ \E x : B \subseteq A \cup {x} /\ \E b \in P : Q \subseteq P \ {b}
      BY <2>1, <2>2, GuessStep
    <2>7. Cardinality(B) + Cardinality(Q) < LOGIN_MAX_FAILURES_PER_ACCOUNT + Cardinality(Browsers)
      BY <1>2, <2>3, <2>4, <2>5, <2>6, Counting
    <2> QED  BY <2>2, <2>7
  <1>5. (\A n \in DOMAIN attempts : attempts[n].reason = "" => attempts[n].user = attempts[n].name[1])'
    BY SuccessStep
  <1> QED
    BY <1>3, <1>4, <1>5 DEF LInv

\* ... nothing counts at first ...
LEMMA LimitsInit == Init => LInv
  <1> SUFFICES ASSUME Init PROVE LInv
    OBVIOUS
  <1>1. tokens = <<>> /\ attempts = <<>> /\ \A b \in Browsers : req[b].pc = "idle"
    BY DEF Init, Idle
  <1>2. \A u \in Users : ActiveTokens(u) = {} /\ Creating(u) = {}
    BY <1>1 DEF ActiveTokens, Creating
  <1>3. \A u \in Users : WrongIn(attempts, u) = {} /\ Guessing(u) = {}
    BY <1>1 DEF WrongIn, Guessing
  <1>4. Cardinality(Browsers) \in Nat /\ Cardinality(Browsers) # 0 /\ Cardinality({}) = 0
    BY AccountsAssumption, FS_EmptySet, FS_CardinalityType
  <1>5. 0 + 0 < MAX_ACTIVE_PER_USER + Cardinality(Browsers)
    BY <1>4, AccountsAssumption
  <1>6. 0 + 0 < LOGIN_MAX_FAILURES_PER_ACCOUNT + Cardinality(Browsers)
    BY <1>4, AccountsAssumption
  <1>7. \A n \in DOMAIN attempts : attempts[n].reason = "" => attempts[n].user = attempts[n].name[1]
    <2>1. DOMAIN attempts = {}
      BY <1>1
    <2> QED  BY <2>1
  <1> QED
    BY <1>2, <1>3, <1>4, <1>5, <1>6, <1>7 DEF LInv

\* ... so they always are.
LEMMA Limits == Spec => []LInv
  <1>1. IInv /\ IInv' /\ LInv /\ [Next]_vars => LInv'
    BY LimitsStep
  <1> QED
    BY <1>1, LimitsInit, Invariance, PTL DEF Spec

\* Requests that count a user's tokens at the same time go past the limit by
\* at most one each, less one (api/tokens.py:37).
THEOREM TokensStayBounded == Spec => []TokensBounded
  <1>1. IInv /\ LInv => TokensBounded
    <2> SUFFICES ASSUME IInv, LInv, NEW u \in Users
                 PROVE  Cardinality(ActiveTokens(u)) <= MAX_ACTIVE_PER_USER + Cardinality(Browsers) - 1
      BY DEF TokensBounded
    <2>1. TablesOK
      BY TypeParts DEF IInv
    <2>2. Creating(u) \subseteq Browsers /\ IsFiniteSet(Browsers) /\ IsFiniteSet(Creating(u))
      BY AccountsAssumption, FS_Subset DEF Creating
    <2>3. /\ Cardinality(ActiveTokens(u)) \in Nat /\ Cardinality(Creating(u)) \in Nat
          /\ Cardinality(Browsers) \in Nat
      BY <2>1, <2>2, CountsFinite, FS_CardinalityType
    <2>4. Cardinality(ActiveTokens(u)) + Cardinality(Creating(u))
            < MAX_ACTIVE_PER_USER + Cardinality(Browsers)
      BY DEF LInv
    <2> QED  BY <2>3, <2>4, AccountsAssumption
  <1> QED
    BY <1>1, Limits, Invariance, PTL

\* The same of the failures of an account since its last success, whichever of
\* its identifiers are typed (auth/services.py:81).
THEOREM GuessesStayBounded == Spec => []GuessesBounded
  <1>1. IInv /\ LInv => GuessesBounded
    <2> SUFFICES ASSUME IInv, LInv, NEW u \in Users
                 PROVE  Cardinality(WrongIn(attempts, u))
                          <= LOGIN_MAX_FAILURES_PER_ACCOUNT + Cardinality(Browsers) - 1
      BY WrongIsSince DEF GuessesBounded
    <2>1. TablesOK
      BY TypeParts DEF IInv
    <2>2. Guessing(u) \subseteq Browsers /\ IsFiniteSet(Browsers) /\ IsFiniteSet(Guessing(u))
      BY AccountsAssumption, FS_Subset DEF Guessing
    <2>3. /\ Cardinality(WrongIn(attempts, u)) \in Nat /\ Cardinality(Guessing(u)) \in Nat
          /\ Cardinality(Browsers) \in Nat
      BY <2>1, <2>2, CountsFinite, FS_CardinalityType
    <2>4. Cardinality(WrongIn(attempts, u)) + Cardinality(Guessing(u))
            < LOGIN_MAX_FAILURES_PER_ACCOUNT + Cardinality(Browsers)
      BY DEF LInv
    <2> QED  BY <2>3, <2>4, AccountsAssumption
  <1> QED
    BY <1>1, Limits, Invariance, PTL

=============================================================================
