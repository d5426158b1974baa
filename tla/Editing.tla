------------------------------ MODULE Editing ------------------------------
(***************************************************************************)
(* Edit forms and the database layer under every request: the pool, the    *)
(* connection a request borrows, the user the audit triggers read from it, *)
(* transactions, row locks and what happens when a lock is not given       *)
(* (app/db.py), with the requests that edit or touch a case, an evidence   *)
(* item or a storage location.                                             *)
(*                                                                         *)
(* A user works in one browser, one request at a time.  An edit form       *)
(* carries the updated_at it was opened with, whose resolution is a        *)
(* second; clock counts those seconds.  The row of a case stands for the   *)
(* row of its lead as well, which the same statement locks.  The users of  *)
(* this module may all edit (access.py); the status of the case decides.   *)
(***************************************************************************)
EXTENDS Naturals, Sequences

CONSTANTS
  Users, NoUser,
  Conns, NoConn,   \* the pool
  Contents,        \* what the fields of a row can say
  Ops,             \* the requests of this instance, a subset of AllOps
  MaxTime,         \* bound on the clock
  MaxRequests,     \* bound on the requests of a behaviour
  MaxFaults        \* bound on lost connections and failed SETs

Edits  == {"case", "item"}
Rows   == {"case", "item", "place"}
Opens  == [case |-> "open_case", item |-> "open_item"]
AllOps == Edits \cup {"open_case", "open_item", "status", "close", "exam", "transfer",
                      "place", "grant"}

ASSUME EditingAssumption ==
  /\ NoUser \notin Users /\ NoConn \notin Conns
  /\ Contents # {} /\ Ops \subseteq AllOps
  /\ MaxTime \in Nat /\ MaxRequests \in Nat /\ MaxFaults \in Nat

VARIABLES
  clock,      \* CURRENT_TIMESTAMP, in seconds
  content,    \* of each row
  history,    \* the times of its changes; updated_at is the last
  closed,     \* the status of the case
  lock,       \* the user whose transaction holds the row
  pool,       \* idle connections
  dropped,    \* connections neither in the pool nor in use
  actor,      \* @app_user_id of each connection
  form,       \* the edit form open in each browser
  req,        \* the request of each user
  granted,    \* audit rows of the role triggers: <<user_id, who really did it>>
  saved,      \* edits saved: the row, its changes when the form was opened and when it was saved
  started, faults

data == <<content, history, closed, granted, saved>>
vars == <<clock, data, lock, pool, dropped, actor, form, req, started, faults>>

NoForm == [row |-> "none", shown |-> 0, version |-> 0]
Idle == [pc |-> "idle", op |-> "status", conn |-> NoConn, todo |-> <<>>, new |-> CHOOSE x \in Contents : TRUE]

updated_at(r) == history[r][Len(history[r])]

To(u, place) == req' = [req EXCEPT ![u].pc = place]

---------------------------------------------------------------------------
(* A request and its connection.                                           *)

Arrive(u, op, new) ==
  /\ req[u].pc = "idle" /\ started < MaxRequests
  /\ op \in Edits => form[u].row = op
  /\ op \notin Edits \cup {"place"} => new = Idle.new
  /\ started' = started + 1
  /\ req' = [req EXCEPT ![u] = [Idle EXCEPT !.pc = "borrow", !.op = op, !.new = new]]
  /\ UNCHANGED <<clock, data, lock, pool, dropped, actor, form, faults>>

\* PoolError: no connection is idle, the request ends with a 503.
PoolExhausted(u) ==
  /\ req[u].pc = "borrow" /\ pool = {}
  /\ To(u, "end")
  /\ UNCHANGED <<clock, data, lock, pool, dropped, actor, form, started, faults>>

\* g.audit_user_id is not set yet: the connection starts without a user.
get_db(u) ==
  /\ req[u].pc = "borrow"
  /\ \E c \in pool :
       /\ pool' = pool \ {c}
       /\ actor' = [actor EXCEPT ![c] = NoUser]
       /\ req' = [req EXCEPT ![u].pc = "load", ![u].conn = c]
  /\ UNCHANGED <<clock, data, lock, dropped, form, started, faults>>

\* The SET statement fails: conn was not stored in g yet, so that close_db
\* finds none and the pool does not get it back.
SetFails(u) ==
  /\ req[u].pc = "borrow" /\ faults < MaxFaults
  /\ faults' = faults + 1
  /\ \E c \in pool : pool' = pool \ {c} /\ dropped' = dropped \cup {c}
  /\ To(u, "end")
  /\ UNCHANGED <<clock, data, lock, actor, form, started>>

\* Mutant: only g learns who is acting, not the connection already borrowed.
set_audit_user_OnlyG(u) ==
  /\ req[u].pc = "load"
  /\ To(u, "check")
  /\ UNCHANGED <<clock, data, lock, pool, dropped, actor, form, started, faults>>

\* load_logged_in_user has found the user.
set_audit_user(u) ==
  /\ req[u].pc = "load"
  /\ actor' = [actor EXCEPT ![req[u].conn] = u]
  /\ To(u, "check")
  /\ UNCHANGED <<clock, data, lock, pool, dropped, form, started, faults>>

\* Mutant: a connection without a transaction is not given back.
close_db_OnlyAfterWork(u) ==
  /\ req[u].pc = "end"
  /\ pool' = IF req[u].conn = NoConn \/ req[u].todo = <<>> THEN pool ELSE pool \cup {req[u].conn}
  /\ req' = [req EXCEPT ![u] = Idle]
  /\ UNCHANGED <<clock, data, lock, dropped, actor, form, started, faults>>

\* Teardown: the connection goes back, without its session variables.
close_db(u) ==
  /\ req[u].pc = "end"
  /\ pool' = IF req[u].conn = NoConn THEN pool ELSE pool \cup {req[u].conn}
  /\ actor' = [c \in Conns |-> IF c = req[u].conn THEN NoUser ELSE actor[c]]
  /\ req' = [req EXCEPT ![u] = Idle]
  /\ UNCHANGED <<clock, data, lock, dropped, form, started, faults>>

---------------------------------------------------------------------------
(* The page, and its transaction.                                          *)

\* The rows a request locks, in the order of its statements: update_evidence
\* joins the item to its case in one FOR UPDATE; a new examination locks the
\* case first, and the item by the foreign key of examination_evidence.
LockOrder(op) ==
  CASE op \in {"case", "status", "close"} -> <<"case">>
    [] op = "item"     -> <<"item", "case">>
    [] op = "exam"     -> <<"case", "item">>
    [] op = "transfer" -> <<"item">>
    [] op = "place"    -> <<"place">>
    [] OTHER           -> <<>>

\* The page reads its record first and refuses a closed case.
CheckPage(u) ==
  /\ req[u].pc = "check"
  /\ IF req[u].op \in Edits \cup {"open_case", "open_item", "status", "close", "exam"} /\ closed
     THEN To(u, "end")
     ELSE req' = [req EXCEPT ![u].pc = "lock", ![u].todo = LockOrder(req[u].op)]
  /\ UNCHANGED <<clock, data, lock, pool, dropped, actor, form, started, faults>>

LockNext(u) ==
  /\ req[u].pc = "lock" /\ req[u].todo # <<>>
  /\ lock[Head(req[u].todo)] = NoUser
  /\ lock' = [lock EXCEPT ![Head(req[u].todo)] = u]
  /\ req' = [req EXCEPT ![u].todo = Tail(req[u].todo)]
  /\ UNCHANGED <<clock, data, pool, dropped, actor, form, started, faults>>

Ready(u) == req[u].pc = "lock" /\ req[u].todo = <<>>

Released(u) == [r \in Rows |-> IF lock[r] = u THEN NoUser ELSE lock[r]]

\* transaction() ends, by COMMIT or by ROLLBACK.
End(u) == lock' = Released(u) /\ To(u, "end")

Waiting(u, v) == /\ req[u].pc = "lock" /\ req[u].todo # <<>>
                 /\ v # u /\ lock[Head(req[u].todo)] = v

\* Mutant: the statement that waited too long is tried again.
Busy_StatementAgain(u) ==
  /\ \E v \in Users : Waiting(u, v)
  /\ UNCHANGED vars

\* Error 1205 or 1213: translate_error makes it a TransientError and
\* transaction() rolls back.
Busy(u) ==
  /\ \E v \in Users : Waiting(u, v)
  /\ End(u)
  /\ UNCHANGED <<clock, data, pool, dropped, actor, form, started, faults>>

\* MySQL rolls back; close() still returns the connection.
ConnectionLost(u) ==
  /\ req[u].pc \in {"load", "check", "lock"} /\ faults < MaxFaults
  /\ faults' = faults + 1
  /\ End(u)
  /\ UNCHANGED <<clock, data, pool, dropped, actor, form, started>>

---------------------------------------------------------------------------
(* Operations: what each does once it has its locks.                       *)

Touch(r) == history' = [history EXCEPT ![r] = Append(@, clock)]

\* The GET of an edit page: the fields and version_of the row.
OpenForm(u, r) ==
  /\ Ready(u) /\ req[u].op = Opens[r]
  /\ form' = [form EXCEPT ![u] = [row |-> r, shown |-> Len(history[r]), version |-> updated_at(r)]]
  /\ End(u)
  /\ UNCHANGED <<clock, data, pool, dropped, actor, started, faults>>

\* Mutant: the version is not compared.
Unchanged_Unchecked(u, r) == TRUE

\* version_of(current) == expected_version
Unchanged(u, r) == updated_at(r) = form[u].version

Writes(u, r) ==
  /\ Touch(r)
  /\ content' = [content EXCEPT ![r] = req[u].new]
  /\ saved' = saved \cup {[row |-> r, shown |-> form[u].shown, found |-> Len(history[r])]}
  /\ form' = [form EXCEPT ![u] = NoForm]
  /\ UNCHANGED <<closed, granted>>

\* update_case, update_evidence
update(u, r) ==
  /\ Ready(u) /\ req[u].op = r
  /\ IF ~ closed /\ Unchanged(u, r) /\ req[u].new # content[r]
     THEN Writes(u, r)
     ELSE UNCHANGED <<data, form>>
  /\ End(u)
  /\ UNCHANGED <<clock, pool, dropped, actor, started, faults>>

\* No version: the last one wins.
update_location(u) ==
  /\ Ready(u) /\ req[u].op = "place"
  /\ IF req[u].new # content["place"]
     THEN Touch("place") /\ content' = [content EXCEPT !["place"] = req[u].new]
     ELSE UNCHANGED <<history, content>>
  /\ End(u)
  /\ UNCHANGED <<clock, closed, granted, saved, pool, dropped, actor, form, started, faults>>

\* change_status and sp_close_case; a status of the same name is refused.
change_status(u) ==
  /\ Ready(u) /\ req[u].op \in {"status", "close"}
  /\ \/ closed /\ UNCHANGED <<history, closed>>
     \/ ~ closed /\ Touch("case") /\ closed' = (req[u].op = "close")
  /\ End(u)
  /\ UNCHANGED <<clock, content, granted, saved, pool, dropped, actor, form, started, faults>>

\* sp_transfer_evidence changes the custodian, and so updated_at.
transfer(u) ==
  /\ Ready(u) /\ req[u].op = "transfer"
  /\ Touch("item")
  /\ End(u)
  /\ UNCHANGED <<clock, content, closed, granted, saved, pool, dropped, actor, form, started, faults>>

\* create_examination: new rows only.
create_examination(u) ==
  /\ Ready(u) /\ req[u].op = "exam"
  /\ End(u)
  /\ UNCHANGED <<clock, data, pool, dropped, actor, form, started, faults>>

\* A role is granted: trg_ur_audit_insert writes @app_user_id.
grant(u) ==
  /\ Ready(u) /\ req[u].op = "grant"
  /\ granted' = granted \cup {<<actor[req[u].conn], u>>}
  /\ End(u)
  /\ UNCHANGED <<clock, content, history, closed, saved, pool, dropped, actor, form, started, faults>>

Operation(u) ==
  \/ \E r \in Edits : OpenForm(u, r) \/ update(u, r)
  \/ update_location(u) \/ change_status(u) \/ transfer(u) \/ create_examination(u) \/ grant(u)

Tick ==
  /\ clock < MaxTime /\ clock' = clock + 1
  /\ UNCHANGED <<data, lock, pool, dropped, actor, form, req, started, faults>>

Init ==
  /\ clock = 0 /\ closed = FALSE
  /\ content \in [Rows -> {CHOOSE x \in Contents : TRUE}]
  /\ history = [r \in Rows |-> <<0>>]
  /\ granted = {} /\ saved = {}
  /\ lock = [r \in Rows |-> NoUser]
  /\ pool = Conns /\ dropped = {}
  /\ actor = [c \in Conns |-> NoUser]
  /\ form = [u \in Users |-> NoForm]
  /\ req = [u \in Users |-> Idle]
  /\ started = 0 /\ faults = 0

ServerStep(u) ==
  \/ PoolExhausted(u) \/ get_db(u) \/ set_audit_user(u) \/ close_db(u)
  \/ CheckPage(u) \/ LockNext(u) \/ Busy(u) \/ Operation(u)

Next ==
  \/ \E u \in Users :
       \/ \E op \in Ops, new \in Contents : Arrive(u, op, new)
       \/ ServerStep(u) \/ SetFails(u) \/ ConnectionLost(u)
  \/ Tick

Spec == Init /\ [][Next]_vars

\* A request that has begun goes on, and InnoDB ends every wait for a lock
\* (innodb_lock_wait_timeout, deadlock detection).
FairSpec == Spec /\ \A u \in Users : WF_vars(ServerStep(u))

---------------------------------------------------------------------------
(* Properties                                                              *)

\* update_case and update_evidence refuse lost updates: whatever changed
\* after the form was opened and before it was saved happened in the very
\* second of the change the form still showed.
NoLostUpdate ==
  \A e \in saved : \A k \in e.shown .. e.found : history[e.row][k] = history[e.row][e.shown]

\* The role triggers name the user of the request, though connections are
\* used by one user after another and borrowed before the user is known.
TriggersNameTheActor == \A row \in granted : row[1] = row[2]

\* Every connection is in the pool, in use by one request, or one whose SET
\* failed (get_db); a connection in the pool has no transaction and no user.
PoolIsKept ==
  /\ \A c \in Conns \ (pool \cup dropped) : \E u \in Users : req[u].conn = c
  /\ \A u, v \in Users : (u # v /\ req[u].conn # NoConn) => req[u].conn # req[v].conn
  /\ \A u \in Users : req[u].conn \notin pool \cup dropped
  /\ \A c \in pool : actor[c] = NoUser
  /\ \A r \in Rows : lock[r] # NoUser => req[lock[r]].conn # NoConn

\* Every request ends, also when two of them wait for each other's rows.
RequestsEnd == \A u \in Users : req[u].pc # "idle" ~> req[u].pc = "idle"

=============================================================================
