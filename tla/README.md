# FORGE-X: a TLA+ model of the evidence record

FORGE-X is a case and evidence management system for a forensic laboratory: a
Flask application (`app/`) over MySQL 8 (`database/`). Its promise is a record
that can be relied on: who held an item, when, and that its content has not
changed. Most of that promise is kept by transactions, row locks, triggers and
stored procedures that run concurrently for many web requests, which is what
these modules model.

## The system

| Part | State | Operations | Hard behaviour |
|---|---|---|---|
| Chain of custody (`app/custody`, `sp_transfer_evidence`, `sp_record_custody_correction`) | `chain_of_custody` (append-only), the item's status, custodian and location | hand over, correct, export (download) | forms that are stale when sent, a row lock, a REPEATABLE READ snapshot, ties in `occurred_at` |
| Cases (`app/cases`, `sp_register_case`, `sp_assign_investigator`, `sp_remove_investigator`, `sp_close_case`) | `cases`, `case_investigators`, `case_notes`, yearly counters | register, edit, change status, assign, close, delete, add note | closing races with everything that is added to the case |
| Evidence records (`app/evidence/services.py`, `sp_register_evidence`) | `evidence` | register, edit details | lost updates, lock order |
| Stored files (`app/evidence/files.py`, `app/storage`) | objects in a backend, `evidence_files`, `evidence_file_locations` | store, attach, verify, download, migrate | two stores and no common transaction: crashes, unknown commit outcomes |
| Integrity (`app/integrity`) | `evidence_hashes`, `hash_verifications` (append-only) | record, verify, correct | one chain of hashes per item under concurrent corrections |
| Examinations (`app/examinations`) | `examinations`, links, artifacts | create, start, submit, approve, return, cancel | independent review, closing the case |
| Reports (`app/reports`, `sp_create_report`, `sp_create_report_version`) | `forensic_reports`, `report_versions`, citations | create, revise, submit, approve, return, cite | immutable versions, independent approval, closing the case |
| Accounts (`app/users`, `app/auth`) | `users`, `user_roles`, `account_requests`, `login_attempts`, session versions | log in, log out, reset, deactivate, grant, revoke, approve a request | the last administrator, stale sessions, rate limits |
| API tokens (`app/api`) | `api_tokens`, in-memory rate counters | create, revoke, authenticate | limits checked outside the insert |
| YARA (`app/yara`) | rules, versions, scans, one worker process per scan | add a version, enable, scope, link, scan | a long worker run between reading and recording, a worker that hangs, grows or dies |
| Pages that only read (`app/dashboard`, `app/search`, `app/graph`, `app/api/routes.py`, the lists and detail pages, `app/access.py`) | none of their own; a graph under construction | list, show, search, chart, expand | every statement is a read of its own moment: assignments and links change between two statements of one page |
| Edit forms (`update_case`, `update_evidence`, `update_location`) | `updated_at`, the form in the browser | open, save | lost updates, a version with the resolution of a second, lock order |
| Database layer (`app/db.py`) | connection pool, `@app_user_id`, open transaction | borrow, set the user, transaction, return | a request's connection passes to the next user; rollback, lost connections, lock waits, deadlock victims |

How the parts interact. A web request authenticates (accounts), loads a record
with plain reads, checks `app/access.py`, and then runs one transaction of
`app/db.py`, often a single `CALL` of a stored procedure. There are no messages
and no background threads: components meet only in the rows they lock. The row of
the case is the meeting point of cases, examinations, reports and notes; the row
of the item that of custody, files and integrity; the counter rows that of all
registrations. Hence the hard behaviours:

* what the page checked is stale when the transaction runs, and not every
  transaction checks again;
* MySQL runs at REPEATABLE READ: a plain SELECT before a lock fixes what later
  plain SELECTs see, and a plain SELECT never waits for a lock;
* not everybody locks the same row (a handover locks the item, closing locks the
  case, a version locks the report, a note locks nothing of its own);
* every transaction may end at any point without effect: a refusal, a lock wait
  timeout, a deadlock victim, a lost connection;
* files live outside the database and follow no transaction.

What makes each part correct: an unbroken, replayable chain of custody that agrees
with the item's row; codes without gaps or repeats; one lead per case, nothing
changed on a closed or deleted case, records frozen once under review; a stored
file that is where the record says, with the content the record says, and that the
item's hashes vouch for; at least one active administrator, sessions that end when
the password changes, limits that hold up to the requests under way; scan records
that say what the worker really ran; pages that show a reader only what was hers to
see; edits that are not lost; a pool that keeps its connections and never lends one
with somebody else's name on it.

## Modules

| Module | Models |
|---|---|
| `CustodyRules` | which custody action is allowed from which status, and where it leads, kept twice by the program: in Python for the form, in SQL for the procedure |
| `CustodyLedger` | abstract specification: the chain and the item, changed only by a handover from the present holder, an export that repeats the holder, and a correction that replaces a destination |
| `Custody` | the detailed one: forms, sessions, the row lock, the snapshot of a correction, refusals, lost connections, the clock, and what the procedure reads again under the lock: roles, the team of the case, who and what is active, all of which change meanwhile |
| `CustodyProofs` | the theorems about `Custody`, and that it implements `CustodyLedger` |
| `References` | `sp_next_reference` and the registrations that call it: shared and exclusive lock on the counter row, the UNIQUE code, rollback, deadlock victims, new years, the width of the code |
| `CodeRegister` | abstract specification of the yearly codes: each registration takes the next number of its year, up to the width of the code; `References` implements it (`Abstract`, an INSTANCE with the counter rows mapped to numbers) |
| `ReferencesProofs` | its theorems, the refinement included |
| `CaseFile` | one case with its team, item, examination, report and notes, and every operation on them; takes the item's moves from `CustodyRules` |
| `CaseFileProofs` | its theorems |
| `EvidenceFiles` | the stored file of an item and its reference hashes: two backends outside every transaction, the tables that describe them, uploads, hash actions and the migration command, with uploads that fail with the object in place, crashes, failed removals, lost COMMIT replies and damage from outside |
| `EvidenceFilesProofs` | its theorems |
| `Accounts` | signing in (identifier, limit, attempt, session), session versions, passwords, roles, activation, the last administrator, access requests, API tokens and the API's counters, `set-password` and `create-admin` (counted, then inserted) |
| `AccountsProofs` | its theorems |
| `YaraScans` | the rule library with its versions and scopes, scans, the worker process and the loop that watches it |
| `YaraScansProofs` | its theorem |
| `Visibility` | every page, API answer and graph as the sequence of its SQL statements, run while assignments, records and links change |
| `VisibilityProofs` | its theorems |
| `Editing` | edit forms with their version token, and the database layer under every request: pool, audit user, row locks in the order the code takes them, lock waits, lost connections |
| `EditingProofs` | its theorems |
| `MC*` | the same modules with the symmetry of sessions, or the laboratory of an instance, for TLC |

State and actions follow the code's names where TLA+ allows. A session's request
is a record (`req`, `tx`) with the place it has reached (`pc`), the values it
carries, and what it read under its lock (`local`, `view`). A transaction is
split exactly where another one can come in between: the page's check, the lock,
the commit; `InsertIgnore`, `ForUpdate`, `MakeCode` and `Insert` for a
registration; the trigger and the foreign key for a note; store, first transaction
and second transaction for a registration with a file; list, source check, probe,
copy, target check and record for a migration. What happens under the
locks is one step. `PROJECT.json` gives the source lines of each definition.

How the later modules correspond to the code:

* `Accounts`: `users` is the tables `users` and `user_roles`; `cookie` is what a
  browser's session holds, with the password it was earned with as a history field;
  `held` is the rows a transaction has locked. A request is `Begin` (g.user and the
  guards of the route), the plain reads before the transaction (`VerifyCurrent`,
  `CountTokens`, `CheckRole`), the locking reads (`LockTarget`, `lock_active_admins`)
  and `Commit`, with one operator per service function. A login is `SubmitLogin` (the
  first SELECT), `CheckLimit`, and `Refuse` or `Admit`. `GiveUp` is every refusal,
  rollback and lost connection. `create-admin` counts the administrators
  (`CountAdmins`), waits at its prompt, and inserts (`create_admin`) without counting
  again; its terminal counts among the browsers.
* `YaraScans`: `req` is a request, `worker` the process it started. `run_worker`'s
  loop is a step per outcome (answer, failure, silence, deadline, memory); only the
  deadline and the watchdog end a worker that hangs or grows.
* `Visibility`: a statement is a record that says how its rows are found (within
  `Scope.case_filter`, by the id found earlier, by a link table ...) and whether it
  draws them into the graph. The definitions are named after the functions whose
  statements they list. `Read` runs the next statement against the data of that
  moment; `Graph_node` and `Graph_edge` are the methods of class `Graph` with its cap.
  The lists of people in the filters and forms of the case, evidence and custody pages
  (`active_investigators_for_filter`, `people_for_filter`, `active_investigators`) ask
  for no scope, and are modelled so. `hits` is each item's latest completed scan,
  `scan_completes` the commit of `run_scan`, which replaces it.
* `Editing`: `form` is the form open in a browser and the `updated_at` it carries,
  `history` the times of a row's changes, `req` the request with the connection it
  borrowed and the rows still to lock. `Busy` is what InnoDB does to a wait that does
  not end.

Abstractions. One item, one counter kind and one case with one child of each kind,
because no transaction touches two items or cases. Texts are the number of changes to
them and whether they are filled in; the roles of a user are constant except in
`Custody` and `Accounts`; the audit row, written inside the same transaction, is left
out. In `Custody` the clock counts the seconds `occurred_at` can tell apart. In
`EvidenceFiles` a content stands for its own SHA-256, so equal hashes mean equal
contents; `Damaged` is any content whose hash no record holds; the history variables
`stranded`, `doubtful` and `damaged` say which objects nobody is left to remove (or
nobody knows of), which were removed after a COMMIT whose reply was lost, and which
were changed from outside. Who may use the hash pages, and whether the case is open,
is left out there: no property of the module depends on it. In `Accounts` a password
stands for its hash, all browsers come from one address, and the attempts leave their
window in the order they were made. In `Visibility` an entry that belongs to one
record stands for that record, the filters of a list are dropped (they only narrow
it), and roles are constant. In `Editing` a row's fields are one content.

## Runs

All runs but `visibility_pages`, where there is always another page to ask for, say
`CHECK_DEADLOCK FALSE`: with the chain, the numbers or the edits at
their bound and all requests finished, the bounded system has nothing left to do.

| Run | Shows |
|---|---|
| `custody_concurrent` | two interleaved requests, corrections and typed times included: the lock works, the record of who held the item is unbroken, the handovers replay to the stored status, every commit is a step of the ledger |
| `custody_now` | handovers at NOW() while users and locations are deactivated and an investigator gains and loses roles and the place on the case: the item is where its latest entry says, in storage means at a location, the form's copy of the rules and the procedure's agree, and (under fairness) the lock is always given back |
| `custody_correction_race` | **violation**: a correction decides on the snapshot it took before waiting for the lock and undoes a handover committed meanwhile |
| `references_concurrent` | codes are gap-free and never reused, a number given out is free, and every commit is a step of `CodeRegister`, which never passes the width of a code |
| `casefile_case` | the case, its team, item, examination and notes: one lead, closed is final, review freezes, deletion leaves nothing |
| `casefile_records` | the item, examination and report of a case that may close: what is approved is what was submitted |
| `files_requests` | two requests and one migration on an item: every recorded place holds the recorded content, a refused upload leaves nothing behind, the stored file is one the hashes vouch for, the integrity status is about the current hash, and a file attached equals the reference hash of that moment |
| `files_two_migrations` | **violation**: one of two migrations removes the copy the other one has verified and records |
| `accounts_requests` | two browsers and a newcomer, from an empty installation and from one in use: an active administrator remains, a session that still counts was earned with the present password, wrong guesses and tokens exceed their limits only by the requests already past the count |
| `yara_scans` | two requests at once, the library, the case and the file changing under a scan: a scan record names versions that existed and exactly what matched, and (under fairness) a request ends whatever its worker does |
| `visibility_pages` | every page and API answer for an investigator of one case, and for one of another case who is a custodian too, with two changes at any point: the records shown belong to cases the reader could see at some moment of the request, and so do the people where the page does not list everyone; a graph that does not say it was truncated has every record and link of its case and every rule match in force all along |
| `editing_requests` | two users over two connections: edits are lost only within one second, the role triggers name the acting user, the pool loses a connection only to a failed SET, and (under fairness) requests that wait for each other end |

Bounds. Two users (one of the staff, one assigned investigator) give every row of the
permission rules and a handover between different people; two sessions give every
pairwise race, and since each property is about one transaction overtaken by another,
a third session adds no new kind of overtaking (`references_concurrent` uses three
because a deadlock victim needs a bystander). `MaxEntries = 4` is a registration, two
racing entries and one that builds on them; `custody_now` has 3, since with fairness
and without symmetry 4 is out of reach, and what it checks as an invariant is also
proved without a bound. `Leavers`, `Movers` and `Downloaders` choose who may be
deactivated, gain or lose roles and the place on the case, and download:
`custody_correction_race` leaves the downloads out, so that its trace is a correction
and a handover. `MaxTime = 2` gives equal and different seconds. `Capacity = 9` is a
code of width one: `MaxNumber = 11` goes past it, where LPAD cuts 10 and 11 to 1.
`MaxEdits = 2` lets a submitted record be written and then written again, and a report
have a second version. `casefile_case` registers the item too, so that a registration
meets closing and deletion. `Ops` and `Moves` choose the operations of a `CaseFile`
run; between them the two passing runs have all. `files_requests` has one item, since
requests for different items share neither rows nor objects; two object ids and two
contents, so that two uploads compete and one of them differs from the reference hash;
two hashes (an original and its correction) and two verifications, one of them of a
hash superseded later; three places, a move there and back. New files go to S3
(`Home`), so that a migration writes to local disk, the backend where a write can be
cut short. It has one migration at a time because `files_two_migrations` refutes the
property for two. `accounts_requests` has two administrators who can remove each other
and a third account that can be requested, created and approved; limits of one, which
two browsers can overrun by one; `MaxRequests = 3` is two racing requests and one that
depends on them, and the theorems about it have no bound. `yara_scans` has a rule that
exists and one that can be created, two versions, a source that matches and one that
does not, and a worker that reports one match at most, so that the limit is reached.
`visibility_pages` has two cases with an item of one hash each and an empty third one
(only an empty case can be deleted), a page of up to thirteen statements and two
changes, one of them undoing what the page relied on, a scan of an item among them
(`FirstHits` are the matches before it); `MAX_NODES = 5` is less than the graph of the
first case. `editing_requests` has two seconds, so that a change can fall into the
second the form showed or after it, two users who hold one row each, and one fault.

Fairness. `custody_now`: the server finishes a transaction it has
begun (`Finish`), and a wait for a row lock ends in the lock or in InnoDB's
timeout (`LockEvidence \/ ConnectionLost`). Users owe nothing: a form may stay
open for ever. The code justifies it by `BEGIN ... EXIT HANDLER ... ROLLBACK` in
each procedure, `transaction()` and `close_db`: no path leaves a transaction open.
`yara_scans`: the steps of the request's own thread, and `Deadline`, the passing of
the time `run_worker` compares with; the worker itself owes nothing, it may hang for
ever. `editing_requests`: the steps of a request that has begun, and `Busy`, InnoDB's
lock wait timeout and deadlock detection, which `translate_error` turns into an error
page; users open and save forms as they like.

## Theorems

`CustodyProofs`, for any users, locations, sessions and chain length:

* `TypeCorrect`, `LockWorks`, `ChainUnbroken`: the inductive invariant is
  TypeOK /\ LockProtocol /\ HandoverUnbroken. `HandoverUnbroken` alone is not
  inductive: a handover is recorded as coming from the custodian its transaction
  *read*, so one needs that what the holder of the lock read is still the row, and
  that a waiting correction names an entry that exists; that is `LockProtocol`.
* `ShownCustodian`, an action property, from the same invariant.
* `ImplementsLedger`: every step of `Custody` is a step of `CustodyLedger` or
  leaves the ledger alone.
* `CurrentIsLatestAtNow`: assuming no corrector and no typed times, the item is
  where its latest entry says and in storage means at a location. The invariant
  adds that entries are in time order and none is later than the clock. The run
  `custody_correction_race` shows that the first assumption is needed.
* `RefusalsAreNews`: the procedure refuses what the form let through only for
  news: the item moved, somebody or some place was deactivated, or the user lost the
  role or the place on the case, which the procedure reads again under its lock. The
  invariant says what a submitted request still satisfies; it rests on the lemma that
  the Python and the SQL rules are the same table. Roles, team and deactivations are
  variables, so the theorem is about every way they may change.
* `HistoryReplays`: every handover was allowed at its place in the chain and the
  handovers lead to the stored status. It is proved of the ledger's steps and carried
  over by `ImplementsLedger`. A replay is a solution of the equation `IsReplay`; the
  invariant says that there is one and that every one is legal and ends in the item's
  status, so a step has to be shown only to extend a replay by one entry, and no
  induction over the chain is needed.
* `StoredMeansPlaced`: the second half of `CurrentIsLatestAtNow` by itself, under the
  same assumption.

`ReferencesProofs`, for any sessions, years, numbers and width, assuming the year
is read once: `ProcedureCodesGapFree` and `ProcedureNumberIsFree`. The invariant
is TypeOK /\ NumberHeld (a transaction with a number holds the exclusive lock of
its year, its number is the next one and its code is that number's) /\
CodesGapFree /\ NeverPastCapacity; the last is needed because the code of a number
past the width is cut and would otherwise count as another number's.
`ProcedureImplementsRegister`, from the same invariant: `Insert` is the only step that
changes a counter row or the codes, and it is a step of `CodeRegister` under the map
from counter rows to numbers; all others are stutters.

`AccountsProofs`, for any users, roles, passwords, browsers and limits:
`AdministratorRemains`, `SessionsKnowPassword`, `TypeCorrect`. The invariant adds to
these four facts about each browser. `OtherAdmin`: a removal (deactivation, or
revocation of the administrator role) that has counted the administrators has another
active one, both of whose rows (user and role) it still holds; without it
`AdminRemains` is not inductive, since the removal commits steps after it has counted.
`RevokeHolds`: a revocation holds the roles of its target, which still contain the
role and another one. `LoginFits` and `SessionFits`: a login on its way, and a
session, carry a version that has been, and the password of today if it is the version
of today; it holds because every change of a hash moves the version. `PlaceFits`:
which operation can be where. A change of one user's row respects what the others rely
on because it needs the row free (`Respects`), or holds it itself, and no two
transactions hold one row.

`TokensStayBounded` and `GuessesStayBounded`: limits that are counted before the
transaction that uses them are overrun by the requests already past the count, and by
no more. The invariant (`LInv`) bounds the sum of what counts and of the requests past
the count: such a request adds to the one only by leaving the other, and the sum grows
only when the count was below the limit. The failures need two facts more: a success is
recorded with the account whose name was typed (`SuccessStep`), so that the count of a
login, which looks at the typed name and at the account, misses none of the account's
failures; and the oldest attempt leaving the window maps the failures that remain into
those there were (`WrongTail`). The browsers are assumed finite.

`EvidenceFilesProofs`, for any items, uploads, contents, requests, migrations and
bounds:

* `FilesVouchedFor`: the file of an item is one its hashes vouch for. The invariant
  is TypeOK /\ RowsOK /\ ReqOK /\ MoveOK /\ PlacesOK /\ FileHashWasReference.
  `ReqOK` says what a request may still rely on: between the two transactions of a
  registration the file's hash is among the item's hashes, and a request that holds
  the item's row has read the hash that is current. The first half holds because
  hashes are only ever appended, the second because `row` names one holder and every
  hash action takes it. `RowsOK` says that an item has no file or hash before it is
  registered, `MoveOK` that a file being moved is on record, `PlacesOK` that a
  recorded file has a place.
* `AttachRespectsReference`, an action property, from the same invariant: what
  `attach` compared the upload with is still the reference hash when it commits.
* `StatusIsCurrent`: the integrity status is that of the last content compared with
  the current hash. The invariant (`ChecksTrue`) says that each recorded verification
  tells the truth about the hash it names, which stays true because hashes are only
  appended (`HashesExtend`).
* `NothingLeftBehind`: an object that no row names belongs to a request that still
  runs, or nobody was left to remove it, or nobody knows of it: the store kept an object
  whose upload it reported as failed, and `_store` has no id to discard (`StoreFails`:
  an S3 upload that took effect, whose reply was lost and whose retry is answered 412; a
  local write whose clean-up or chmod failed). `stranded` collects the last two. The
  invariant adds `EmptyHanded` (a request
  carries an object only while it has an upload to record), `OneOwner` (an object
  belongs to one request or to one file) and `AtHome` (what is not on record has not
  been copied away from the backend new files go to). The steps are classified by what they do to objects and
  rows: nothing, upload, remove, record, move.
* `PlacesAreTrue`: every recorded place holds the recorded content, assuming
  `OneMigration`. The invariant adds `UploadsHold` (what a request has yet to record is
  as it was stored) and `MoveHolds` (what a migration records is there, and it removes
  or overwrites a copy on record only if that copy was damaged or had lost its COMMIT
  reply). The run
  `files_two_migrations` shows that the assumption is needed.
* `TypeCorrect`.

`CaseFileProofs`, for any users, sessions, operations and bounds: `TypeCorrect`,
`OneLead`, `ClosedExaminations`, `DeletionLeavesNothing`, and as action properties
`ClosingIsFinal`, `SubmittedRecordFrozen` and `SubmittedReportFrozen`. None of them is
inductive, since a request decides on what it read some steps before it writes. The
invariant adds `Sound`: what a request has read under a lock is still so while it holds
that lock (the report's for a new version, the case's for everything else, both for the
review of a report), next to `Shape`, the fields of a request. `NextStep` then proves of each operation
that it keeps the invariant and is a legal step; the lead is a cardinality argument over
the team.

`EditingProofs`, for any users, connections and rows: `NoUpdateIsLost`,
`AuditNamesTheActor`, `ConnectionsKept`. The first rests on the clock: the times of a
row's changes never decrease and none is in the future, so a form whose `updated_at`
is still the latest saw every change but those of that second. The other two rest on
who has a connection: it is in the pool, dropped, or with one request, a pooled one has
no user, and from `load_logged_in_user` on the connection's user is the request's.

`YaraScansProofs`, for any rules, sources, sessions and limits: `RecordedScansAreTrue`.
What the property says of a recorded scan already holds of the answer in the worker and
in the request that has fetched it; versions that exist keep their source because rules
only gain versions, and damage is never undone, so a file that is intact when a scan is
recorded was intact when it was hashed and scanned.

`VisibilityProofs`, for any laboratory and any number of changes during a request:

* `OnlyVisibleIsShown`: of records everywhere; of people on every page but those that
  list everyone in a filter or a form (`PeoplePages`). The invariant adds `Ready`: a statement that goes by an id and
  asks for no scope is run only after the record of that id was found within the scope
  (or the statement that looks for it comes first), with `LinksInOneCase`, so it reaches
  only records of that case. Assignments may go at any moment: what counts is what the
  reader could see at some moment of the request.
* `GraphsAreWhole`: the records and links the case had when the request began, and the
  matches that were in force from then on (`steady`): a scan that completes meanwhile
  replaces the matches of its item. The invariant says which statements of `case_graph` are left and
  what is drawn by then unless the graph was truncated (`Whole`), and that links join
  records that exist and neither goes (`Kept`).
* `TypeCorrect`, with the cap of a graph.

The laboratory is any that `VisibilityAssumption` allows: an item has one kind and one
case, links join items of one case and of kinds that have a link table, rules match
evidence only, and the names of cases, items, users, hashes and rules are distinct.

Only model-checked: the liveness properties `LockIsReleased`, `WorkerIsStopped` and
`RequestsEnd`, which need fairness. Every other property of a passing run is the
subject of a theorem.

## Disagreements between the code and what it says

Two runs, `custody_correction_race` and `files_two_migrations`, are listed as findings
in `PROJECT.json` with the lines they contradict. Others are visible in the models
without a run of their own.

Custody, cases and records:

* a correction without a location leaves an item In Storage with none
  (procedures.sql:545, `CorrectionCommit`);
* `create_examination` reads the year twice (examinations/services.py:171 and 172): at
  New Year the old year's number goes into a code of the new year (`MakeCode` with
  `YearReadAgain`), though line 170 says "The same gap-free yearly counter the
  procedures use.";
* an item is checked out while its case closes, since closing locks the case and a
  handover the item (procedures.sql:712); a version of a report (procedures.sql:757)
  and a note (triggers.sql:223) land on a case closed meanwhile;
* an investigator removed meanwhile becomes examiner (examinations/services.py:162,
  `CreateExamination`); a citation lands on a report that is no Draft any more (`Cite`);
* two entries with one `occurred_at` make a correction of the older one the latest
  (`IsLatestVisible`); the typed time of a handover is compared outside the lock
  (`TimeAccepted`); a handover is refused only if the custodian changed, not if the
  item moved and came back (`TransferAccepted`).

Locks and lost updates:

* `update_evidence` locks the item and then its case, `create_examination` the case
  and then (by foreign key) the item (`LockOrder`), and two registrations deadlock on
  the counter row (`Deadlocked`), though docs/VIVA_GUIDE.md:92 says "Rows are always
  locked in the same order (counter, parent, child) to avoid deadlocks". The victim is
  not retried: `retry_on_transient` is applied nowhere;
* an edit within the second of the change its form showed overwrites later changes of
  that second (`Unchanged`), though `update_case` says it "Refuses if someone else
  changed the case after the form was opened"; `NoLostUpdate` states what is kept.

Files: the query for the new item's id stands between the two transactions of
`register_with_file` and in neither try block, so when it fails the object is neither
recorded nor removed (`RegisterAborts`); an object stored by an upload that was
reported as failed is not removed either (`StoreFails`); a COMMIT whose reply is lost
makes `attach` and `migrate` remove an object that is on record (`AttachReplyLost`,
`RecordMoveReplyLost`); a correction between the two transactions of a registration
leaves a file that differs from the current reference hash (`RecordFile`).

Accounts: `change_password` reads the hash outside its transaction, so a reset in
between is overwritten and its must-change flag cleared (`VerifyCurrent`);
`create-admin`, "Refused while any active administrator exists" (cli.py:176), counts
them before its prompt and not after it (`create_admin`); the security view counts
failures per typed identifier (audit_logs/services.py:138) though it says it uses the
rule of the login, which also counts by account.

Scans and pages: a scan is recorded on a case closed meanwhile; the file is hashed and
scanned in two opens, so `ScansTellTheTruth` speaks of a file that stayed intact;
matches past the worker's limit are left out unsaid; `expand` of a hash returns a
graph though its docstring promises None for what the reader may not see; the case,
evidence and custody pages name people who have no case in common with the reader, in
lists that ask for no scope (cases/routes.py:53 and 129, evidence/routes.py:37,
custody/routes.py:42); the figures of a dashboard are separate statements and need not
add up.

## Plan

Modelling: a report's page that reads the status and then calls the procedure, so that
the version an approver was shown appears in the model; the rename of a user with a
pending access request; the due date set after a case is created.

Proving: that the properties a violation run refutes hold without the step that breaks
them (a citation checked under the report's lock, a correction that reads after it has
the lock), as theorems about a constant that chooses the repaired step.

## Not modelled

PDFs, wording, layout, sorting and paging, start-up, configuration and demo data: they
keep no state the rest depends on. The rows of the audit log other than those of the
role triggers: INSERTs inside transactions that are modelled. The change of a user's
names (`update_user_details`), so also the race of a renaming with a pending access
request; the due date `create_case` sets in a second transaction; the creation of a
storage location, one INSERT under a unique key; the page of an approval with the
version it showed, of which the models keep only that an approved text is one that was
submitted; the two creation forms of examinations and reports, which list the content
of a case they have yet to check.
