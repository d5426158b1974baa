----------------------------- MODULE YaraScans -----------------------------
(***************************************************************************)
(* The YARA rule library and the scans of one stored evidence file of one  *)
(* case: app/yara/services.py, the worker process (worker.py) and the loop *)
(* that watches it (runner.py).                                            *)
(*                                                                         *)
(* A scan reads the case's status, then the rules, then runs a worker      *)
(* process for up to a minute, then records what the worker answered in    *)
(* one transaction; the library, the case and the file may change at every *)
(* point in between.  The worker may answer, fail, stop without a word,    *)
(* hang, or grow past its memory; only the runner's loop ends the last     *)
(* two.  Who may manage rules or scan is decided before the request begins *)
(* and left out.                                                           *)
(***************************************************************************)
EXTENDS Naturals, Sequences, FiniteSets

CONSTANTS
  Rules,               \* the names of the library
  Sources,             \* rule sources
  Compiles,            \* those the worker compiles
  Hits,                \* those that match the evidence as it was stored
  Library,             \* the rules that exist from the start
  Sessions,            \* concurrent requests
  MAX_MATCHING_RULES,  \* the most matches a worker reports
  MaxVersions, MaxRequests,  \* bounds
  NoSource

SCOPES == {"All cases", "Selected cases"}
RuleOps == {"create", "version", "enable", "disable", "scope", "link", "unlink"}

ASSUME YaraAssumption ==
  /\ Compiles \subseteq Sources /\ Hits \subseteq Sources
  /\ NoSource \notin Sources
  /\ Library \subseteq Rules /\ MaxVersions \in Nat /\ MaxRequests \in Nat
  /\ MAX_MATCHING_RULES \in Nat

VARIABLES
  rules,     \* yara_rules, yara_rule_versions and yara_rule_cases
  scans,     \* yara_scans, yara_scan_rules and yara_matches
  closed,    \* the case is closed
  intact,    \* the file in storage is the one that was recorded
  lock,      \* rules whose row a transaction holds
  req,       \* each session's request
  worker,    \* each session's worker process
  started    \* requests so far

vars == <<rules, scans, closed, intact, lock, req, worker, started>>

NoRule == [exists |-> FALSE, enabled |-> FALSE, scope |-> "All cases",
           versions |-> <<>>, linked |-> FALSE]

\* chosen: the versions a scan has read, as <<rule, number>>.
Idle == [pc |-> "idle", op |-> "scan", rule |-> CHOOSE r \in Rules : TRUE,
         source |-> NoSource, scope |-> "All cases", chosen |-> {}, result |-> "none",
         hashed |-> "none", matches |-> {}]

\* hashed: what the worker found under the file's path.
NoWorker == [state |-> "none", hashed |-> "none", result |-> "none", matches |-> {}]

\* A process that runs: within its limits, above its memory, past its time.
Running == {"alive", "big", "late"}

Source(v) == rules[v[1]].versions[v[2]]

File == IF intact THEN "recorded" ELSE "damaged"

Start(s) == req[s].pc = "idle" /\ started < MaxRequests /\ started' = started + 1

To(s, place) == req' = [req EXCEPT ![s].pc = place]

Stop(s) ==
  /\ req' = [req EXCEPT ![s] = Idle]
  /\ lock' = [r \in Rules |-> IF lock[r] = <<s>> THEN <<>> ELSE lock[r]]

---------------------------------------------------------------------------
(* The rule library.                                                       *)

\* A form is sent; a new source goes to the worker first (validate).
SubmitRule(s, op, r, x, scope) ==
  /\ Start(s)
  /\ op = "create" \/ rules[r].exists
  /\ req' = [req EXCEPT ![s] = [Idle EXCEPT !.pc = IF x = NoSource THEN "check" ELSE "launch",
                                            !.op = op, !.rule = r, !.source = x, !.scope = scope]]
  /\ UNCHANGED <<rules, scans, closed, intact, lock, worker>>

\* What create_rule and add_case look up before their transaction.
CheckRule(s) ==
  LET r == req[s] IN
  /\ r.pc = "check"
  /\ r.op = "create" => ~ rules[r.rule].exists
  /\ r.op = "link" => ~ closed /\ ~ rules[r.rule].linked
  /\ To(s, "lock")
  /\ UNCHANGED <<rules, scans, closed, intact, lock, worker, started>>

\* SELECT ... FOR UPDATE of the rule, and the read of its latest version.  A
\* new rule has no row to lock; its name is a unique key.
LockRule(s) ==
  LET r == req[s] IN
  /\ r.pc = "lock"
  /\ lock[r.rule] = <<>>
  /\ lock' = [lock EXCEPT ![r.rule] = IF rules[r.rule].exists THEN <<s>> ELSE <<>>]
  /\ req' = [req EXCEPT ![s].pc = "commit",
               ![s].chosen = {<<r.rule, Len(rules[r.rule].versions)>>}]
  /\ UNCHANGED <<rules, scans, closed, intact, worker, started>>

create_rule(s) ==
  LET r == req[s] IN
  /\ r.op = "create" /\ ~ rules[r.rule].exists
  /\ rules' = [rules EXCEPT ![r.rule] = [exists |-> TRUE, enabled |-> TRUE, scope |-> r.scope,
                                         versions |-> <<r.source>>, linked |-> FALSE]]

\* The number after the latest that was read; an identical source is refused,
\* and the unique key refuses a number taken meanwhile.
new_version(s) ==
  LET r == req[s]
      latest == CHOOSE v \in r.chosen : TRUE IN
  /\ r.op = "version"
  /\ Source(latest) # r.source
  /\ latest[2] = Len(rules[r.rule].versions)
  /\ latest[2] < MaxVersions
  /\ rules' = [rules EXCEPT ![r.rule].versions = Append(@, r.source)]

set_enabled(s) ==
  LET r == req[s] IN
  /\ r.op \in {"enable", "disable"}
  /\ rules' = [rules EXCEPT ![r.rule].enabled = r.op = "enable"]

set_scope(s) ==
  LET r == req[s] IN
  /\ r.op = "scope"
  /\ rules' = [rules EXCEPT ![r.rule].scope = r.scope]

\* yara_rule_cases has a primary key: a case linked meanwhile is refused.
set_case(s) ==
  LET r == req[s] IN
  /\ r.op \in {"link", "unlink"}
  /\ r.op = "link" => ~ rules[r.rule].linked
  /\ rules' = [rules EXCEPT ![r.rule].linked = r.op = "link"]

CommitRule(s) ==
  /\ req[s].pc = "commit"
  /\ create_rule(s) \/ new_version(s) \/ set_enabled(s) \/ set_scope(s) \/ set_case(s)
  /\ Stop(s)
  /\ UNCHANGED <<scans, closed, intact, worker, started>>

\* A refusal, a lost connection, a file missing from storage: nothing is kept.
GiveUp(s) ==
  /\ req[s].pc \notin {"idle", "watch"}
  /\ Stop(s)
  /\ UNCHANGED <<rules, scans, closed, intact, worker, started>>

---------------------------------------------------------------------------
(* Scans.                                                                  *)

\* The page: the item with its case's status, and its stored file.
AskScan(s) ==
  /\ Start(s)
  /\ ~ closed
  /\ req' = [req EXCEPT ![s] = [Idle EXCEPT !.pc = "rules"]]
  /\ UNCHANGED <<rules, scans, closed, intact, lock, worker>>

\* The latest version of each enabled rule that applies to the case, in one
\* query.
applicable_versions ==
  {<<r, Len(rules[r].versions)>> :
     r \in {x \in Rules : /\ rules[x].exists /\ rules[x].enabled
                          /\ (rules[x].scope = "All cases" \/ rules[x].linked)}}

ReadRules(s) ==
  /\ req[s].pc = "rules"
  /\ applicable_versions # {}
  /\ req' = [req EXCEPT ![s].pc = "launch", ![s].chosen = applicable_versions]
  /\ UNCHANGED <<rules, scans, closed, intact, lock, worker, started>>

StatusFor(result) ==
  CASE result = "ok"      -> "Completed"
    [] result = "timeout" -> "Timed out"
    [] result = "memory"  -> "Memory limit"
    [] OTHER              -> "Failed"

Scan(r, versions) ==
  [status |-> StatusFor(r.result), versions |-> versions, hashed |-> r.hashed,
   matches |-> IF r.result = "ok" THEN r.matches ELSE {}]

\* Mutant: the rules are read again when the scan is recorded.
RecordScan_RulesAgain(s) ==
  /\ req[s].pc = "record"
  /\ scans' = Append(scans, Scan(req[s], applicable_versions))
  /\ Stop(s)
  /\ UNCHANGED <<rules, closed, intact, worker, started>>

\* The scan, the versions it used and its matches in one transaction.
RecordScan(s) ==
  /\ req[s].pc = "record"
  /\ scans' = Append(scans, Scan(req[s], req[s].chosen))
  /\ Stop(s)
  /\ UNCHANGED <<rules, closed, intact, worker, started>>

---------------------------------------------------------------------------
(* The worker process and the loop that watches it.                        *)

Launch(s) ==
  /\ req[s].pc = "launch"
  /\ worker' = [worker EXCEPT ![s] = [NoWorker EXCEPT !.state = "alive"]]
  /\ To(s, "watch")
  /\ UNCHANGED <<rules, scans, closed, intact, lock, started>>

Exit(s, result, matches) ==
  worker' = [worker EXCEPT ![s].state = "exited", ![s].result = result, ![s].matches = matches]

\* handle, mode validate: the source compiles or it does not.
WorkerCompiles(s) ==
  /\ worker[s].state \in Running
  /\ req[s].source # NoSource
  /\ Exit(s, IF req[s].source \in Compiles THEN "ok" ELSE "failed", {})
  /\ UNCHANGED <<rules, scans, closed, intact, lock, req, started>>

\* handle, mode scan: the file is hashed, then opened again and scanned.
WorkerHashes(s) ==
  /\ worker[s].state \in Running
  /\ req[s].source = NoSource /\ worker[s].hashed = "none"
  /\ worker' = [worker EXCEPT ![s].hashed = File]
  /\ UNCHANGED <<rules, scans, closed, intact, lock, req, started>>

\* Versions never change, so the sources sent are those of the versions.  A
\* damaged file may match anything; reports stop at MAX_MATCHING_RULES.
Matching(s) == {v \in req[s].chosen : Source(v) \in Hits}

WorkerScans(s) ==
  /\ worker[s].state \in Running /\ worker[s].hashed # "none"
  /\ \E found \in IF intact THEN {Matching(s)} ELSE SUBSET req[s].chosen :
       \E told \in SUBSET found :
         /\ IF Cardinality(found) <= MAX_MATCHING_RULES THEN told = found
            ELSE Cardinality(told) = MAX_MATCHING_RULES
         /\ Exit(s, "ok", told)
  /\ UNCHANGED <<rules, scans, closed, intact, lock, req, started>>

\* YARA-X missing, its own timeout or error, the file unreadable, a limit of
\* the system: the worker ends without a result that counts.
WorkerFails(s, why) ==
  /\ worker[s].state \in Running
  /\ why = "timeout" => worker[s].hashed # "none"
  /\ Exit(s, why, {})
  /\ UNCHANGED <<rules, scans, closed, intact, lock, req, started>>

WorkerGrows(s) ==
  /\ worker[s].state = "alive"
  /\ worker' = [worker EXCEPT ![s].state = "big"]
  /\ UNCHANGED <<rules, scans, closed, intact, lock, req, started>>

\* timeout + GRACE_SECONDS are over and the worker is still running.
Deadline(s) ==
  /\ worker[s].state \in {"alive", "big"}
  /\ worker' = [worker EXCEPT ![s].state = "late"]
  /\ UNCHANGED <<rules, scans, closed, intact, lock, req, started>>

\* Mutant: the loop waits for the worker only.
Outcome_NoDeadline(w) ==
  CASE w.state = "exited" -> w.result
    [] w.state = "big"    -> "memory"
    [] OTHER              -> "wait"

\* run_worker's loop: the answer, the deadline, the memory, or another turn.
Outcome(w) ==
  CASE w.state = "exited"  -> w.result
    [] w.state = "late"    -> "timeout"
    [] w.state = "big"     -> "memory"
    [] OTHER               -> "wait"

\* A killed worker's answer is lost, its hash included.  "unavailable" means
\* nothing ran, so nothing is recorded; a validation that fails ends there.
Poll(s) ==
  LET w == worker[s]
      why == Outcome(w)
      validating == req[s].source # NoSource
      gone == why = "unavailable" \/ (validating /\ why # "ok") IN
  /\ req[s].pc = "watch"
  /\ why # "wait"
  /\ worker' = [worker EXCEPT ![s] = NoWorker]
  /\ req' = [req EXCEPT ![s] =
       IF gone THEN Idle
       ELSE IF validating THEN [@ EXCEPT !.pc = "check"]
       ELSE [@ EXCEPT !.pc = "record", !.result = why, !.matches = w.matches,
                      !.hashed = IF w.state = "exited" THEN w.hashed ELSE "none"]]
  /\ UNCHANGED <<rules, scans, closed, intact, lock, started>>

---------------------------------------------------------------------------
(* The world around.                                                       *)

\* sp_close_case: the case of the file is closed for good.
CloseCase ==
  /\ ~ closed
  /\ closed' = TRUE
  /\ UNCHANGED <<rules, scans, intact, lock, req, worker, started>>

\* The stored file changes outside the application.
Damage ==
  /\ intact
  /\ intact' = FALSE
  /\ UNCHANGED <<rules, scans, closed, lock, req, worker, started>>

---------------------------------------------------------------------------

\* A library where some rules have been created already.
Init ==
  /\ \E x \in Compiles :
       rules = [r \in Rules |-> IF r \in Library
                                THEN [NoRule EXCEPT !.exists = TRUE, !.enabled = TRUE,
                                                    !.versions = <<x>>]
                                ELSE NoRule]
  /\ scans = <<>>
  /\ closed = FALSE
  /\ intact = TRUE
  /\ lock = [r \in Rules |-> <<>>]
  /\ req = [s \in Sessions |-> Idle]
  /\ worker = [s \in Sessions |-> NoWorker]
  /\ started = 0

\* "failed" stands for compile, file, scan and crash.
Failures == {"unavailable", "timeout", "memory", "failed"}

ServerStep(s) == CheckRule(s) \/ LockRule(s) \/ CommitRule(s) \/ ReadRules(s)
                   \/ RecordScan(s) \/ Launch(s) \/ Poll(s) \/ GiveUp(s)

Next ==
  \/ \E s \in Sessions :
       \/ \E r \in Rules, x \in Sources, scope \in SCOPES :
            SubmitRule(s, "create", r, x, scope)
       \/ \E r \in Rules, x \in Sources : SubmitRule(s, "version", r, x, "All cases")
       \/ \E r \in Rules, op \in {"enable", "disable", "link", "unlink"} :
            SubmitRule(s, op, r, NoSource, "All cases")
       \/ \E r \in Rules, scope \in SCOPES : SubmitRule(s, "scope", r, NoSource, scope)
       \/ AskScan(s)
       \/ ServerStep(s)
       \/ WorkerCompiles(s) \/ WorkerHashes(s) \/ WorkerScans(s) \/ WorkerGrows(s)
       \/ \E why \in Failures : WorkerFails(s, why)
       \/ Deadline(s)
  \/ CloseCase
  \/ Damage

Spec == Init /\ [][Next]_vars

\* The server goes on with a request it has begun, and time passes; the
\* worker owes nothing, and neither do the users.
FairSpec == Spec /\ \A s \in Sessions : WF_vars(ServerStep(s)) /\ WF_vars(Deadline(s))

---------------------------------------------------------------------------
(* Properties                                                              *)

\* A recorded scan says what happened: it names versions that exist, at most
\* one of each rule; Completed scans have the file's hash and, when the file
\* was intact throughout, exactly the matches of the versions they name (up
\* to the worker's limit); other scans have none (run_scan records what the
\* worker ran with, not what the library holds a minute later).
ScansTellTheTruth ==
  \A k \in DOMAIN scans :
    LET c == scans[k]
        true == {v \in c.versions : Source(v) \in Hits} IN
    /\ \A v, w \in c.versions : v[2] <= Len(rules[v[1]].versions) /\ (v[1] = w[1] => v = w)
    /\ c.matches \subseteq c.versions
    /\ c.status # "Completed" => c.matches = {}
    /\ c.status = "Completed" => c.hashed # "none"
    /\ c.status = "Completed" /\ intact /\ Cardinality(true) <= MAX_MATCHING_RULES
         => c.matches = true

\* A request that has started a worker ends, whatever the worker does: the
\* loop's deadline or the memory watchdog stops it (run_worker, "always
\* returns").
WorkerIsStopped == \A s \in Sessions : req[s].pc = "watch" ~> req[s].pc = "idle"

=============================================================================
