--------------------------- MODULE YaraScansProofs ---------------------------
(***************************************************************************)
(* A theorem about YaraScans, for any library, sources, sessions and       *)
(* limits.                                                                 *)
(*                                                                         *)
(* ScansTellTheTruth speaks of scans that are recorded; what makes it      *)
(* inductive is that the same already holds of the answer on its way, in   *)
(* the worker and in the request that has fetched it, and that a version,  *)
(* once it exists, keeps its source: rules only get more versions.         *)
(***************************************************************************)
EXTENDS YaraScans, SequenceTheorems, TLAPS

Places == {"idle", "check", "launch", "watch", "lock", "commit", "rules", "record"}
Hashes == {"none", "recorded", "damaged"}
Results == {"none", "ok"} \cup Failures
Version == Rules \X Nat

RuleType == [exists : BOOLEAN, enabled : BOOLEAN, scope : SCOPES,
             versions : Seq(Sources \cup {NoSource}), linked : BOOLEAN]
ReqType == [pc : Places, op : RuleOps \cup {"scan"}, rule : Rules \cup {Idle.rule},
            source : Sources \cup {NoSource}, scope : SCOPES, chosen : SUBSET Version,
            result : Results, hashed : Hashes, matches : SUBSET Version]
WorkerType == [state : Running \cup {"none", "exited"}, hashed : Hashes, result : Results,
               matches : SUBSET Version]
ScanType == [status : {"Completed", "Timed out", "Memory limit", "Failed"},
             versions : SUBSET Version, hashed : Hashes, matches : SUBSET Version]

Typed ==
  /\ rules \in [Rules -> RuleType]
  /\ intact \in BOOLEAN
  /\ req \in [Sessions -> ReqType]
  /\ worker \in [Sessions -> WorkerType]
  /\ scans \in Seq(ScanType)

\* A rule that exists has a version, one that does not has none.
RuleFits(r) ==
  /\ rules[r].exists => Len(rules[r].versions) >= 1
  /\ ~ rules[r].exists => rules[r].versions = <<>>

\* Versions that exist, at most one of each rule.
Chosen(c) == \A v, w \in c : /\ v[2] \in 1 .. Len(rules[v[1]].versions)
                             /\ v[1] = w[1] => v = w

Hit(c) == {v \in c : Source(v) \in Hits}

\* A result that counts as a scan of the versions c.
Answer(c, result, hashed, matches) ==
  result = "ok" =>
    /\ matches \subseteq c
    /\ hashed # "none"
    /\ intact /\ Cardinality(Hit(c)) <= MAX_MATCHING_RULES => matches = Hit(c)

\* What holds of a request and its worker.
Fits(s) ==
  LET q == req[s]
      w == worker[s] IN
  /\ q.op # "scan" => q.rule \in Rules
  /\ q.op \notin {"scan", "create"} => rules[q.rule].exists
  /\ q.pc \in {"check", "lock", "commit"} \/ q.source # NoSource => q.op # "scan"
  /\ q.pc = "record" => q.source = NoSource
  /\ q.pc \in {"launch", "watch", "record"} /\ q.source = NoSource => Chosen(q.chosen)
  /\ q.pc = "record" => Answer(q.chosen, q.result, q.hashed, q.matches)
  /\ w.state # "none" => q.pc = "watch"
  /\ w.state = "none" => w.hashed = "none"
  /\ w.hashed # "none" => q.source = NoSource
  /\ w.state = "exited" /\ q.source = NoSource => Answer(q.chosen, w.result, w.hashed, w.matches)

\* A recorded scan, as ScansTellTheTruth says it.
ScanTrue(c) ==
  /\ Chosen(c.versions)
  /\ c.matches \subseteq c.versions
  /\ c.status # "Completed" => c.matches = {}
  /\ c.status = "Completed" => c.hashed # "none"
  /\ c.status = "Completed" /\ intact /\ Cardinality(Hit(c.versions)) <= MAX_MATCHING_RULES
       => c.matches = Hit(c.versions)

IInv ==
  /\ Typed
  /\ \A r \in Rules : RuleFits(r)
  /\ \A s \in Sessions : Fits(s)
  /\ \A k \in 1 .. Len(scans) : ScanTrue(scans[k])

---------------------------------------------------------------------------
(* The library grows.                                                      *)

\* Rules keep their versions, and a damaged file is not repaired.
Grow ==
  /\ rules' \in [Rules -> RuleType]
  /\ \A r \in Rules :
       /\ RuleFits(r)'
       /\ rules[r].exists => rules'[r].exists
       /\ Len(rules[r].versions) <= Len(rules'[r].versions)
       /\ \A k \in 1 .. Len(rules[r].versions) : rules'[r].versions[k] = rules[r].versions[k]
  /\ intact' \in BOOLEAN
  /\ intact' => intact

LEMMA Lens ==
  ASSUME Typed, NEW r \in Rules
  PROVE  rules[r].versions \in Seq(Sources \cup {NoSource}) /\ Len(rules[r].versions) \in Nat
  <1>1. rules[r].versions \in Seq(Sources \cup {NoSource})
    BY DEF Typed, RuleType
  <1> QED BY <1>1, LenProperties

LEMMA ChosenStays ==
  ASSUME IInv, Grow, NEW c \in SUBSET Version, Chosen(c)
  PROVE  Chosen(c)' /\ Hit(c)' = Hit(c)
  <1>1. ASSUME NEW v \in c
        PROVE  /\ v[1] \in Rules /\ v[2] \in 1 .. Len(rules[v[1]].versions)
               /\ v[2] \in 1 .. Len(rules'[v[1]].versions)
               /\ rules'[v[1]].versions[v[2]] = rules[v[1]].versions[v[2]]
    <2>1. v[1] \in Rules /\ v[2] \in Nat
      BY DEF Version
    <2>2. v[2] \in 1 .. Len(rules[v[1]].versions)
      BY DEF Chosen
    <2>3. Len(rules[v[1]].versions) \in Nat
      BY <2>1, Lens DEF IInv
    <2>4. Len(rules'[v[1]].versions) \in Nat
      BY <2>1, LenProperties DEF Grow, RuleType
    <2> QED BY <2>1, <2>2, <2>3, <2>4 DEF Grow
  <1>2. Chosen(c)'
    BY <1>1 DEF Chosen
  <1>3. Hit(c)' = Hit(c)
    BY <1>1 DEF Hit, Source
  <1> QED BY <1>2, <1>3

LEMMA AnswerStays ==
  ASSUME IInv, Grow, NEW c \in SUBSET Version, Chosen(c), NEW result, NEW hashed, NEW m,
         Answer(c, result, hashed, m)
  PROVE  Answer(c, result, hashed, m)'
  <1>1. Hit(c)' = Hit(c)
    BY ChosenStays
  <1> QED BY <1>1 DEF Answer, Grow

\* A request that does nothing.
LEMMA FitsStays ==
  ASSUME IInv, Grow, NEW s \in Sessions, req'[s] = req[s], worker'[s] = worker[s]
  PROVE  Fits(s)'
  <1> DEFINE q == req[s]
             w == worker[s]
  <1>1. q \in ReqType /\ w \in WorkerType /\ Fits(s)
    BY DEF IInv, Typed
  <1>2. q.chosen \in SUBSET Version
    BY <1>1 DEF ReqType
  <1>3. q.pc \in {"launch", "watch", "record"} /\ q.source = NoSource => Chosen(q.chosen)'
    BY <1>1, <1>2, ChosenStays DEF Fits
  <1>4. q.pc = "record" => Answer(q.chosen, q.result, q.hashed, q.matches)'
    <2> SUFFICES ASSUME q.pc = "record" PROVE Answer(q.chosen, q.result, q.hashed, q.matches)'
      OBVIOUS
    <2>1. Chosen(q.chosen) /\ Answer(q.chosen, q.result, q.hashed, q.matches)
      BY <1>1 DEF Fits
    <2> QED BY <1>2, <2>1, AnswerStays
  <1>5. w.state = "exited" /\ q.source = NoSource => Answer(q.chosen, w.result, w.hashed, w.matches)'
    <2> SUFFICES ASSUME w.state = "exited", q.source = NoSource
                 PROVE  Answer(q.chosen, w.result, w.hashed, w.matches)'
      OBVIOUS
    <2>1. Chosen(q.chosen) /\ Answer(q.chosen, w.result, w.hashed, w.matches)
      BY <1>1 DEF Fits
    <2> QED BY <1>2, <2>1, AnswerStays
  <1>6. q.op \notin {"scan", "create"} => rules'[q.rule].exists
    BY <1>1 DEF Fits, Grow
  <1> QED BY <1>1, <1>3, <1>4, <1>5, <1>6 DEF Fits

LEMMA ScanStays ==
  ASSUME IInv, Grow, NEW c \in ScanType, ScanTrue(c)
  PROVE  ScanTrue(c)'
  <1>1. c.versions \in SUBSET Version
    BY DEF ScanType
  <1>2. Chosen(c.versions)
    BY DEF ScanTrue
  <1>3. Chosen(c.versions)' /\ Hit(c.versions)' = Hit(c.versions)
    BY <1>1, <1>2, ChosenStays
  <1> QED BY <1>3 DEF ScanTrue, Grow

LEMMA SameGrow ==
  ASSUME IInv, UNCHANGED <<rules, intact>>
  PROVE  Grow
  BY Lens DEF IInv, Typed, Grow, RuleFits

\* A step of one request that records nothing.
LEMMA StepOf ==
  ASSUME IInv, Grow, UNCHANGED scans, NEW s \in Sessions, Fits(s)',
         req' \in [Sessions -> ReqType], worker' \in [Sessions -> WorkerType],
         \A t \in Sessions \ {s} : req'[t] = req[t] /\ worker'[t] = worker[t]
  PROVE  IInv'
  <1>1. \A t \in Sessions : Fits(t)'
    BY FitsStays
  <1>2. ASSUME NEW k \in 1 .. Len(scans') PROVE ScanTrue(scans[k])'
    <2>1. scans[k] \in ScanType /\ ScanTrue(scans[k]) /\ scans'[k] = scans[k]
      BY ElementOfSeq DEF IInv, Typed
    <2> DEFINE c == scans[k]
    <2>2. c \in ScanType /\ ScanTrue(c)
      BY <2>1
    <2>3. scans'[k] = c
      BY <2>1
    <2> QED BY <2>2, <2>3, ScanStays DEF ScanTrue
  <1>3. Typed'
    BY DEF IInv, Typed, Grow
  <1> QED BY <1>1, <1>2, <1>3 DEF IInv, Grow

\* A step of the world: no request moves.
LEMMA WorldStep ==
  ASSUME IInv, Grow, UNCHANGED <<scans, req, worker>>
  PROVE  IInv'
  <1>1. \A t \in Sessions : Fits(t)'
    BY FitsStays
  <1>2. ASSUME NEW k \in 1 .. Len(scans') PROVE ScanTrue(scans[k])'
    <2>1. scans[k] \in ScanType /\ ScanTrue(scans[k]) /\ scans'[k] = scans[k]
      BY ElementOfSeq DEF IInv, Typed
    <2> DEFINE c == scans[k]
    <2>2. c \in ScanType /\ ScanTrue(c)
      BY <2>1
    <2>3. scans'[k] = c
      BY <2>1
    <2> QED BY <2>2, <2>3, ScanStays DEF ScanTrue
  <1>3. Typed'
    BY DEF IInv, Typed, Grow
  <1> QED BY <1>1, <1>2, <1>3 DEF IInv, Grow

---------------------------------------------------------------------------
(* Requests.                                                               *)

LEMMA IdleType ==
  /\ Idle \in ReqType /\ Idle.pc = "idle" /\ Idle.op = "scan" /\ Idle.source = NoSource
  BY DEF Idle, ReqType, Places, Results, Hashes, SCOPES

LEMMA NoWorkerType ==
  /\ NoWorker \in WorkerType /\ NoWorker.state = "none" /\ NoWorker.hashed = "none"
  BY DEF NoWorker, WorkerType, Results, Hashes

\* No worker unless the request watches one.
LEMMA NoWorkerYet ==
  ASSUME IInv, NEW s \in Sessions, req[s].pc # "watch"
  PROVE  worker[s].state = "none" /\ worker[s].hashed = "none"
  BY DEF IInv, Fits

LEMMA NewReq ==
  ASSUME IInv, NEW s \in Sessions, NEW q \in ReqType, req' = [req EXCEPT ![s] = q]
  PROVE  req' \in [Sessions -> ReqType] /\ req'[s] = q /\ \A t \in Sessions \ {s} : req'[t] = req[t]
  BY DEF IInv, Typed

\* A request that goes on without a worker, or ends.
LEMMA ReqStep ==
  ASSUME IInv, Grow, UNCHANGED <<scans, worker>>, NEW s \in Sessions, req[s].pc # "watch",
         req' \in [Sessions -> ReqType], \A t \in Sessions \ {s} : req'[t] = req[t],
         req'[s].op # "scan" => req'[s].rule \in Rules,
         req'[s].op \notin {"scan", "create"} => rules'[req'[s].rule].exists,
         req'[s].pc \in {"check", "lock", "commit"} \/ req'[s].source # NoSource => req'[s].op # "scan",
         req'[s].pc # "record" /\ req'[s].pc # "watch",
         req'[s].pc = "launch" /\ req'[s].source = NoSource => Chosen(req[s].chosen)'
  PROVE  IInv'
  <1>1. worker' \in [Sessions -> WorkerType]
    BY DEF IInv, Typed
  <1>2. worker'[s].state = "none" /\ worker'[s].hashed = "none"
    BY NoWorkerYet
  <1>3. Fits(s)'
    BY <1>2 DEF Fits
  <1> QED BY <1>1, <1>3, StepOf

LEMMA SubmitRuleStep ==
  ASSUME IInv, NEW s \in Sessions, NEW op \in RuleOps, NEW r \in Rules,
         NEW x \in Sources \cup {NoSource}, NEW scope \in SCOPES, SubmitRule(s, op, r, x, scope)
  PROVE  IInv'
  <1> DEFINE p == IF x = NoSource THEN "check" ELSE "launch"
             q == [Idle EXCEPT !.pc = p, !.op = op, !.rule = r, !.source = x, !.scope = scope]
  <1>1. p \in Places /\ p # "record" /\ p # "watch" /\ (p = "launch" => x # NoSource)
    BY DEF Places
  <1>2. req' = [req EXCEPT ![s] = q] /\ req[s].pc = "idle" /\ UNCHANGED <<rules, intact, scans, worker>>
    BY DEF SubmitRule, Start
  <1> HIDE DEF p
  <1>3. q \in ReqType /\ q.pc = p /\ q.rule = r /\ q.source = x /\ q.op = op
    BY <1>1, IdleType DEF ReqType
  <1>4. op # "scan"
    BY DEF RuleOps
  <1> HIDE DEF q
  <1>5. req' \in [Sessions -> ReqType] /\ req'[s] = q /\ \A t \in Sessions \ {s} : req'[t] = req[t]
    BY <1>2, <1>3, NewReq
  <1>6. Grow
    BY <1>2, SameGrow
  <1>7. op # "create" => rules'[r].exists
    BY <1>2 DEF SubmitRule
  <1> QED BY <1>1, <1>2, <1>3, <1>4, <1>5, <1>6, <1>7, ReqStep

LEMMA CheckRuleStep ==
  ASSUME IInv, NEW s \in Sessions, CheckRule(s)
  PROVE  IInv'
  <1> DEFINE q == [req[s] EXCEPT !.pc = "lock"]
  <1>1. req' = [req EXCEPT ![s] = q] /\ req[s].pc = "check" /\ UNCHANGED <<rules, intact, scans, worker>>
    BY DEF CheckRule, To
  <1>2. req[s] \in ReqType /\ req[s].op # "scan" /\ req[s].rule \in Rules
    BY <1>1 DEF IInv, Typed, Fits
  <1>3. q \in ReqType /\ q.pc = "lock" /\ q.op = req[s].op /\ q.rule = req[s].rule
    BY <1>2 DEF ReqType, Places
  <1> HIDE DEF q
  <1>4. req' \in [Sessions -> ReqType] /\ req'[s] = q /\ \A t \in Sessions \ {s} : req'[t] = req[t]
    BY <1>1, <1>3, NewReq
  <1>5. Grow
    BY <1>1, SameGrow
  <1>6. req[s].op \notin {"scan", "create"} => rules'[req[s].rule].exists
    BY <1>1 DEF IInv, Fits
  <1> QED BY <1>1, <1>2, <1>3, <1>4, <1>5, <1>6, ReqStep

LEMMA LockRuleStep ==
  ASSUME IInv, NEW s \in Sessions, LockRule(s)
  PROVE  IInv'
  <1> DEFINE c == {<<req[s].rule, Len(rules[req[s].rule].versions)>>}
             next == [req[s] EXCEPT !.pc = "commit"]
             q == [next EXCEPT !.chosen = c]
  <1>1. req' = [req EXCEPT ![s] = q] /\ req[s].pc = "lock" /\ UNCHANGED <<rules, intact, scans, worker>>
    BY DEF LockRule, IInv, Typed
  <1>2. req[s] \in ReqType /\ req[s].op # "scan" /\ req[s].rule \in Rules
    BY <1>1 DEF IInv, Typed, Fits
  <1>3. next \in ReqType /\ next.pc = "commit" /\ next.op = req[s].op /\ next.rule = req[s].rule
    BY <1>2 DEF ReqType, Places
  <1>4. c \in SUBSET Version
    BY <1>2, Lens DEF Version, IInv
  <1> HIDE DEF next, c
  <1>5. q \in ReqType /\ q.pc = "commit" /\ q.op = req[s].op /\ q.rule = req[s].rule
    BY <1>3, <1>4 DEF ReqType
  <1> HIDE DEF q
  <1>6. req' \in [Sessions -> ReqType] /\ req'[s] = q /\ \A t \in Sessions \ {s} : req'[t] = req[t]
    BY <1>1, <1>5, NewReq
  <1>7. Grow
    BY <1>1, SameGrow
  <1>8. req[s].op \notin {"scan", "create"} => rules'[req[s].rule].exists
    BY <1>1 DEF IInv, Fits
  <1> QED BY <1>1, <1>2, <1>5, <1>6, <1>7, <1>8, ReqStep

LEMMA StopStep ==
  ASSUME IInv, Grow, NEW s \in Sessions, Stop(s), req[s].pc # "watch", UNCHANGED <<scans, worker>>
  PROVE  IInv'
  <1>1. req' = [req EXCEPT ![s] = Idle]
    BY DEF Stop
  <1>2. req' \in [Sessions -> ReqType] /\ req'[s] = Idle /\ \A t \in Sessions \ {s} : req'[t] = req[t]
    BY <1>1, IdleType, NewReq
  <1> QED BY <1>2, IdleType, ReqStep

LEMMA AskScanStep ==
  ASSUME IInv, NEW s \in Sessions, AskScan(s)
  PROVE  IInv'
  <1> DEFINE q == [Idle EXCEPT !.pc = "rules"]
  <1>1. req' = [req EXCEPT ![s] = q] /\ req[s].pc = "idle" /\ UNCHANGED <<rules, intact, scans, worker>>
    BY DEF AskScan, Start
  <1>2. q \in ReqType /\ q.pc = "rules" /\ q.op = "scan" /\ q.source = NoSource
    BY IdleType DEF ReqType, Places
  <1> HIDE DEF q
  <1>3. req' \in [Sessions -> ReqType] /\ req'[s] = q /\ \A t \in Sessions \ {s} : req'[t] = req[t]
    BY <1>1, <1>2, NewReq
  <1>4. Grow
    BY <1>1, SameGrow
  <1> QED BY <1>1, <1>2, <1>3, <1>4, ReqStep

\* applicable_versions gives existing versions, one of each rule.
LEMMA ApplicableChosen ==
  ASSUME IInv
  PROVE  applicable_versions \in SUBSET Version /\ Chosen(applicable_versions)
  <1> SUFFICES ASSUME NEW v \in applicable_versions, NEW w \in applicable_versions
               PROVE  /\ v \in Version /\ v[2] \in 1 .. Len(rules[v[1]].versions)
                      /\ v[1] = w[1] => v = w
    BY DEF Chosen
  <1>1. PICK r \in Rules : v = <<r, Len(rules[r].versions)>> /\ rules[r].exists
    BY DEF applicable_versions
  <1>2. PICK x \in Rules : w = <<x, Len(rules[x].versions)>>
    BY DEF applicable_versions
  <1>3. Len(rules[r].versions) \in Nat /\ Len(rules[r].versions) >= 1
    BY <1>1, Lens DEF IInv, RuleFits
  <1> QED BY <1>1, <1>2, <1>3 DEF Version

LEMMA ReadRulesStep ==
  ASSUME IInv, NEW s \in Sessions, ReadRules(s)
  PROVE  IInv'
  <1> DEFINE c == applicable_versions
             next == [req[s] EXCEPT !.pc = "launch"]
             q == [next EXCEPT !.chosen = c]
  <1>1. req' = [req EXCEPT ![s] = q] /\ req[s].pc = "rules" /\ UNCHANGED <<rules, intact, scans, worker>>
    BY DEF ReadRules, IInv, Typed
  <1>2. /\ req[s] \in ReqType /\ (req[s].op # "scan" => req[s].rule \in Rules)
        /\ (req[s].source # NoSource => req[s].op # "scan")
    BY DEF IInv, Typed, Fits
  <1>3. /\ next \in ReqType /\ next.pc = "launch" /\ next.op = req[s].op /\ next.rule = req[s].rule
        /\ next.source = req[s].source
    BY <1>2 DEF ReqType, Places
  <1>4. c \in SUBSET Version /\ Chosen(c)
    BY ApplicableChosen
  <1> HIDE DEF next, c
  <1>5. /\ q \in ReqType /\ q.pc = "launch" /\ q.op = req[s].op /\ q.rule = req[s].rule
        /\ q.source = req[s].source /\ q.chosen = c
    BY <1>3, <1>4 DEF ReqType
  <1> HIDE DEF q
  <1>6. req' \in [Sessions -> ReqType] /\ req'[s] = q /\ \A t \in Sessions \ {s} : req'[t] = req[t]
    BY <1>1, <1>5, NewReq
  <1>7. Grow
    BY <1>1, SameGrow
  <1>8. Chosen(req[s].chosen)'
    BY <1>1, <1>4, <1>5, <1>6 DEF Chosen
  <1>9. req[s].op \notin {"scan", "create"} => rules'[req[s].rule].exists
    BY <1>1 DEF IInv, Fits
  <1> QED BY <1>1, <1>2, <1>5, <1>6, <1>7, <1>8, <1>9, ReqStep

---------------------------------------------------------------------------
(* The library.                                                            *)

\* A rule that gets another row, with the versions it had or more.
LEMMA RuleStep ==
  ASSUME IInv, NEW r \in Rules, rules' \in [Rules -> RuleType],
         \A x \in Rules \ {r} : rules'[x] = rules[x], UNCHANGED intact,
         RuleFits(r)', rules[r].exists => rules'[r].exists,
         Len(rules[r].versions) <= Len(rules'[r].versions),
         \A k \in 1 .. Len(rules[r].versions) : rules'[r].versions[k] = rules[r].versions[k]
  PROVE  Grow
  <1>1. ASSUME NEW x \in Rules
        PROVE  /\ RuleFits(x)'
               /\ rules[x].exists => rules'[x].exists
               /\ Len(rules[x].versions) <= Len(rules'[x].versions)
               /\ \A k \in 1 .. Len(rules[x].versions) : rules'[x].versions[k] = rules[x].versions[k]
    <2>1. CASE x = r
      BY <2>1
    <2>2. CASE x # r
      BY <2>2, Lens DEF IInv, RuleFits
    <2> QED BY <2>1, <2>2
  <1> QED BY <1>1 DEF Grow, IInv, Typed

\* The same where the versions stay.
LEMMA SameVersions ==
  ASSUME IInv, NEW r \in Rules, NEW new \in RuleType, rules' = [rules EXCEPT ![r] = new],
         UNCHANGED intact, rules[r].exists, new.exists, new.versions = rules[r].versions
  PROVE  Grow
  <1>1. rules' \in [Rules -> RuleType] /\ rules'[r] = new /\ \A x \in Rules \ {r} : rules'[x] = rules[x]
    BY DEF IInv, Typed
  <1>2. RuleFits(r)'
    BY <1>1 DEF IInv, RuleFits
  <1>3. Len(rules[r].versions) <= Len(rules'[r].versions)
    BY <1>1, Lens DEF IInv
  <1> QED BY <1>1, <1>2, <1>3, RuleStep

LEMMA CommitRuleStep ==
  ASSUME IInv, NEW s \in Sessions, CommitRule(s)
  PROVE  IInv'
  <1>1. req[s].pc = "commit" /\ Stop(s) /\ UNCHANGED <<scans, intact, worker>>
    BY DEF CommitRule
  <1>2. /\ req[s].rule \in Rules /\ req[s].source \in Sources \cup {NoSource}
        /\ req[s].scope \in SCOPES
    BY <1>1 DEF IInv, Typed, ReqType, Fits
  <1>3. PICK r \in Rules : r = req[s].rule
    BY <1>2
  <1>4. /\ rules[r] \in RuleType /\ RuleFits(r) /\ Len(rules[r].versions) \in Nat
        /\ rules[r].versions \in Seq(Sources \cup {NoSource})
    BY Lens DEF IInv, Typed
  <1>5. req[s].op \notin {"scan", "create"} => rules[r].exists
    BY <1>3 DEF IInv, Fits
  <1>6. CASE create_rule(s)
    <2>1. PICK new : new = [exists |-> TRUE, enabled |-> TRUE, scope |-> req[s].scope,
                            versions |-> <<req[s].source>>, linked |-> FALSE]
      OBVIOUS
    <2>2. ~ rules[r].exists /\ rules' = [rules EXCEPT ![r] = new]
      BY <1>3, <1>6, <2>1 DEF create_rule
    <2>3. rules[r].versions = <<>> /\ Len(rules[r].versions) = 0
      BY <1>4, <2>2 DEF RuleFits
    <2>4. new \in RuleType /\ new.exists /\ Len(new.versions) = 1
      BY <1>2, <2>1 DEF RuleType
    <2>5. rules' \in [Rules -> RuleType] /\ rules'[r] = new /\ \A x \in Rules \ {r} : rules'[x] = rules[x]
      BY <2>2, <2>4 DEF IInv, Typed
    <2>6. Len(rules'[r].versions) = 1 /\ rules'[r].exists
      BY <2>4, <2>5
    <2>7. RuleFits(r)'
      BY <2>6 DEF RuleFits
    <2>8. /\ Len(rules[r].versions) <= Len(rules'[r].versions)
          /\ \A k \in 1 .. Len(rules[r].versions) : rules'[r].versions[k] = rules[r].versions[k]
      BY <2>3, <2>6
    <2>9. Grow
      BY <1>1, <2>2, <2>5, <2>7, <2>8, RuleStep
    <2> QED BY <1>1, <2>9, StopStep
  <1>7. CASE new_version(s)
    <2>1. PICK grown : grown = Append(rules[r].versions, req[s].source)
      OBVIOUS
    <2>2. PICK new : new = [rules[r] EXCEPT !.versions = grown]
      OBVIOUS
    <2>3. rules' = [rules EXCEPT ![r] = new] /\ rules[r].exists
      BY <1>3, <1>4, <1>5, <1>7, <2>1, <2>2 DEF new_version
    <2>4. /\ grown \in Seq(Sources \cup {NoSource}) /\ Len(grown) = Len(rules[r].versions) + 1
          /\ \A k \in 1 .. Len(rules[r].versions) : grown[k] = rules[r].versions[k]
      BY <1>2, <1>4, <2>1, AppendProperties
    <2>5. new \in RuleType /\ new.versions = grown /\ new.exists = rules[r].exists
      BY <1>4, <2>2, <2>4 DEF RuleType
    <2>6. rules' \in [Rules -> RuleType] /\ rules'[r] = new /\ \A x \in Rules \ {r} : rules'[x] = rules[x]
      BY <2>3, <2>5 DEF IInv, Typed
    <2>7. rules'[r].versions = grown /\ rules'[r].exists
      BY <2>3, <2>5, <2>6
    <2>8. Len(grown) >= 1 /\ Len(rules[r].versions) <= Len(grown)
      BY <1>4, <2>4
    <2>9. RuleFits(r)'
      BY <2>7, <2>8 DEF RuleFits
    <2>10. Grow
      BY <1>1, <2>4, <2>6, <2>7, <2>8, <2>9, RuleStep
    <2> QED BY <1>1, <2>10, StopStep
  <1>8. CASE set_enabled(s)
    <2>1. PICK new : new = [rules[r] EXCEPT !.enabled = req[s].op = "enable"]
      OBVIOUS
    <2>2. rules' = [rules EXCEPT ![r] = new] /\ rules[r].exists
      BY <1>3, <1>5, <1>8, <2>1 DEF set_enabled
    <2>3. new \in RuleType /\ new.versions = rules[r].versions /\ new.exists = rules[r].exists
      BY <1>4, <2>1 DEF RuleType
    <2>4. Grow
      BY <1>1, <2>2, <2>3, SameVersions
    <2> QED BY <1>1, <2>4, StopStep
  <1>9. CASE set_scope(s)
    <2>1. PICK new : new = [rules[r] EXCEPT !.scope = req[s].scope]
      OBVIOUS
    <2>2. rules' = [rules EXCEPT ![r] = new] /\ rules[r].exists
      BY <1>3, <1>5, <1>9, <2>1 DEF set_scope
    <2>3. new \in RuleType /\ new.versions = rules[r].versions /\ new.exists = rules[r].exists
      BY <1>2, <1>4, <2>1 DEF RuleType
    <2>4. Grow
      BY <1>1, <2>2, <2>3, SameVersions
    <2> QED BY <1>1, <2>4, StopStep
  <1>10. CASE set_case(s)
    <2>1. PICK new : new = [rules[r] EXCEPT !.linked = req[s].op = "link"]
      OBVIOUS
    <2>2. rules' = [rules EXCEPT ![r] = new] /\ rules[r].exists
      BY <1>3, <1>5, <1>10, <2>1 DEF set_case
    <2>3. new \in RuleType /\ new.versions = rules[r].versions /\ new.exists = rules[r].exists
      BY <1>4, <2>1 DEF RuleType
    <2>4. Grow
      BY <1>1, <2>2, <2>3, SameVersions
    <2> QED BY <1>1, <2>4, StopStep
  <1> QED BY <1>6, <1>7, <1>8, <1>9, <1>10 DEF CommitRule

LEMMA GiveUpStep ==
  ASSUME IInv, NEW s \in Sessions, GiveUp(s)
  PROVE  IInv'
  <1>1. req[s].pc # "watch" /\ Stop(s) /\ UNCHANGED <<rules, intact, scans, worker>>
    BY DEF GiveUp
  <1>2. Grow
    BY <1>1, SameGrow
  <1> QED BY <1>1, <1>2, StopStep

---------------------------------------------------------------------------
(* Scans and workers.                                                      *)

LEMMA StatusIsOk ==
  ASSUME NEW result \in Results
  PROVE  /\ StatusFor(result) \in {"Completed", "Timed out", "Memory limit", "Failed"}
         /\ StatusFor(result) = "Completed" <=> result = "ok"
  <1>1. CASE result = "ok"
    BY <1>1 DEF StatusFor
  <1>2. CASE result = "timeout"
    BY <1>2 DEF StatusFor
  <1>3. CASE result = "memory"
    BY <1>3 DEF StatusFor
  <1>4. CASE result \notin {"ok", "timeout", "memory"}
    BY <1>4 DEF StatusFor
  <1> QED BY <1>1, <1>2, <1>3, <1>4

LEMMA RecordScanStep ==
  ASSUME IInv, NEW s \in Sessions, RecordScan(s)
  PROVE  IInv'
  <1>1. /\ req[s].pc = "record" /\ Stop(s) /\ UNCHANGED <<rules, intact, worker>>
        /\ scans' = Append(scans, Scan(req[s], req[s].chosen))
    BY DEF RecordScan
  <1>2. PICK q \in ReqType : q = req[s]
    BY DEF IInv, Typed
  <1>3. PICK c : c = Scan(q, q.chosen)
    OBVIOUS
  <1>4. /\ q.chosen \in SUBSET Version /\ q.matches \in SUBSET Version
        /\ q.result \in Results /\ q.hashed \in Hashes
    BY DEF ReqType
  <1>5. Chosen(q.chosen) /\ Answer(q.chosen, q.result, q.hashed, q.matches)
    BY <1>1, <1>2 DEF IInv, Fits
  <1>6. /\ c.status = StatusFor(q.result) /\ c.versions = q.chosen /\ c.hashed = q.hashed
        /\ c.matches = IF q.result = "ok" THEN q.matches ELSE {}
    BY <1>3 DEF Scan
  <1>7. c \in ScanType
    BY <1>3, <1>4, StatusIsOk DEF ScanType, Scan
  <1>8. ScanTrue(c)
    BY <1>4, <1>5, <1>6, StatusIsOk DEF ScanTrue, Answer
  <1>9. Grow
    BY <1>1, SameGrow
  <1>10. /\ scans' \in Seq(ScanType) /\ Len(scans') = Len(scans) + 1
         /\ \A k \in 1 .. Len(scans) : scans'[k] = scans[k]
         /\ scans'[Len(scans) + 1] = c
    BY <1>1, <1>2, <1>3, <1>7, AppendProperties DEF IInv, Typed
  <1>11. Len(scans) \in Nat
    BY LenProperties DEF IInv, Typed
  <1>12. ASSUME NEW k \in 1 .. Len(scans') PROVE ScanTrue(scans[k])'
    <2>1. PICK d : d = scans'[k]
      OBVIOUS
    <2>2. d \in ScanType /\ ScanTrue(d)
      <3>1. CASE k = Len(scans) + 1
        BY <1>7, <1>8, <1>10, <2>1, <3>1
      <3>2. CASE k # Len(scans) + 1
        <4>1. k \in 1 .. Len(scans)
          BY <1>10, <1>11, <3>2
        <4> QED BY <1>10, <2>1, <4>1, ElementOfSeq DEF IInv, Typed
      <3> QED BY <3>1, <3>2
    <2>3. ScanTrue(d)'
      BY <1>9, <2>2, ScanStays
    <2> QED BY <2>1, <2>3 DEF ScanTrue
  <1>13. req' \in [Sessions -> ReqType] /\ req'[s] = Idle /\ \A t \in Sessions \ {s} : req'[t] = req[t]
    BY <1>1, IdleType, NewReq DEF Stop
  <1>14. worker'[s].state = "none" /\ worker'[s].hashed = "none"
    BY <1>1, NoWorkerYet
  <1>15. Fits(s)'
    BY <1>13, <1>14, IdleType DEF Fits
  <1>16. \A t \in Sessions : Fits(t)'
    BY <1>1, <1>9, <1>13, <1>15, FitsStays
  <1>17. Typed'
    BY <1>1, <1>9, <1>10, <1>13 DEF IInv, Typed, Grow
  <1> QED BY <1>9, <1>12, <1>16, <1>17 DEF IInv, Grow

LEMMA LaunchStep ==
  ASSUME IInv, NEW s \in Sessions, Launch(s)
  PROVE  IInv'
  <1>1. /\ req[s].pc = "launch" /\ UNCHANGED <<rules, intact, scans>>
        /\ req' = [req EXCEPT ![s] = [req[s] EXCEPT !.pc = "watch"]]
        /\ worker' = [worker EXCEPT ![s] = [NoWorker EXCEPT !.state = "alive"]]
    BY DEF Launch, To
  <1>2. PICK q : q = [req[s] EXCEPT !.pc = "watch"]
    OBVIOUS
  <1>3. PICK w : w = [NoWorker EXCEPT !.state = "alive"]
    OBVIOUS
  <1>4. /\ q \in ReqType /\ q.pc = "watch" /\ q.op = req[s].op /\ q.rule = req[s].rule
        /\ q.source = req[s].source /\ q.chosen = req[s].chosen
    BY <1>2 DEF IInv, Typed, ReqType, Places
  <1>5. w \in WorkerType /\ w.state = "alive" /\ w.hashed = "none"
    BY <1>3, NoWorkerType DEF WorkerType, Running
  <1>6. req' \in [Sessions -> ReqType] /\ req'[s] = q /\ \A t \in Sessions \ {s} : req'[t] = req[t]
    BY <1>1, <1>2, <1>4, NewReq
  <1>7. /\ worker' \in [Sessions -> WorkerType] /\ worker'[s] = w
        /\ \A t \in Sessions \ {s} : worker'[t] = worker[t]
    BY <1>1, <1>3, <1>5 DEF IInv, Typed
  <1>8. Grow
    BY <1>1, SameGrow
  <1>9. q.source = NoSource => Chosen(q.chosen)'
    BY <1>1, <1>4 DEF IInv, Fits, Chosen
  <1>10. /\ q.op # "scan" => q.rule \in Rules
         /\ q.op \notin {"scan", "create"} => rules'[q.rule].exists
         /\ q.source # NoSource => q.op # "scan"
    BY <1>1, <1>4 DEF IInv, Fits
  <1>11. Fits(s)'
    BY <1>4, <1>5, <1>6, <1>7, <1>9, <1>10 DEF Fits
  <1> QED BY <1>1, <1>6, <1>7, <1>8, <1>11, StepOf

\* A step of a worker that the request still watches.
LEMMA WorkerStep ==
  ASSUME IInv, NEW s \in Sessions, NEW w \in WorkerType, worker' = [worker EXCEPT ![s] = w],
         UNCHANGED <<rules, intact, scans, req>>,
         worker[s].state # "none", w.state # "none", w.hashed # "none" => req[s].source = NoSource,
         w.state = "exited" /\ req[s].source = NoSource
           => Answer(req[s].chosen, w.result, w.hashed, w.matches)
  PROVE  IInv'
  <1>1. /\ worker' \in [Sessions -> WorkerType] /\ worker'[s] = w
        /\ \A t \in Sessions \ {s} : worker'[t] = worker[t]
    BY DEF IInv, Typed
  <1>2. Grow
    BY SameGrow
  <1>3. Fits(s) /\ req[s].pc = "watch" /\ req' \in [Sessions -> ReqType]
    BY DEF IInv, Fits, Typed
  <1>4. req[s].source = NoSource => Chosen(req[s].chosen)'
    BY <1>3 DEF Fits, Chosen
  <1>5. w.state = "exited" /\ req[s].source = NoSource
           => Answer(req[s].chosen, worker[s].result, worker[s].hashed, worker[s].matches)'
    BY <1>1 DEF Answer, Hit, Source
  <1>6. Fits(s)'
    BY <1>1, <1>3, <1>4, <1>5 DEF Fits
  <1> QED BY <1>1, <1>2, <1>3, <1>6, StepOf

\* The fields of a worker that ends.
LEMMA ExitFields ==
  ASSUME IInv, NEW s \in Sessions, NEW result \in Results, NEW m \in SUBSET Version,
         Exit(s, result, m)
  PROVE  \E w \in WorkerType : /\ worker' = [worker EXCEPT ![s] = w] /\ w.state = "exited"
                               /\ w.result = result /\ w.matches = m /\ w.hashed = worker[s].hashed
  <1>1. PICK a : a = [worker[s] EXCEPT !.state = "exited"]
    OBVIOUS
  <1>2. a \in WorkerType /\ a.state = "exited" /\ a.hashed = worker[s].hashed
    BY <1>1 DEF IInv, Typed, WorkerType
  <1>3. PICK b : b = [a EXCEPT !.result = result]
    OBVIOUS
  <1>4. b \in WorkerType /\ b.state = "exited" /\ b.hashed = worker[s].hashed /\ b.result = result
    BY <1>2, <1>3 DEF WorkerType
  <1>5. PICK w : w = [b EXCEPT !.matches = m]
    OBVIOUS
  <1>6. /\ w \in WorkerType /\ w.state = "exited" /\ w.hashed = worker[s].hashed
        /\ w.result = result /\ w.matches = m
    BY <1>4, <1>5 DEF WorkerType
  <1>7. worker' = [worker EXCEPT ![s] = w]
    BY <1>1, <1>3, <1>5 DEF Exit, IInv, Typed
  <1> QED BY <1>6, <1>7

LEMMA RunningStates ==
  ASSUME NEW x \in Running
  PROVE  x # "none" /\ x # "exited"
  BY DEF Running

LEMMA WorkerCompilesStep ==
  ASSUME IInv, NEW s \in Sessions, WorkerCompiles(s)
  PROVE  IInv'
  <1>1. PICK result \in {"ok", "failed"} : Exit(s, result, {})
    BY DEF WorkerCompiles
  <1>2. result \in Results
    BY DEF Results, Failures
  <1>3. PICK w \in WorkerType : /\ worker' = [worker EXCEPT ![s] = w] /\ w.state = "exited"
                                /\ w.hashed = worker[s].hashed
    BY <1>1, <1>2, ExitFields
  <1>4. /\ UNCHANGED <<rules, intact, scans, req>> /\ worker[s].state # "none"
        /\ req[s].source # NoSource
    BY RunningStates DEF WorkerCompiles
  <1>5. worker[s].hashed = "none"
    BY <1>4 DEF IInv, Fits
  <1> QED BY <1>3, <1>4, <1>5, WorkerStep

LEMMA WorkerHashesStep ==
  ASSUME IInv, NEW s \in Sessions, WorkerHashes(s)
  PROVE  IInv'
  <1>1. PICK w : w = [worker[s] EXCEPT !.hashed = File]
    OBVIOUS
  <1>2. /\ UNCHANGED <<rules, intact, scans, req>> /\ worker[s].state \in Running
        /\ req[s].source = NoSource /\ worker' = [worker EXCEPT ![s] = w]
    BY <1>1 DEF WorkerHashes
  <1>3. File \in Hashes
    BY DEF File, Hashes
  <1>4. w \in WorkerType /\ w.state = worker[s].state
    BY <1>1, <1>3 DEF IInv, Typed, WorkerType
  <1> QED BY <1>2, <1>4, RunningStates, WorkerStep

LEMMA WorkerScansStep ==
  ASSUME IInv, NEW s \in Sessions, WorkerScans(s)
  PROVE  IInv'
  <1>1. /\ UNCHANGED <<rules, intact, scans, req>> /\ worker[s].state # "none"
        /\ worker[s].hashed # "none"
    BY RunningStates DEF WorkerScans
  <1>2. PICK found, told :
          /\ found \in IF intact THEN {Matching(s)} ELSE SUBSET req[s].chosen
          /\ told \in SUBSET found
          /\ IF Cardinality(found) <= MAX_MATCHING_RULES THEN told = found
             ELSE Cardinality(told) = MAX_MATCHING_RULES
          /\ Exit(s, "ok", told)
    BY DEF WorkerScans
  <1>3. req[s].chosen \in SUBSET Version /\ req[s].source = NoSource
    BY <1>1 DEF IInv, Typed, ReqType, Fits
  <1>4. Matching(s) = Hit(req[s].chosen) /\ Hit(req[s].chosen) \subseteq req[s].chosen
    BY DEF Matching, Hit
  <1>5. told \subseteq req[s].chosen /\ (intact => found = Hit(req[s].chosen))
    BY <1>2, <1>4
  <1>6. told \in SUBSET Version /\ "ok" \in Results
    BY <1>3, <1>5 DEF Results
  <1>7. PICK w \in WorkerType : /\ worker' = [worker EXCEPT ![s] = w] /\ w.state = "exited"
                                /\ w.result = "ok" /\ w.matches = told /\ w.hashed = worker[s].hashed
    BY <1>2, <1>6, ExitFields
  <1>8. Answer(req[s].chosen, w.result, w.hashed, w.matches)
    BY <1>1, <1>2, <1>5, <1>7 DEF Answer
  <1> QED BY <1>1, <1>3, <1>7, <1>8, WorkerStep

LEMMA WorkerFailsStep ==
  ASSUME IInv, NEW s \in Sessions, NEW why \in Failures, WorkerFails(s, why)
  PROVE  IInv'
  <1>1. /\ UNCHANGED <<rules, intact, scans, req>> /\ worker[s].state # "none"
        /\ Exit(s, why, {})
    BY RunningStates DEF WorkerFails
  <1>2. why \in Results /\ why # "ok"
    BY DEF Results, Failures
  <1>3. PICK w \in WorkerType : /\ worker' = [worker EXCEPT ![s] = w] /\ w.state = "exited"
                                /\ w.result = why /\ w.hashed = worker[s].hashed
    BY <1>1, <1>2, ExitFields
  <1>4. w.hashed # "none" => req[s].source = NoSource
    BY <1>3 DEF IInv, Fits
  <1>5. Answer(req[s].chosen, w.result, w.hashed, w.matches)
    BY <1>2, <1>3 DEF Answer
  <1> QED BY <1>1, <1>3, <1>4, <1>5, WorkerStep

\* WorkerGrows and Deadline: the worker runs on.
LEMMA WorkerRunsOn ==
  ASSUME IInv, NEW s \in Sessions, NEW state \in {"big", "late"}, worker[s].state # "none",
         worker' = [worker EXCEPT ![s].state = state], UNCHANGED <<rules, intact, scans, req>>
  PROVE  IInv'
  <1>1. PICK w : w = [worker[s] EXCEPT !.state = state]
    OBVIOUS
  <1>2. w \in WorkerType /\ w.state = state /\ w.hashed = worker[s].hashed
    BY <1>1 DEF IInv, Typed, WorkerType, Running
  <1>3. w.hashed # "none" => req[s].source = NoSource
    BY <1>2 DEF IInv, Fits
  <1> QED BY <1>1, <1>2, <1>3, WorkerStep

LEMMA OutcomeIs ==
  ASSUME NEW w \in WorkerType
  PROVE  /\ Outcome(w) \in Results \cup {"wait"}
         /\ Outcome(w) = "ok" => w.state = "exited" /\ w.result = "ok"
  <1>1. w.state \in {"none", "exited", "alive", "big", "late"} /\ w.result \in Results
    BY DEF WorkerType, Running
  <1>2. CASE w.state = "exited"
    BY <1>1, <1>2 DEF Outcome
  <1>3. CASE w.state = "late"
    BY <1>3 DEF Outcome, Results, Failures
  <1>4. CASE w.state = "big"
    BY <1>4 DEF Outcome, Results, Failures
  <1>5. CASE w.state \notin {"exited", "late", "big"}
    BY <1>5 DEF Outcome
  <1> QED BY <1>2, <1>3, <1>4, <1>5

LEMMA PollStep ==
  ASSUME IInv, NEW s \in Sessions, Poll(s)
  PROVE  IInv'
  <1>1. PICK w \in WorkerType : w = worker[s]
    BY DEF IInv, Typed
  <1>2. PICK why : why = Outcome(w)
    OBVIOUS
  <1>3. PICK old \in ReqType : old = req[s]
    BY DEF IInv, Typed
  <1>4. PICK q : q = IF why = "unavailable" \/ (old.source # NoSource /\ why # "ok") THEN Idle
                     ELSE IF old.source # NoSource THEN [old EXCEPT !.pc = "check"]
                     ELSE [old EXCEPT !.pc = "record", !.result = why, !.matches = w.matches,
                              !.hashed = IF w.state = "exited" THEN w.hashed ELSE "none"]
    OBVIOUS
  <1>5. /\ old.pc = "watch" /\ why # "wait" /\ UNCHANGED <<rules, intact, scans>>
        /\ worker' = [worker EXCEPT ![s] = NoWorker]
    BY <1>1, <1>2, <1>3 DEF Poll
  <1>6. req' = [req EXCEPT ![s] = q]
    BY <1>1, <1>2, <1>3, <1>4 DEF Poll
  <1>7. why \in Results /\ (why = "ok" => w.state = "exited" /\ w.result = "ok")
    BY <1>2, <1>5, OutcomeIs
  <1>8. /\ worker' \in [Sessions -> WorkerType] /\ worker'[s] = NoWorker
        /\ \A t \in Sessions \ {s} : worker'[t] = worker[t]
    BY <1>5, NoWorkerType DEF IInv, Typed
  <1>9. Grow
    BY <1>5, SameGrow
  <1>10. /\ old.op # "scan" => old.rule \in Rules
         /\ old.op \notin {"scan", "create"} => rules'[old.rule].exists
         /\ old.source # NoSource => old.op # "scan"
         /\ old.source = NoSource => Chosen(old.chosen)
         /\ w.state = "exited" /\ old.source = NoSource
              => Answer(old.chosen, w.result, w.hashed, w.matches)
    BY <1>1, <1>3, <1>5 DEF IInv, Fits
  <1>11. ASSUME q \in ReqType, Fits(s)' PROVE IInv'
    <2>1. req' \in [Sessions -> ReqType] /\ \A t \in Sessions \ {s} : req'[t] = req[t]
      BY <1>6, <1>11, NewReq
    <2> QED BY <1>5, <1>8, <1>9, <1>11, <2>1, StepOf
  <1>12. ASSUME q \in ReqType PROVE req'[s] = q
    BY <1>6, <1>12, NewReq
  <1>13. CASE q = Idle
    <2>1. q \in ReqType /\ req'[s] = q
      BY <1>12, <1>13, IdleType
    <2>2. Fits(s)'
      BY <1>8, <1>13, <2>1, IdleType, NoWorkerType DEF Fits
    <2> QED BY <1>11, <2>1, <2>2
  <1>14. CASE old.source # NoSource /\ q = [old EXCEPT !.pc = "check"]
    <2>1. /\ q \in ReqType /\ q.pc = "check" /\ q.op = old.op /\ q.rule = old.rule
          /\ q.source = old.source
      BY <1>14 DEF ReqType, Places
    <2>2. req'[s] = q
      BY <1>12, <2>1
    <2>3. Fits(s)'
      BY <1>8, <1>10, <1>14, <2>1, <2>2, NoWorkerType DEF Fits
    <2> QED BY <1>11, <2>1, <2>3
  <1>15. CASE /\ old.source = NoSource
              /\ q = [old EXCEPT !.pc = "record", !.result = why, !.matches = w.matches,
                              !.hashed = IF w.state = "exited" THEN w.hashed ELSE "none"]
    <2>1. PICK hash : hash = IF w.state = "exited" THEN w.hashed ELSE "none"
      OBVIOUS
    <2>2. hash \in Hashes /\ w.matches \in SUBSET Version
      BY <2>1 DEF WorkerType, Hashes
    <2>3. q = [old EXCEPT !.pc = "record", !.result = why, !.matches = w.matches, !.hashed = hash]
      BY <1>15, <2>1
    <2>4. /\ q \in ReqType /\ q.pc = "record" /\ q.op = old.op /\ q.rule = old.rule
          /\ q.source = old.source /\ q.chosen = old.chosen
          /\ q.result = why /\ q.matches = w.matches /\ q.hashed = hash
      BY <1>7, <2>2, <2>3 DEF ReqType, Places
    <2>5. req'[s] = q
      BY <1>12, <2>4
    <2>6. Answer(q.chosen, q.result, q.hashed, q.matches) /\ Chosen(q.chosen)
      BY <1>7, <1>10, <1>15, <2>1, <2>4 DEF Answer
    <2>7. Answer(q.chosen, q.result, q.hashed, q.matches)' /\ Chosen(q.chosen)'
      BY <1>5, <2>6 DEF Answer, Chosen, Hit, Source
    <2>8. Fits(s)'
      BY <1>8, <1>10, <1>15, <2>4, <2>5, <2>7, NoWorkerType DEF Fits
    <2> QED BY <1>11, <2>4, <2>8
  <1> QED BY <1>4, <1>13, <1>14, <1>15

---------------------------------------------------------------------------
(* The theorem.                                                            *)

LEMMA InitIInv ==
  ASSUME Init
  PROVE  IInv
  <1>1. PICK x \in Compiles :
          rules = [r \in Rules |-> IF r \in Library
                                   THEN [NoRule EXCEPT !.exists = TRUE, !.enabled = TRUE,
                                                       !.versions = <<x>>]
                                   ELSE NoRule]
    BY DEF Init
  <1>2. PICK new : new = [NoRule EXCEPT !.exists = TRUE, !.enabled = TRUE, !.versions = <<x>>]
    OBVIOUS
  <1>3. NoRule \in RuleType /\ ~ NoRule.exists /\ NoRule.versions = <<>>
    BY DEF NoRule, RuleType, SCOPES
  <1>4. new = [exists |-> TRUE, enabled |-> TRUE, scope |-> "All cases",
               versions |-> <<x>>, linked |-> FALSE]
    BY <1>2 DEF NoRule
  <1>5. new \in RuleType /\ new.exists /\ Len(new.versions) = 1
    <2>1. <<x>> \in Seq(Sources \cup {NoSource}) /\ Len(<<x>>) = 1
      BY YaraAssumption
    <2> QED BY <1>4, <2>1 DEF RuleType, SCOPES
  <1>6. ASSUME NEW r \in Rules PROVE rules[r] = new \/ rules[r] = NoRule
    BY <1>1, <1>2
  <1>7. rules \in [Rules -> RuleType]
    BY <1>1, <1>2, <1>3, <1>5
  <1>8. ASSUME NEW r \in Rules PROVE RuleFits(r)
    BY <1>3, <1>5, <1>6 DEF RuleFits
  <1>9. Typed
    BY <1>7, IdleType, NoWorkerType DEF Init, Typed
  <1>10. ASSUME NEW s \in Sessions PROVE Fits(s)
    BY IdleType, NoWorkerType DEF Init, Fits
  <1>11. ASSUME NEW k \in 1 .. Len(scans) PROVE ScanTrue(scans[k])
    BY DEF Init
  <1> QED BY <1>8, <1>9, <1>10, <1>11 DEF IInv

LEMMA StutterIInv ==
  ASSUME IInv, UNCHANGED vars
  PROVE  IInv'
  <1>1. UNCHANGED <<rules, intact, scans, req, worker>>
    BY DEF vars
  <1> QED BY <1>1, SameGrow, WorldStep

LEMMA NextIInv ==
  ASSUME IInv, Next
  PROVE  IInv'
  <1>1. ASSUME NEW s \in Sessions, NEW r \in Rules, NEW op \in RuleOps,
               NEW x \in Sources \cup {NoSource}, NEW scope \in SCOPES,
               SubmitRule(s, op, r, x, scope)
        PROVE  IInv'
    BY <1>1, SubmitRuleStep
  <1>2. ASSUME NEW s \in Sessions, ServerStep(s)
        PROVE  IInv'
    BY <1>2, CheckRuleStep, LockRuleStep, CommitRuleStep, ReadRulesStep, RecordScanStep,
       LaunchStep, PollStep, GiveUpStep DEF ServerStep
  <1>3. ASSUME NEW s \in Sessions, WorkerGrows(s) \/ Deadline(s)
        PROVE  IInv'
    BY <1>3, WorkerRunsOn DEF WorkerGrows, Deadline
  <1>4. ASSUME CloseCase \/ Damage
        PROVE  IInv'
    <2>1. Grow /\ UNCHANGED <<scans, req, worker>>
      <3>1. CASE CloseCase
        BY <3>1, SameGrow DEF CloseCase
      <3>2. CASE Damage
        <4>1. UNCHANGED <<rules, scans, req, worker>> /\ intact /\ intact' = FALSE
          BY <3>2 DEF Damage
        <4>2. \A r \in Rules : RuleFits(r)' /\ Len(rules[r].versions) \in Nat
          BY <4>1, Lens DEF IInv, RuleFits
        <4>3. rules' \in [Rules -> RuleType]
          BY <4>1 DEF IInv, Typed
        <4>4. ASSUME NEW r \in Rules
              PROVE  /\ rules[r].exists => rules'[r].exists
                     /\ Len(rules[r].versions) <= Len(rules'[r].versions)
                     /\ \A k \in 1 .. Len(rules[r].versions) :
                          rules'[r].versions[k] = rules[r].versions[k]
          BY <4>1, <4>2
        <4>5. intact' \in BOOLEAN /\ (intact' => intact)
          BY <4>1
        <4> QED BY <4>1, <4>2, <4>3, <4>4, <4>5, Zenon DEF Grow
      <3> QED BY <1>4, <3>1, <3>2
    <2> QED BY <2>1, WorldStep
  <1>5. SCOPES # {} /\ "All cases" \in SCOPES
        /\ {"create", "version", "scope"} \cup {"enable", "disable", "link", "unlink"} \subseteq RuleOps
    BY DEF SCOPES, RuleOps
  <1>6. ASSUME NEW s \in Sessions,
               \/ \E r \in Rules, x \in Sources, scope \in SCOPES :
                    SubmitRule(s, "create", r, x, scope)
               \/ \E r \in Rules, x \in Sources : SubmitRule(s, "version", r, x, "All cases")
               \/ \E r \in Rules, op \in {"enable", "disable", "link", "unlink"} :
                    SubmitRule(s, op, r, NoSource, "All cases")
               \/ \E r \in Rules, scope \in SCOPES : SubmitRule(s, "scope", r, NoSource, scope)
        PROVE  IInv'
    BY <1>1, <1>5, <1>6
  <1> QED BY <1>2, <1>3, <1>4, <1>6, AskScanStep, WorkerCompilesStep, WorkerHashesStep,
            WorkerScansStep, WorkerFailsStep DEF Next

\* A recorded scan says what happened (run_scan): the versions it names
\* exist, a completed one has a hash and, when the file was intact
\* throughout, exactly the matches of those versions up to the worker's
\* limit; for any library, sources, limits and number of sessions.
THEOREM RecordedScansAreTrue == Spec => []ScansTellTheTruth
  <1>1. Init => IInv
    BY InitIInv
  <1>2. IInv /\ [Next]_vars => IInv'
    BY NextIInv, StutterIInv
  <1>3. IInv => ScansTellTheTruth
    <2> SUFFICES ASSUME IInv, NEW k \in DOMAIN scans, NEW c, c = scans[k]
                 PROVE  /\ \A v, w \in c.versions :
                             v[2] <= Len(rules[v[1]].versions) /\ (v[1] = w[1] => v = w)
                        /\ c.matches \subseteq c.versions
                        /\ c.status # "Completed" => c.matches = {}
                        /\ c.status = "Completed" => c.hashed # "none"
                        /\ /\ c.status = "Completed" /\ intact
                           /\ Cardinality({v \in c.versions : Source(v) \in Hits})
                                <= MAX_MATCHING_RULES
                           => c.matches = {v \in c.versions : Source(v) \in Hits}
      BY DEF ScansTellTheTruth
    <2>1. k \in 1 .. Len(scans) /\ c \in ScanType
      BY ElementOfSeq, LenProperties DEF IInv, Typed
    <2>2. ScanTrue(c)
      BY <2>1 DEF IInv
    <2>3. ASSUME NEW v \in c.versions, NEW w \in c.versions
          PROVE  v[2] <= Len(rules[v[1]].versions) /\ (v[1] = w[1] => v = w)
      <3>1. v \in Version /\ v[1] \in Rules
        BY <2>1 DEF ScanType, Version
      <3>2. Len(rules[v[1]].versions) \in Nat
        BY <3>1, Lens DEF IInv
      <3> QED BY <2>2, <3>2 DEF ScanTrue, Chosen
    <2> QED BY <2>2, <2>3 DEF ScanTrue, Hit
  <1> QED BY <1>1, <1>2, <1>3, PTL DEF Spec

=============================================================================
