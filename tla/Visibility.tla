----------------------------- MODULE Visibility -----------------------------
(***************************************************************************)
(* What a page, an API answer or a graph shows to whom: the case scope of  *)
(* app/access.py and every read behind it (cases, evidence, custody,       *)
(* examinations, reports, search, dashboards, analytics, the REST API and  *)
(* the relationship graph).                                                *)
(*                                                                         *)
(* A page is a sequence of SQL statements, each a step of its own: the     *)
(* application reads with autocommit, so assignments, records and links    *)
(* may change between two statements of one page.  A statement restricted  *)
(* by Scope.case_filter looks at the assignments of its own moment; one    *)
(* that goes by an id found earlier looks at none.                         *)
(*                                                                         *)
(* Entries that belong to one record (custody entries, hashes, checks,     *)
(* notes, versions, scans) stand for that record.  Filters and LIMITs only *)
(* narrow a list, so the widest list is modelled; of the people in the     *)
(* choices of a filter, all of them.  The people named inside a record (an *)
(* author, a custodian) are part of the record.  A person's roles are      *)
(* constant: a request keeps the ones it has loaded at its beginning.      *)
(* One request reads at a time, since reads do not disturb each other.     *)
(***************************************************************************)
EXTENDS Naturals, Sequences, FiniteSets

CONSTANTS
  Users, RolesOf,            \* people and their roles
  Cases, Items,              \* cases, and the records inside them
  KindOf, CaseOf,            \* of each item
  Hashes, NoHash, HashOf,    \* the SHA-256 of an evidence item or artifact
  Rules,                     \* YARA rules
  FirstThere, FirstLinks, FirstAssigned, FirstHits,   \* the laboratory at the start
  Pages,                     \* the pages of this instance
  MAX_NODES,
  MaxChanges                 \* bound on the changes of a behaviour

ItemKinds == {"evidence", "exam", "report", "artifact"}
Records   == Cases \cup Items
Things    == Records \cup Users \cup Hashes \cup Rules

Home(n) == IF n \in Cases THEN n ELSE CaseOf[n]

Kind(n) == IF n \in Cases THEN "case" ELSE IF n \in Items THEN KindOf[n]
           ELSE IF n \in Users THEN "user" ELSE IF n \in Hashes THEN "hash" ELSE "rule"

AllPages == {"cases", "evidence", "custody", "exams", "reports", "search", "dashboard",
             "charts", "analytics", "indicators", "case", "item", "exam", "report", "scan",
             "api_case", "api_evidence", "api_exam", "api_report", "api_cases", "api_items",
             "api_custody", "api_exams", "api_reports", "graph", "expand"}

\* Pages that name only the people on cases the reader sees.
PeoplePages == {"graph", "expand", "analytics", "api_case"}

\* Which kinds the link tables join, and the columns of an artifact.
LinkKinds == {<<"exam", "evidence">>, <<"report", "exam">>}
ArtifactKinds == {<<"exam", "artifact">>, <<"artifact", "evidence">>}

ASSUME VisibilityAssumption ==
  /\ KindOf \in [Items -> ItemKinds] /\ CaseOf \in [Items -> Cases]
  /\ HashOf \in [Items -> Hashes \cup {NoHash}] /\ NoHash \notin Hashes
  /\ FirstHits \in [Items -> SUBSET Rules]
  /\ \A n \in Items : FirstHits[n] # {} => KindOf[n] = "evidence"
  /\ Cases \cap Items = {} /\ Users \cap Records = {}
  /\ (Hashes \cup Rules) \cap (Records \cup Users) = {} /\ Hashes \cap Rules = {}
  /\ FirstThere \subseteq Records /\ FirstAssigned \subseteq Users \X Cases
  /\ FirstLinks \subseteq (FirstThere \cap Items) \X (FirstThere \cap Items)
  /\ \A l \in FirstLinks : /\ CaseOf[l[1]] = CaseOf[l[2]]
                           /\ <<KindOf[l[1]], KindOf[l[2]]>> \in LinkKinds \cup ArtifactKinds
  /\ Pages \subseteq AllPages /\ IsFiniteSet(Things)
  /\ MAX_NODES \in Nat /\ MaxChanges \in Nat

VARIABLES
  assigned,    \* case_investigators
  there,       \* the cases and items that exist
  links,       \* examination_evidence, report_examinations, artifacts' exam and evidence
  hits,        \* rules that the latest completed scan of an item matched
  log,         \* audit_logs: who did something to which record
  changes,     \* changes so far
  status,      \* of the request: "idle", "reading", "answered", "refused"
  ask,         \* its user, page, key and hash mode
  todo,        \* its statements still to run
  seen,        \* everything its statements returned
  holders,     \* rows of the hash statements of _add_hash_links
  nodes, edges, truncated,   \* class Graph
  met,         \* history: assignments that existed at some moment of the request
  before,      \* history: items and links that existed when it began
  steady       \* history: matches in force ever since

data == <<assigned, there, links, hits, log, changes>>
graph == <<nodes, edges, truncated>>
vars == <<data, status, ask, todo, seen, holders, graph, met, before, steady>>

ADMIN == "Administrator"

---------------------------------------------------------------------------
(* class Scope                                                             *)

lab_wide(u) == RolesOf[u] \cap {ADMIN, "Auditor", "Custodian"} # {}
sees_all_activity(u) == RolesOf[u] \cap {ADMIN, "Auditor"} # {}

\* Scope.case_filter, evaluated inside the statement it is part of.
case_filter(u, c) == lab_wide(u) \/ <<u, c>> \in assigned

---------------------------------------------------------------------------
(* Statements.  S only lists; G also puts its rows into the graph and      *)
(* draws the edges between the given kinds.                                *)

S(how, kinds) == [how |-> how, kinds |-> kinds, add |-> FALSE, draw |-> {}]
G(how, kinds, draw) == [how |-> how, kinds |-> kinds, add |-> TRUE, draw |-> draw]
Links(kinds, draw) == [how |-> "case", kinds |-> kinds, add |-> FALSE, draw |-> draw]

All(kind) == S("scope", {kind})
Find(kind) == S("key", {kind})
InCase(kind) == S("case", {kind})
People(how) == <<S(how, {"user"})>>
Joined(kind) == S("link", {kind})

(* Lists: a COUNT for the pager, then the rows; the pages add figures and  *)
(* the choices of their filters.                                           *)

\* Every investigator, and every user: neither asks for a scope.
active_investigators_for_filter == People("investigators")
people_for_filter == People("everyone")

list_cases == <<All("case"), All("case")>>
cases_index == list_cases \o <<All("case")>> \o active_investigators_for_filter

list_evidence == <<All("evidence"), All("evidence")>>
evidence_index == list_evidence \o <<All("evidence"), All("case")>>
                  \o active_investigators_for_filter

\* Custody entries and checks of visible items; then the items out of storage.
custody_log == <<All("evidence"), All("evidence")>>
out_of_storage == <<All("evidence")>>
custody_index == custody_log \o people_for_filter \o <<All("case")>> \o out_of_storage

list_examinations == <<All("exam"), All("exam")>>
creatable_cases == <<S("mine", {"case"})>>
exams_index == list_examinations \o creatable_cases \o <<All("exam")>>

list_reports == <<All("report"), All("report")>>
writable_cases == <<S("mine", {"case"})>>
reports_index == list_reports \o <<All("report")>> \o writable_cases

\* One group per table, each counted and then listed; the second evidence
\* group is the search by hash.
search == <<All("case"), All("case"), All("evidence"), All("evidence"),
            All("evidence"), All("evidence"), All("exam"), All("exam"),
            All("report"), All("report")>>

(* The dashboard.                                                          *)

summary == <<All("case"), All("evidence"), All("evidence")>>
attention == <<S("scope", {"exam", "evidence", "report"})>>
work_in_progress == <<S("scope", {"exam", "report"})>>
activity_in_period == <<S("scope", {"case", "evidence", "exam"})>>
recent_custody == <<All("evidence")>>
integrity_alerts == <<All("evidence")>>
recent_activity == <<S("feed", {"case"} \cup ItemKinds)>>

dashboard == summary \o attention \o work_in_progress \o activity_in_period
             \o recent_custody \o integrity_alerts \o recent_activity
             \o <<S("mine", {"case"})>>

\* One statement per chart; the case charts and the evidence chart.
dashboard_charts == <<All("case"), All("case"), All("evidence"), All("case")>>

\* The seven charts; the workload of the investigators names people.
analytics == <<S("scope", {"case", "evidence"}), All("evidence"), All("case"), All("exam"),
               S("workload", {"user"}), All("evidence"), All("evidence")>>

\* INDICATOR_SQL, counted and listed.
indicators == <<S("scope", {"evidence", "artifact"}), S("scope", {"evidence", "artifact"})>>

(* One record: found within the scope, then followed by its id.            *)

get_case == <<Find("case")>>
case_investigators == People("people")

\* All tabs: counts, evidence, examinations, reports, activity.
case_tabs == <<S("case", ItemKinds), InCase("evidence"), InCase("exam"), InCase("report"),
               S("case", {"case"} \cup ItemKinds)>>
case_custody == <<InCase("evidence")>>
\* Whom the one who manages the case may assign.
active_investigators == People("manage")
case_page == get_case \o case_investigators \o case_tabs \o case_custody \o active_investigators

get_evidence == <<Find("evidence")>>
evidence_examinations == <<Joined("exam")>>
evidence_page == get_evidence \o evidence_examinations

get_examination == <<Find("exam")>>
linked_evidence == <<Joined("evidence")>>
exam_artifacts == <<Joined("artifact")>>
exam_page == get_examination \o linked_evidence \o <<Joined("report")>> \o exam_artifacts
             \o <<InCase("evidence")>>

\* referenced_evidence goes through the examinations the report cites.
get_report == <<Find("report")>>
report_parts == <<Joined("exam"), S("cited", {"evidence"}), InCase("exam")>>
report_page == get_report \o report_parts

\* A scan is found through its evidence item.
get_scan == <<Find("evidence")>>

(* The API: the same reads, in JSON.                                       *)

api_case == get_case \o case_investigators \o <<InCase("evidence"), InCase("exam"), InCase("report")>>
api_evidence == get_evidence
api_examination == get_examination \o linked_evidence \o exam_artifacts
api_report == get_report \o <<Joined("exam")>>
api_cases == list_cases
api_evidence_list == list_evidence
api_chain_of_custody == custody_log
api_examinations == list_examinations
api_reports == list_reports

(* The relationship graph.                                                 *)

add_yara == <<G("rules", {"rule"}, {<<"evidence", "rule">>})>>

\* The holders of the hashes, evidence then artifacts, then the nodes.
add_hash_links == <<S("twins", {"evidence"}), S("twins", {"artifact"}),
                    G("hashes", {"hash", "evidence", "artifact"},
                      {<<"evidence", "hash">>, <<"artifact", "hash">>})>>

case_graph ==
  <<G("key", {"case"}, {}), G("people", {"user"}, {<<"user", "case">>}),
    G("case", {"evidence"}, {<<"case", "evidence">>}),
    G("case", {"exam"}, {<<"case", "exam">>}),
    Links({"exam"}, {<<"exam", "evidence">>}),
    G("case", {"report"}, {<<"case", "report">>}),
    Links({"report"}, {<<"report", "exam">>}),
    G("case", {"artifact"}, {<<"exam", "artifact">>, <<"artifact", "evidence">>})>>
  \o add_yara \o add_hash_links

\* The neighbours of the node asked for; its own case is read with it.
expand(kind) ==
  CASE kind = "case"     -> <<Find("case")>> \o case_graph
    [] kind = "evidence" -> <<G("key", {"evidence", "case"}, {<<"case", "evidence">>}),
                              G("link", {"exam"}, {<<"exam", "evidence">>}),
                              G("link", {"artifact"}, {<<"artifact", "evidence">>})>>
                            \o add_yara \o add_hash_links
    [] kind = "exam"     -> <<G("key", {"exam", "case"}, {<<"case", "exam">>}),
                              G("link", {"evidence"}, {<<"exam", "evidence">>}),
                              G("link", {"report"}, {<<"report", "exam">>}),
                              G("link", {"artifact"}, {<<"exam", "artifact">>})>>
    [] kind = "report"   -> <<G("key", {"report", "case"}, {<<"case", "report">>}),
                              G("link", {"exam"}, {<<"report", "exam">>})>>
    [] kind = "artifact" -> <<G("key", {"artifact"}, {}),
                              G("link", {"exam"}, {<<"exam", "artifact">>}),
                              G("link", {"evidence"}, {<<"artifact", "evidence">>})>>
                            \o add_hash_links
    [] kind = "user"     -> <<G("cases", {"user", "case"}, {<<"user", "case">>})>>
    [] kind = "rule"     -> <<G("rule", {"rule"}, {}),
                              G("matched", {"evidence"}, {<<"evidence", "rule">>})>>
    [] OTHER             -> add_hash_links

\* The statements of a page, and the kind of key its address carries.
Statements(page, key) ==
  CASE page = "cases" -> cases_index             [] page = "evidence" -> evidence_index
    [] page = "custody" -> custody_index         [] page = "exams" -> exams_index
    [] page = "reports" -> reports_index         [] page = "search" -> search
    [] page = "dashboard" -> dashboard           [] page = "charts" -> dashboard_charts
    [] page = "analytics" -> analytics           [] page = "indicators" -> indicators
    [] page = "case" -> case_page                [] page = "item" -> evidence_page
    [] page = "exam" -> exam_page                [] page = "report" -> report_page
    [] page = "scan" -> get_scan                 [] page = "api_case" -> api_case
    [] page = "api_evidence" -> api_evidence     [] page = "api_exam" -> api_examination
    [] page = "api_report" -> api_report         [] page = "graph" -> case_graph
    [] page = "expand" -> expand(Kind(key))      [] page = "api_cases" -> api_cases
    [] page = "api_items" -> api_evidence_list   [] page = "api_custody" -> api_chain_of_custody
    [] page = "api_exams" -> api_examinations    [] page = "api_reports" -> api_reports

OfKind(kind) == {n \in Things : Kind(n) = kind}

\* Lists have no key: any will do.
Keys(page) ==
  CASE page \in {"case", "api_case", "graph"} -> Cases
    [] page \in {"item", "scan", "api_evidence"} -> OfKind("evidence")
    [] page \in {"exam", "api_exam"}             -> OfKind("exam")
    [] page \in {"report", "api_report"}         -> OfKind("report")
    [] page = "expand"                           -> Things
    [] OTHER                                     -> {CHOOSE c \in Cases : TRUE}

---------------------------------------------------------------------------
(* What a statement returns.  "manage": an administrator, or the lead, one *)
(* of the investigators whom the first statement let in.                   *)

Neighbours(a, b) == <<a, b>> \in links \/ <<b, a>> \in links

\* The hashes _add_hash_links is called with.
Wanted == Hashes \cap (IF ask.key \in Cases THEN {HashOf[n] : n \in seen \cap Items}
                       ELSE IF ask.key \in Items THEN {HashOf[ask.key]} ELSE {ask.key})

\* mode "shared": only the hashes with two holders.
Hold(h) == {n \in holders : HashOf[n] = h}
Drawn == {h \in Wanted : ask.mode = "all" \/ Cardinality(Hold(h)) >= 2}

RowIn(st, n) ==
  LET u == ask.user
      key == ask.key
      found == n \in there /\ Kind(n) \in st.kinds IN
  \/ st.how = "scope"    /\ found /\ case_filter(u, Home(n))
  \/ st.how = "key"      /\ found /\ key \in there /\ n \in {key, Home(key)} /\ case_filter(u, Home(key))
  \/ st.how = "case"     /\ found /\ Home(n) = Home(key)
  \/ st.how = "link"     /\ found /\ Neighbours(key, n)
  \/ st.how = "cited"    /\ found /\ \E x \in Items : <<key, x>> \in links /\ <<x, n>> \in links
  \/ st.how = "mine"     /\ found /\ (ADMIN \in RolesOf[u] \/ <<u, n>> \in assigned)
  \/ st.how = "feed"     /\ \E v \in Users : <<v, n>> \in log /\ (sees_all_activity(u) \/ v = u)
  \/ st.how = "people"   /\ <<n, Home(key)>> \in assigned
  \/ st.how = "investigators" /\ n \in Users /\ "Investigator" \in RolesOf[n]
  \/ st.how = "everyone" /\ n \in Users
  \/ st.how = "manage"   /\ n \in Users /\ "Investigator" \in RolesOf[n]
                         /\ RolesOf[u] \cap {ADMIN, "Investigator"} # {}
  \/ st.how = "workload" /\ \E c \in Cases : <<n, c>> \in assigned /\ case_filter(u, c)
  \/ st.how = "cases"    /\ \/ n \in Cases /\ <<key, n>> \in assigned /\ case_filter(u, n)
                            \/ n = key /\ lab_wide(u)
                            \/ n = key /\ \E c \in Cases : <<key, c>> \in assigned /\ case_filter(u, c)
  \/ st.how = "rule"     /\ n = key
  \/ st.how = "matched"  /\ found /\ key \in hits[n] /\ case_filter(u, CaseOf[n])
  \/ st.how = "rules"    /\ n \in UNION {hits[m] : m \in seen \cap Items}
  \/ st.how = "twins"    /\ found /\ HashOf[n] \in Wanted /\ case_filter(u, CaseOf[n])
  \/ st.how = "hashes"   /\ n \in Drawn \cup UNION {Hold(h) : h \in Drawn}

Rows(st) == {n \in Things : RowIn(st, n)}

\* A statement whose empty answer ends the request: 404.
Required(st) == st.how \in {"key", "cases"}

\* The relationships stored now, in the direction the graph draws them.
Related(a, b) ==
  \/ <<a, b>> \in links
  \/ a \in Users /\ <<a, b>> \in assigned
  \/ a \in Cases /\ b \in Items /\ CaseOf[b] = a
  \/ a \in Items /\ b \in Rules /\ b \in hits[a]
  \/ a \in Items /\ b \in Hashes /\ b = HashOf[a]

---------------------------------------------------------------------------
(* The request.                                                            *)

\* g.user is loaded and Scope built.
Begin(u, page, key, mode) ==
  /\ status = "idle"
  /\ status' = "reading"
  /\ ask' = [user |-> u, page |-> page, key |-> key, mode |-> mode]
  /\ todo' = Statements(page, key)
  /\ met' = assigned
  /\ before' = [there |-> there, links |-> links]
  /\ steady' = {m \in (there \cap Items) \X Rules : m[2] \in hits[m[1]]}
  /\ UNCHANGED <<data, seen, holders, graph>>

\* Mutant: a node left out at the cap goes unsaid.
Graph_node_Silent(rows) ==
  LET new == rows \ nodes
      room == MAX_NODES - Cardinality(nodes) IN
  /\ truncated' = truncated
  /\ \E kept \in SUBSET new :
       /\ Cardinality(kept) = IF Cardinality(new) > room THEN room ELSE Cardinality(new)
       /\ nodes' = nodes \cup kept

\* Graph.node for each row: the first that find room, in the order of the
\* ORDER BY, which is left open here.
Graph_node(rows) ==
  LET new == rows \ nodes
      room == MAX_NODES - Cardinality(nodes) IN
  /\ truncated' = (truncated \/ Cardinality(new) > room)
  /\ \E kept \in SUBSET new :
       /\ Cardinality(kept) = IF Cardinality(new) > room THEN room ELSE Cardinality(new)
       /\ nodes' = nodes \cup kept

\* Mutant: an edge is kept though an end was left out.
Graph_edge_Dangling(rows, draw) ==
  edges' = edges \cup {e \in Things \X Things : /\ <<Kind(e[1]), Kind(e[2])>> \in draw
                                                /\ Related(e[1], e[2])
                                                /\ e[1] \in rows \/ e[2] \in rows}

\* Graph.edge: drawn only between nodes that are in the graph.
Graph_edge(rows, draw) ==
  edges' = edges \cup {e \in nodes' \X nodes' : /\ <<Kind(e[1]), Kind(e[2])>> \in draw
                                                /\ Related(e[1], e[2])
                                                /\ e[1] \in rows \/ e[2] \in rows}

\* What the request has gathered goes with it.
Forget == seen' = {} /\ holders' = {} /\ nodes' = {} /\ edges' = {} /\ truncated' = FALSE

Read ==
  /\ status = "reading" /\ todo # <<>>
  /\ LET st == Head(todo)
         rows == Rows(st) IN
     IF Required(st) /\ rows = {}
     THEN status' = "refused" /\ todo' = <<>> /\ Forget
     ELSE /\ seen' = seen \cup rows
          /\ holders' = IF st.how = "twins" THEN holders \cup rows ELSE holders
          /\ IF st.add THEN Graph_node(rows) ELSE UNCHANGED <<nodes, truncated>>
          /\ Graph_edge(rows, st.draw)
          /\ todo' = Tail(todo)
          /\ UNCHANGED status
  /\ UNCHANGED <<data, ask, met, before, steady>>

Answer ==
  /\ status = "reading" /\ todo = <<>>
  /\ status' = "answered"
  /\ UNCHANGED <<data, ask, todo, seen, holders, graph, met, before, steady>>

NoAsk == [user |-> "none", page |-> "none", key |-> "none", mode |-> "shared"]
Nothing == [there |-> {}, links |-> {}]

\* The answer is gone, or a statement failed and the user got an error page.
End ==
  /\ status # "idle"
  /\ status' = "idle" /\ ask' = NoAsk /\ todo' = <<>>
  /\ Forget /\ met' = {} /\ before' = Nothing /\ steady' = {}
  /\ UNCHANGED data

---------------------------------------------------------------------------
(* Changes by other requests.                                              *)

request == <<status, ask, todo, seen, holders, graph, before>>

Change == changes < MaxChanges /\ changes' = changes + 1

assign_investigator(u, c) ==
  /\ Change
  /\ c \in there /\ "Investigator" \in RolesOf[u] /\ <<u, c>> \notin assigned
  /\ assigned' = assigned \cup {<<u, c>>}
  /\ met' = IF status = "idle" THEN met ELSE met \cup {<<u, c>>}
  /\ UNCHANGED <<there, links, hits, log, request, steady>>

remove_investigator(u, c) ==
  /\ Change
  /\ <<u, c>> \in assigned
  /\ assigned' = assigned \ {<<u, c>>}
  /\ UNCHANGED <<there, links, hits, log, request, met, steady>>

\* Evidence, an examination or a report of a case that exists.
register(u, n) ==
  /\ Change
  /\ n \notin there /\ KindOf[n] # "artifact" /\ CaseOf[n] \in there
  /\ <<u, CaseOf[n]>> \in assigned \/ RolesOf[u] \cap {ADMIN, "Custodian"} # {}
  /\ there' = there \cup {n}
  /\ log' = log \cup {<<u, n>>}
  /\ UNCHANGED <<assigned, links, hits, request, met, steady>>

\* Mutant: the trigger of the link table does not compare the cases.
link_AnyCase(a, b) ==
  /\ Change
  /\ a \in there /\ b \in there
  /\ <<KindOf[a], KindOf[b]>> \in LinkKinds
  /\ links' = links \cup {<<a, b>>}
  /\ UNCHANGED <<assigned, there, hits, log, request, met, steady>>

\* trg_ee_same_case, trg_re_same_case: both ends belong to one case.
link(a, b) ==
  /\ Change
  /\ a \in there /\ b \in there
  /\ <<KindOf[a], KindOf[b]>> \in LinkKinds
  /\ CaseOf[a] = CaseOf[b]
  /\ links' = links \cup {<<a, b>>}
  /\ UNCHANGED <<assigned, there, hits, log, request, met, steady>>

\* trg_art_before_insert: from no item, or from one the examination is linked
\* to.  An artifact is in the case of its examination.
add_artifact(u, a, x, from) ==
  /\ Change
  /\ a \notin there /\ KindOf[a] = "artifact" /\ x \in there /\ CaseOf[a] = CaseOf[x]
  /\ KindOf[x] = "exam" /\ \A e \in from : KindOf[e] = "evidence" /\ <<x, e>> \in links
  /\ there' = there \cup {a}
  /\ links' = links \cup {<<x, a>>} \cup {<<a, e>> : e \in from}
  /\ log' = log \cup {<<u, x>>}
  /\ UNCHANGED <<assigned, hits, request, met, steady>>

\* Only a case without records goes.
delete_case(c) ==
  /\ Change
  /\ c \in there /\ \A n \in there \cap Items : CaseOf[n] # c
  /\ there' = there \ {c}
  /\ assigned' = {a \in assigned : a[2] # c}
  /\ UNCHANGED <<links, hits, log, request, met, steady>>

\* run_scan ends: its scan is the item's latest completed one, unless a later
\* one is already recorded or it failed (rs = hits[n]).  The worker took its
\* time, and the assignment was asked for before.
scan_completes(u, n, rs) ==
  /\ Change
  /\ n \in there /\ KindOf[n] = "evidence"
  /\ RolesOf[u] \cap {ADMIN, "Custodian", "Investigator"} # {}
  /\ hits' = [hits EXCEPT ![n] = rs]
  /\ log' = log \cup {<<u, n>>}
  /\ steady' = {m \in steady : m[1] # n \/ m[2] \in rs}
  /\ UNCHANGED <<assigned, there, links, request, met>>

Init ==
  /\ assigned = FirstAssigned /\ there = FirstThere /\ links = FirstLinks /\ hits = FirstHits
  /\ log = {} /\ changes = 0
  /\ status = "idle" /\ ask = NoAsk /\ todo = <<>>
  /\ seen = {} /\ holders = {} /\ nodes = {} /\ edges = {} /\ truncated = FALSE
  /\ met = {} /\ before = Nothing /\ steady = {}

Next ==
  \/ \E u \in Users, page \in Pages, mode \in {"shared", "all"} :
       \E key \in Keys(page) : Begin(u, page, key, mode)
  \/ Read \/ Answer \/ End
  \/ \E u \in Users, c \in Cases : assign_investigator(u, c) \/ remove_investigator(u, c)
  \/ \E u \in Users, n \in Items : register(u, n)
  \/ \E a, b \in Items : link(a, b)
  \/ \E u \in Users, a, x \in Items :
       \E from \in {{}} \cup {{e} : e \in Items} : add_artifact(u, a, x, from)
  \/ \E c \in Cases : delete_case(c)
  \/ \E u \in Users, n \in Items, rs \in SUBSET Rules : scan_completes(u, n, rs)

Spec == Init /\ [][Next]_vars

---------------------------------------------------------------------------
(* Properties                                                              *)

\* Both ends of a link belong to one case.
LinksInOneCase == \A l \in links : CaseOf[l[1]] = CaseOf[l[2]]

\* The shape of the state: a graph has at most MAX_NODES nodes and every edge
\* joins two of them (Graph.node, Graph.edge).
TypeOK ==
  /\ assigned \subseteq Users \X Cases
  /\ there \subseteq Records
  /\ links \subseteq Items \X Items
  /\ hits \in [Items -> SUBSET Rules]
  /\ status \in {"idle", "reading", "answered", "refused"}
  /\ seen \subseteq Things /\ holders \subseteq seen
  /\ nodes \subseteq Things /\ Cardinality(nodes) <= MAX_NODES
  /\ edges \subseteq nodes \X nodes
  /\ truncated \in BOOLEAN

Could(c) == lab_wide(ask.user) \/ <<ask.user, c>> \in met

\* Whatever record a page shows belongs to a case its reader could see at some
\* moment of the request, though only its first statement asks (access.py:
\* "Other cases answer 404, so their existence is not revealed"); the only
\* exception is the reader's own activity on the dashboard.  The people whom a
\* graph, the workload chart and the API's answer about a case name are on such
\* a case too (graph/services.py:275, "an investigator learns nothing about
\* people outside their cases").  That is not so of the filters of the lists of
\* cases, evidence and custody entries, and of the choice of whom to assign.
ShownWasVisible ==
  \A n \in seen :
    /\ n \in Records => \/ Could(Home(n))
                        \/ ask.page = "dashboard" /\ <<ask.user, n>> \in log
    /\ n \in Users /\ ask.page \in PeoplePages =>
         lab_wide(ask.user) \/ \E c \in Cases : Could(c) /\ <<n, c>> \in met

\* A case graph that does not say it was truncated holds every record and
\* every link the case had when the request began, and every rule its items
\* have matched ever since, whatever is recorded while it is put together.  Of
\* an item scanned meanwhile it holds the matches that the new scan kept
\* (_LATEST_MATCHES).
GraphIsWhole ==
  (status = "answered" /\ ask.page \in {"graph", "expand"} /\ ask.key \in Cases /\ ~ truncated) =>
    /\ {n \in before.there : Home(n) = ask.key} \subseteq nodes
    /\ {l \in before.links : CaseOf[l[1]] = ask.key} \subseteq edges
    /\ {m \in steady : CaseOf[m[1]] = ask.key} \subseteq edges

=============================================================================
