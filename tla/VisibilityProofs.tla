-------------------------- MODULE VisibilityProofs --------------------------
(***************************************************************************)
(* Theorems about Visibility, for any laboratory and any number of changes *)
(* during a request: what is shown was the reader's to see, and a graph    *)
(* that does not say it was truncated is whole.                            *)
(*                                                                         *)
(* ShownWasVisible alone is not inductive.  It needs Ready: a statement    *)
(* that goes by an id, and asks for no scope, is run only after the record *)
(* of that id has been found within the scope, and it reaches only records *)
(* of the same case, since links stay within one case.  Statements that    *)
(* name people whoever asks are in no list of PeoplePages.                 *)
(*                                                                         *)
(* GraphIsWhole needs that links join records that exist and neither goes  *)
(* (Kept), and which statements of case_graph are left with what they have *)
(* drawn so far, unless the graph was truncated (Whole).                   *)
(***************************************************************************)
EXTENDS Visibility, SequenceTheorems, FiniteSetTheorems, TLAPS

Kinds == {"case", "evidence", "exam", "report", "artifact", "user", "hash", "rule"}
Hows == {"scope", "key", "case", "link", "cited", "mine", "feed", "people", "workload", "cases",
         "rule", "matched", "rules", "twins", "hashes", "investigators", "everyone", "manage"}

Statement == [how : Hows, kinds : SUBSET Kinds, add : BOOLEAN, draw : SUBSET (Kinds \X Kinds)]

\* Statements that carry the scope, or add only what others have found; those
\* that compare CaseOf list no cases.
Free == {st \in Statement :
           /\ st.how \in {"scope", "key", "mine", "workload", "matched", "twins", "hashes", "rules"}
           /\ st.how \in {"matched", "twins"} => "case" \notin st.kinds}

\* Statements that go by the id of the page's record.
ById == {st \in Statement : st.how \in {"case", "link", "cited", "people"}}

\* Lists that first look for the record of the page.
Keyed == {s \in Seq(Free \cup ById) : s # <<>> /\ Head(s).how = "key"}

\* People named whatever cases they are on; and a list about a record with them.
Names == {st \in Statement : st.how \in {"investigators", "everyone", "manage"}}
KeyedNames == {s \in Seq(Free \cup ById \cup Names) : s # <<>> /\ Head(s).how = "key"}

Feed == {st \in Statement : st.how = "feed"}
Member == {st \in Statement : st.how = "cases"}
ARule == {st \in Statement : st.how = "rule"}

\* The lists of the pages, whole or in part: by-id statements are still to
\* come only if their record has been found within the scope, or will be
\* looked for first.
Ready ==
  \/ todo \in Seq(Free)
  \/ todo \in Seq(Free \cup ById) /\ Could(Home(ask.key))
  \/ todo \in Keyed
  \/ todo \in Seq(Free \cup Feed) /\ ask.page = "dashboard"
  \/ todo \in Seq(Free \cup Member) /\ ask.key \in Users
  \/ todo \in Seq(Free \cup ARule) /\ ask.key \notin Records \cup Users
  \/ todo \in Seq(Free \cup Names) /\ ask.page \notin PeoplePages
  \/ todo \in Seq(Free \cup ById \cup Names) /\ ask.page \notin PeoplePages /\ Could(Home(ask.key))
  \/ todo \in KeyedNames /\ ask.page \notin PeoplePages

Shape ==
  /\ log \subseteq Users \X Records
  /\ status = "idle" => seen = {} /\ todo = <<>>
  /\ status # "idle" => assigned \subseteq met

IInv == TypeOK /\ Shape /\ LinksInOneCase /\ Ready /\ ShownWasVisible

---------------------------------------------------------------------------
(* The lists.                                                              *)

LEMMA FreeS ==
  ASSUME NEW how \in {"scope", "mine", "workload", "key"}, NEW kinds \in SUBSET Kinds
  PROVE  S(how, kinds) \in Free
  BY DEF S, Free, Statement, Hows

LEMMA ByIdS ==
  ASSUME NEW how \in {"case", "link", "cited", "people"}, NEW kinds \in SUBSET Kinds
  PROVE  S(how, kinds) \in ById
  BY DEF S, ById, Statement, Hows

LEMMA Elements ==
  ASSUME NEW kind \in Kinds
  PROVE  /\ All(kind) \in Free /\ Find(kind) \in Free
         /\ InCase(kind) \in ById /\ Joined(kind) \in ById
  BY FreeS, ByIdS DEF All, Find, InCase, Joined

LEMMA Append2 ==
  ASSUME NEW T, NEW s \in Seq(T), NEW t \in Seq(T)
  PROVE  s \o t \in Seq(T)
  BY ConcatProperties

LEMMA KeyedMore ==
  ASSUME NEW s \in Keyed, NEW t \in Seq(Free \cup ById)
  PROVE  s \o t \in Keyed
  <1>1. s \in Seq(Free \cup ById) /\ s # <<>> /\ Head(s).how = "key"
    BY DEF Keyed
  <1>2. Len(s) \in Nat /\ Len(s) # 0 /\ Len(t) \in Nat
    BY <1>1, LenProperties, EmptySeq
  <1>3. s \o t \in Seq(Free \cup ById) /\ Len(s \o t) = Len(s) + Len(t) /\ (s \o t)[1] = s[1]
    BY <1>1, <1>2, ConcatProperties
  <1>4. s \o t # <<>> /\ Head(s \o t) = Head(s)
    BY <1>1, <1>2, <1>3
  <1> QED BY <1>1, <1>3, <1>4 DEF Keyed

\* Lists restricted by the scope.
LEMMA FreeLists ==
  /\ list_cases \o <<All("case")>> \in Seq(Free)
  /\ list_evidence \o <<All("evidence"), All("case")>> \in Seq(Free)
  /\ custody_log \in Seq(Free) /\ <<All("case")>> \in Seq(Free) /\ out_of_storage \in Seq(Free)
  /\ exams_index \in Seq(Free) /\ reports_index \in Seq(Free) /\ search \in Seq(Free)
  /\ dashboard_charts \in Seq(Free) /\ analytics \in Seq(Free) /\ indicators \in Seq(Free)
  /\ get_scan \in Seq(Free) /\ api_evidence \in Seq(Free) /\ api_cases \in Seq(Free)
  /\ api_evidence_list \in Seq(Free) /\ api_chain_of_custody \in Seq(Free)
  /\ api_examinations \in Seq(Free) /\ api_reports \in Seq(Free)
  <1>1. /\ All("case") \in Free /\ All("evidence") \in Free
        /\ All("exam") \in Free /\ All("report") \in Free /\ Find("evidence") \in Free
    BY Elements DEF Kinds
  <1>2. /\ S("mine", {"case"}) \in Free /\ S("workload", {"user"}) \in Free
        /\ S("scope", {"case", "evidence"}) \in Free /\ S("scope", {"evidence", "artifact"}) \in Free
    BY FreeS DEF Kinds
  <1>3. /\ list_cases \in Seq(Free) /\ list_evidence \in Seq(Free) /\ custody_log \in Seq(Free)
        /\ list_examinations \in Seq(Free) /\ list_reports \in Seq(Free)
    BY <1>1 DEF list_cases, list_evidence, custody_log, list_examinations, list_reports
  <1>4. /\ creatable_cases \in Seq(Free) /\ writable_cases \in Seq(Free)
        /\ out_of_storage \in Seq(Free) /\ get_evidence \in Seq(Free) /\ get_scan \in Seq(Free)
    BY <1>1, <1>2 DEF creatable_cases, writable_cases, out_of_storage, get_evidence, get_scan
  <1>5. /\ <<All("case")>> \in Seq(Free) /\ <<All("exam")>> \in Seq(Free)
        /\ <<All("report")>> \in Seq(Free) /\ <<All("evidence"), All("case")>> \in Seq(Free)
    BY <1>1
  <1>6. list_cases \o <<All("case")>> \in Seq(Free)
    BY <1>3, <1>5, Append2
  <1>7. list_evidence \o <<All("evidence"), All("case")>> \in Seq(Free)
    BY <1>3, <1>5, Append2
  <1>8. exams_index \in Seq(Free)
    <2>1. list_examinations \o creatable_cases \in Seq(Free)
      BY <1>3, <1>4, Append2
    <2> QED BY <1>5, <2>1, Append2 DEF exams_index
  <1>9. reports_index \in Seq(Free)
    <2>1. list_reports \o <<All("report")>> \in Seq(Free)
      BY <1>3, <1>5, Append2
    <2> QED BY <1>4, <2>1, Append2 DEF reports_index
  <1>10. search \in Seq(Free)
    BY <1>1 DEF search
  <1>11. dashboard_charts \in Seq(Free) /\ analytics \in Seq(Free) /\ indicators \in Seq(Free)
    BY <1>1, <1>2 DEF dashboard_charts, analytics, indicators
  <1> QED BY <1>3, <1>4, <1>5, <1>6, <1>7, <1>8, <1>9, <1>10, <1>11
       DEF api_evidence, api_cases, api_evidence_list, api_chain_of_custody, api_examinations,
           api_reports

LEMMA NamesS ==
  ASSUME NEW how \in {"investigators", "everyone", "manage"}
  PROVE  People(how) \in Seq(Names)
  <1>1. S(how, {"user"}) \in Names
    BY DEF S, Names, Statement, Hows, Kinds
  <1> QED BY <1>1 DEF People

\* Lists with a filter that names people.
LEMMA NamesLists ==
  /\ cases_index \in Seq(Free \cup Names) /\ evidence_index \in Seq(Free \cup Names)
  /\ custody_index \in Seq(Free \cup Names)
  <1> DEFINE T == Free \cup Names
  <1>1. ASSUME NEW s \in Seq(Free) PROVE s \in Seq(T)
    OBVIOUS
  <1>2. active_investigators_for_filter \in Seq(T) /\ people_for_filter \in Seq(T)
    BY NamesS DEF active_investigators_for_filter, people_for_filter
  <1>3. /\ list_cases \o <<All("case")>> \in Seq(T)
        /\ list_evidence \o <<All("evidence"), All("case")>> \in Seq(T)
        /\ custody_log \in Seq(T) /\ <<All("case")>> \in Seq(T) /\ out_of_storage \in Seq(T)
    BY <1>1, FreeLists
  <1> HIDE DEF T
  <1>4. cases_index \in Seq(T) /\ evidence_index \in Seq(T)
    BY <1>2, <1>3, Append2 DEF cases_index, evidence_index
  <1>5. custody_index \in Seq(T)
    <2>1. custody_log \o people_for_filter \in Seq(T)
      BY <1>2, <1>3, Append2
    <2>2. custody_log \o people_for_filter \o <<All("case")>> \in Seq(T)
      BY <1>3, <2>1, Append2
    <2> QED BY <1>3, <2>2, Append2 DEF custody_index
  <1> QED BY <1>4, <1>5 DEF T

LEMMA DashboardList == dashboard \in Seq(Free \cup Feed)
  <1> DEFINE T == Free \cup Feed
  <1>1. All("case") \in T /\ All("evidence") \in T
    BY Elements DEF Kinds
  <1>2. /\ S("mine", {"case"}) \in T /\ S("scope", {"exam", "evidence", "report"}) \in T
        /\ S("scope", {"exam", "report"}) \in T /\ S("scope", {"case", "evidence", "exam"}) \in T
    BY FreeS DEF Kinds
  <1>3. S("feed", {"case"} \cup ItemKinds) \in T
    BY DEF S, Feed, Statement, Hows, Kinds, ItemKinds
  <1> HIDE DEF T
  <1>4. /\ summary \in Seq(T) /\ attention \in Seq(T) /\ work_in_progress \in Seq(T)
        /\ activity_in_period \in Seq(T) /\ recent_custody \in Seq(T) /\ integrity_alerts \in Seq(T)
        /\ recent_activity \in Seq(T) /\ <<S("mine", {"case"})>> \in Seq(T)
    BY <1>1, <1>2, <1>3 DEF summary, attention, work_in_progress, activity_in_period,
                            recent_custody, integrity_alerts, recent_activity
  <1>5. summary \o attention \o work_in_progress \o activity_in_period \in Seq(T)
    BY <1>4, Append2
  <1>6. dashboard \in Seq(T)
    BY <1>4, <1>5, Append2 DEF dashboard
  <1> QED BY <1>6 DEF T

\* Pages about one record.
LEMMA RecordLists ==
  /\ get_case \o case_investigators \o case_tabs \o case_custody \in Keyed
  /\ evidence_page \in Keyed /\ exam_page \in Keyed /\ report_page \in Keyed
  /\ api_case \in Keyed /\ api_examination \in Keyed /\ api_report \in Keyed
  <1> DEFINE T == Free \cup ById
  <1>1. /\ InCase("evidence") \in T /\ InCase("exam") \in T /\ InCase("report") \in T
        /\ Joined("exam") \in T /\ Joined("evidence") \in T /\ Joined("artifact") \in T
        /\ Joined("report") \in T
    BY Elements DEF Kinds
  <1>2. /\ S("people", {"user"}) \in T /\ S("case", ItemKinds) \in T
        /\ S("case", {"case"} \cup ItemKinds) \in T /\ S("cited", {"evidence"}) \in T
    BY ByIdS DEF Kinds, ItemKinds
  <1>3. ASSUME NEW k \in Kinds PROVE <<Find(k)>> \in Keyed
    <2>1. Find(k) \in T /\ Find(k).how = "key"
      BY Elements DEF Find, S
    <2>2. <<Find(k)>> \in Seq(T) /\ <<Find(k)>> # <<>> /\ Head(<<Find(k)>>) = Find(k)
      BY <2>1
    <2> QED BY <2>1, <2>2 DEF Keyed
  <1>4. get_case \in Keyed /\ get_evidence \in Keyed /\ get_examination \in Keyed /\ get_report \in Keyed
    BY <1>3 DEF Kinds, get_case, get_evidence, get_examination, get_report
  <1> HIDE DEF T
  <1>5. /\ case_investigators \in Seq(T) /\ case_tabs \in Seq(T) /\ case_custody \in Seq(T)
        /\ evidence_examinations \in Seq(T) /\ linked_evidence \in Seq(T) /\ exam_artifacts \in Seq(T)
        /\ report_parts \in Seq(T)
    BY <1>1, <1>2 DEF case_investigators, People, case_tabs, case_custody, evidence_examinations,
                      linked_evidence, exam_artifacts, report_parts
  <1>6. /\ <<InCase("evidence"), InCase("exam"), InCase("report")>> \in Seq(T)
        /\ <<Joined("report")>> \in Seq(T) /\ <<InCase("evidence")>> \in Seq(T)
        /\ <<Joined("exam")>> \in Seq(T)
    BY <1>1
  <1> USE DEF T
  <1>7. get_case \o case_investigators \o case_tabs \o case_custody \in Keyed
    BY <1>4, <1>5, KeyedMore
  <1>8. evidence_page \in Keyed /\ report_page \in Keyed
    BY <1>4, <1>5, KeyedMore DEF evidence_page, report_page
  <1>9. exam_page \in Keyed
    BY <1>4, <1>5, <1>6, KeyedMore DEF exam_page
  <1>10. api_case \in Keyed /\ api_examination \in Keyed /\ api_report \in Keyed
    BY <1>4, <1>5, <1>6, KeyedMore DEF api_case, api_examination, api_report
  <1> QED BY <1>7, <1>8, <1>9, <1>10

\* The page of a case ends with whom its manager may assign.
LEMMA CasePageList == case_page \in KeyedNames
  <1> DEFINE T == Free \cup ById \cup Names
  <1>1. PICK s : s = get_case \o case_investigators \o case_tabs \o case_custody
    OBVIOUS
  <1>2. s \in Seq(Free \cup ById) /\ s # <<>> /\ Head(s).how = "key"
    BY <1>1, RecordLists DEF Keyed
  <1>3. active_investigators \in Seq(Names)
    BY NamesS DEF active_investigators
  <1>4. s \in Seq(T) /\ active_investigators \in Seq(T)
    BY <1>2, <1>3
  <1> HIDE DEF T
  <1>5. Len(s) \in Nat /\ Len(s) # 0 /\ Len(active_investigators) \in Nat
    BY <1>2, <1>4, LenProperties, EmptySeq
  <1>6. /\ s \o active_investigators \in Seq(T)
        /\ Len(s \o active_investigators) = Len(s) + Len(active_investigators)
        /\ (s \o active_investigators)[1] = s[1]
    BY <1>4, <1>5, ConcatProperties
  <1>7. s \o active_investigators # <<>> /\ Head(s \o active_investigators) = Head(s)
    BY <1>4, <1>5, <1>6
  <1>8. case_page = s \o active_investigators
    BY <1>1 DEF case_page
  <1> QED BY <1>2, <1>6, <1>7, <1>8 DEF KeyedNames, T

LEMMA GraphElement ==
  ASSUME NEW how \in Hows, NEW kinds \in SUBSET Kinds, NEW draw \in SUBSET (Kinds \X Kinds)
  PROVE  /\ how \in {"key", "hashes", "rules"} => G(how, kinds, draw) \in Free
         /\ how = "matched" /\ "case" \notin kinds => G(how, kinds, draw) \in Free
         /\ how = "twins" /\ "case" \notin kinds => S(how, kinds) \in Free
         /\ how \in {"case", "link", "people"} => G(how, kinds, draw) \in ById
         /\ Links(kinds, draw) \in ById
         /\ how = "cases" => G(how, kinds, draw) \in Member
         /\ how = "rule" => G(how, kinds, draw) \in ARule
         /\ G(how, kinds, draw).how = how
  BY DEF G, S, Links, Free, ById, Member, ARule, Statement, Hows

LEMMA AddLists ==
  ASSUME NEW T, Free \subseteq T
  PROVE  add_yara \in Seq(T) /\ add_hash_links \in Seq(T)
  <1>1. {<<"evidence", "rule">>} \in SUBSET (Kinds \X Kinds)
        /\ {<<"evidence", "hash">>, <<"artifact", "hash">>} \in SUBSET (Kinds \X Kinds)
    BY DEF Kinds
  <1>2. /\ {"rule"} \in SUBSET Kinds /\ {"hash", "evidence", "artifact"} \in SUBSET Kinds
        /\ {"evidence"} \in SUBSET Kinds /\ {"artifact"} \in SUBSET Kinds
    BY DEF Kinds
  <1>3. {"rules", "hashes", "twins"} \subseteq Hows
    BY DEF Hows
  <1>4. G("rules", {"rule"}, {<<"evidence", "rule">>}) \in T
    BY <1>1, <1>2, <1>3, GraphElement
  <1>5. G("hashes", {"hash", "evidence", "artifact"}, {<<"evidence", "hash">>, <<"artifact", "hash">>}) \in T
    BY <1>1, <1>2, <1>3, GraphElement
  <1>6. S("twins", {"evidence"}) \in T /\ S("twins", {"artifact"}) \in T
    BY <1>1, <1>2, <1>3, GraphElement
  <1> QED BY <1>4, <1>5, <1>6 DEF add_yara, add_hash_links

\* The graph of a case begins with the case, within the scope.
LEMMA CaseGraphList == case_graph \in Keyed
  <1> DEFINE T == Free \cup ById
  <1>1. ASSUME NEW k \in Kinds, NEW a \in Kinds, NEW b \in Kinds
        PROVE  /\ {k} \in SUBSET Kinds /\ {<<a, b>>} \in SUBSET (Kinds \X Kinds)
               /\ {} \in SUBSET (Kinds \X Kinds)
    OBVIOUS
  <1>2. {"key", "people", "case"} \subseteq Hows
    BY DEF Hows
  <1>3. ASSUME NEW k \in Kinds, NEW a \in Kinds, NEW b \in Kinds
        PROVE  /\ G("case", {k}, {<<a, b>>}) \in T /\ G("people", {k}, {<<a, b>>}) \in T
               /\ Links({k}, {<<a, b>>}) \in T
               /\ G("key", {k}, {}) \in T /\ G("key", {k}, {}).how = "key"
    BY <1>1, <1>2, GraphElement
  <1>4. /\ {<<"exam", "artifact">>, <<"artifact", "evidence">>} \in SUBSET (Kinds \X Kinds)
        /\ {"artifact"} \in SUBSET Kinds
    BY DEF Kinds
  <1>5. G("case", {"artifact"}, {<<"exam", "artifact">>, <<"artifact", "evidence">>}) \in T
    BY <1>2, <1>4, GraphElement
  <1>6. {"case", "user", "evidence", "exam", "report"} \subseteq Kinds
    BY DEF Kinds
  <1>7. /\ G("key", {"case"}, {}) \in T /\ G("key", {"case"}, {}).how = "key"
        /\ G("people", {"user"}, {<<"user", "case">>}) \in T
        /\ G("case", {"evidence"}, {<<"case", "evidence">>}) \in T
        /\ G("case", {"exam"}, {<<"case", "exam">>}) \in T
        /\ Links({"exam"}, {<<"exam", "evidence">>}) \in T
        /\ G("case", {"report"}, {<<"case", "report">>}) \in T
        /\ Links({"report"}, {<<"report", "exam">>}) \in T
    BY <1>3, <1>6
  <1> DEFINE own == <<G("key", {"case"}, {}), G("people", {"user"}, {<<"user", "case">>}),
    G("case", {"evidence"}, {<<"case", "evidence">>}),
    G("case", {"exam"}, {<<"case", "exam">>}),
    Links({"exam"}, {<<"exam", "evidence">>}),
    G("case", {"report"}, {<<"case", "report">>}),
    Links({"report"}, {<<"report", "exam">>}),
    G("case", {"artifact"}, {<<"exam", "artifact">>, <<"artifact", "evidence">>})>>
  <1> HIDE DEF T
  <1>8. own \in Seq(T) /\ own # <<>> /\ Head(own) = G("key", {"case"}, {})
    BY <1>5, <1>7
  <1> USE DEF T
  <1>9. own \in Keyed
    BY <1>7, <1>8 DEF Keyed
  <1>10. case_graph = own \o add_yara \o add_hash_links
    BY DEF case_graph
  <1> HIDE DEF own
  <1> QED BY <1>9, <1>10, AddLists, KeyedMore

LEMMA ExpandList ==
  /\ \A k \in {"case", "evidence", "exam", "report", "artifact"} : expand(k) \in Keyed
  /\ expand("user") \in Seq(Free \cup Member)
  /\ expand("rule") \in Seq(Free \cup ARule)
  /\ expand("hash") \in Seq(Free)
  <1> DEFINE T == Free \cup ById
  <1>1. ASSUME NEW k \in Kinds, NEW a \in Kinds, NEW b \in Kinds
        PROVE  /\ {k} \in SUBSET Kinds /\ {<<a, b>>} \in SUBSET (Kinds \X Kinds)
               /\ {} \in SUBSET (Kinds \X Kinds) /\ {k, "case"} \in SUBSET Kinds
    BY DEF Kinds
  <1>2. {"key", "link", "cases", "rule", "matched"} \subseteq Hows
    BY DEF Hows
  <1>3. ASSUME NEW k \in Kinds, NEW a \in Kinds, NEW b \in Kinds
        PROVE  /\ G("link", {k}, {<<a, b>>}) \in T
               /\ G("key", {k, "case"}, {<<a, b>>}) \in T
               /\ G("key", {k, "case"}, {<<a, b>>}).how = "key"
               /\ G("key", {k}, {}) \in T /\ G("key", {k}, {}).how = "key"
    <2>1. "link" \in Hows /\ "key" \in Hows
      BY <1>2
    <2>2. G("link", {k}, {<<a, b>>}) \in T
      BY <1>1, <2>1, GraphElement
    <2>3. G("key", {k, "case"}, {<<a, b>>}) \in T /\ G("key", {k, "case"}, {<<a, b>>}).how = "key"
      <3>1. PICK two : two = {k, "case"}
        OBVIOUS
      <3>2. PICK line : line = {<<a, b>>}
        OBVIOUS
      <3>3. two \in SUBSET Kinds /\ line \in SUBSET (Kinds \X Kinds)
        BY <3>1, <3>2 DEF Kinds
      <3>4. G("key", two, line) \in Free /\ G("key", two, line).how = "key"
        BY <2>1, <3>3, GraphElement
      <3> QED BY <3>1, <3>2, <3>4
    <2>4. G("key", {k}, {}) \in T /\ G("key", {k}, {}).how = "key"
      BY <1>1, <2>1, GraphElement
    <2> QED BY <2>2, <2>3, <2>4
  <1>4. Kinds = {"case", "evidence", "exam", "report", "artifact", "user", "hash", "rule"}
    BY DEF Kinds
  <1>5. ASSUME NEW x \in T, x.how = "key", NEW y \in T, NEW z \in T, NEW w \in T
        PROVE  /\ <<x>> \in Keyed /\ <<x, y>> \in Keyed /\ <<x, y, z>> \in Keyed
               /\ <<x, y, z, w>> \in Keyed
    <2> HIDE DEF T
    <2>1. /\ <<x>> \in Seq(T) /\ <<x, y>> \in Seq(T) /\ <<x, y, z>> \in Seq(T)
          /\ <<x, y, z, w>> \in Seq(T)
      OBVIOUS
    <2>2. /\ Head(<<x>>) = x /\ Head(<<x, y>>) = x /\ Head(<<x, y, z>>) = x
          /\ Head(<<x, y, z, w>>) = x
      OBVIOUS
    <2>3. <<x>> # <<>> /\ <<x, y>> # <<>> /\ <<x, y, z>> # <<>> /\ <<x, y, z, w>> # <<>>
      OBVIOUS
    <2> USE DEF T
    <2> QED BY <1>5, <2>1, <2>2, <2>3 DEF Keyed
  <1> HIDE DEF T
  <1>6. expand("case") \in Keyed
    <2>1. Find("case") \in T /\ Find("case").how = "key"
      BY <1>4, Elements DEF Find, S, T
    <2>2. <<Find("case")>> \in Keyed /\ case_graph \in Seq(T)
      BY <1>5, <2>1, CaseGraphList DEF Keyed, T
    <2>3. expand("case") = <<Find("case")>> \o case_graph
      BY DEF expand
    <2> QED BY <2>2, <2>3, KeyedMore DEF T
  <1>7. expand("evidence") \in Keyed
    <2>1. <<G("key", {"evidence", "case"}, {<<"case", "evidence">>}),
            G("link", {"exam"}, {<<"exam", "evidence">>}),
            G("link", {"artifact"}, {<<"artifact", "evidence">>})>> \in Keyed
      BY <1>3, <1>4, <1>5
    <2> QED BY <2>1, AddLists, KeyedMore DEF expand
  <1>8. expand("exam") \in Keyed
    BY <1>3, <1>4, <1>5 DEF expand
  <1>9. expand("report") \in Keyed
    BY <1>3, <1>4, <1>5 DEF expand
  <1>10. expand("artifact") \in Keyed
    <2>1. <<G("key", {"artifact"}, {}),
            G("link", {"exam"}, {<<"exam", "artifact">>}),
            G("link", {"evidence"}, {<<"artifact", "evidence">>})>> \in Keyed
      BY <1>3, <1>4, <1>5
    <2> QED BY <2>1, AddLists, KeyedMore DEF expand
  <1>11. expand("user") \in Seq(Free \cup Member)
    <2>1. /\ "cases" \in Hows /\ {"user", "case"} \in SUBSET Kinds
          /\ {<<"user", "case">>} \in SUBSET (Kinds \X Kinds)
      BY <1>2, <1>4
    <2>2. G("cases", {"user", "case"}, {<<"user", "case">>}) \in Free \cup Member
      BY <2>1, GraphElement
    <2> QED BY <2>2 DEF expand
  <1>12. expand("rule") \in Seq(Free \cup ARule)
    <2>1. /\ "rule" \in Hows /\ "matched" \in Hows
          /\ {"rule"} \in SUBSET Kinds /\ {"evidence"} \in SUBSET Kinds
          /\ {} \in SUBSET (Kinds \X Kinds) /\ {<<"evidence", "rule">>} \in SUBSET (Kinds \X Kinds)
      BY <1>2, <1>4
    <2>2. G("rule", {"rule"}, {}) \in Free \cup ARule
      BY <2>1, GraphElement
    <2>3. G("matched", {"evidence"}, {<<"evidence", "rule">>}) \in Free \cup ARule
      BY <2>1, GraphElement
    <2> QED BY <2>2, <2>3 DEF expand
  <1>13. expand("hash") \in Seq(Free)
    BY AddLists DEF expand
  <1> QED BY <1>6, <1>7, <1>8, <1>9, <1>10, <1>11, <1>12, <1>13

\* What the kind of a thing says of it.
LEMMA KindIs ==
  ASSUME NEW n \in Things
  PROVE  /\ Kind(n) \in Kinds
         /\ Kind(n) = "user" => n \in Users
         /\ Kind(n) = "rule" => n \notin Records \cup Users
         /\ Kind(n) # "case" => n \notin Cases
  <1>1. CASE n \in Cases
    BY <1>1 DEF Kind, Kinds
  <1>2. CASE n \in Items
    <2>1. KindOf[n] \in {"evidence", "exam", "report", "artifact"}
      BY <1>2, VisibilityAssumption DEF ItemKinds
    <2>2. n \notin Cases /\ Kind(n) = KindOf[n]
      BY <1>2, VisibilityAssumption DEF Kind
    <2> QED BY <2>1, <2>2 DEF Kinds
  <1>3. CASE n \in Users
    BY <1>3, VisibilityAssumption DEF Kind, Kinds, Records
  <1>4. CASE n \notin Cases \cup Items \cup Users
    BY <1>4, VisibilityAssumption DEF Kind, Kinds, Records
  <1> QED BY <1>1, <1>2, <1>3, <1>4

\* Every page is one of the sorts that Ready speaks of.
LEMMA PageList ==
  ASSUME NEW page \in Pages, NEW key \in Keys(page)
  PROVE  LET list == Statements(page, key) IN
         \/ list \in Seq(Free)
         \/ list \in Keyed
         \/ list \in Seq(Free \cup Feed) /\ page = "dashboard"
         \/ list \in Seq(Free \cup Member) /\ key \in Users
         \/ list \in Seq(Free \cup ARule) /\ key \notin Records \cup Users
         \/ list \in Seq(Free \cup Names) /\ page \notin PeoplePages
         \/ list \in KeyedNames /\ page \notin PeoplePages
  <1>1. page \in AllPages
    BY VisibilityAssumption
  <1>2. CASE page = "dashboard"
    BY <1>2, DashboardList DEF Statements
  <1>3. CASE page \in {"item", "exam", "report", "api_case", "api_exam", "api_report", "graph"}
    BY <1>3, RecordLists, CaseGraphList DEF Statements
  <1>4. CASE page = "expand"
    <2>1. key \in Things /\ Statements(page, key) = expand(Kind(key))
      BY <1>4 DEF Statements, Keys
    <2> QED BY <2>1, ExpandList, KindIs DEF Kinds
  <1>5. CASE page \in {"exams", "reports"}
    BY <1>5, FreeLists DEF Statements
  <1>6. CASE page \in {"search", "charts", "analytics", "indicators", "scan", "api_evidence"}
    BY <1>6, FreeLists DEF Statements
  <1>7. CASE page \in {"api_cases", "api_items", "api_custody", "api_exams", "api_reports"}
    BY <1>7, FreeLists DEF Statements
  <1>8. CASE page \in {"cases", "evidence", "custody"}
    BY <1>8, NamesLists DEF Statements, PeoplePages
  <1>9. CASE page = "case"
    BY <1>9, CasePageList DEF Statements, PeoplePages
  <1> QED BY <1>1, <1>2, <1>3, <1>4, <1>5, <1>6, <1>7, <1>8, <1>9 DEF AllPages

---------------------------------------------------------------------------
(* One statement.                                                          *)

\* What ShownWasVisible says of one thing.
Shown(n) ==
  /\ n \in Records => \/ Could(Home(n))
                      \/ ask.page = "dashboard" /\ <<ask.user, n>> \in log
  /\ n \in Users /\ ask.page \in PeoplePages =>
       lab_wide(ask.user) \/ \E c \in Cases : Could(c) /\ <<n, c>> \in met

\* The scope of this moment is part of what the reader could see.
LEMMA FilterCould ==
  ASSUME Shape, status # "idle", NEW c, case_filter(ask.user, c)
  PROVE  Could(c)
  BY DEF Shape, case_filter, Could

LEMMA HomeIs ==
  /\ \A c \in Cases : Home(c) = c
  /\ \A n \in Items : Home(n) = CaseOf[n] /\ Home(n) \in Cases
  /\ \A n \in Records : Home(n) \in Cases
  /\ \A n \in Records : n \notin Users
  BY VisibilityAssumption DEF Home, Records

LEMMA FreeShown ==
  ASSUME IInv, status # "idle", NEW st \in Free, NEW n \in Things, RowIn(st, n)
  PROVE  Shown(n)
  <1>1. /\ st.how \in {"scope", "key", "mine", "workload", "matched", "twins", "hashes", "rules"}
        /\ st.how \in {"matched", "twins"} => "case" \notin st.kinds
    BY DEF Free
  <1>2. n \in there => n \in Records /\ n \notin Users
    BY HomeIs DEF IInv, TypeOK, Shape
  <1>3. CASE st.how = "scope"
    <2>1. n \in there /\ case_filter(ask.user, Home(n))
      BY <1>3 DEF RowIn
    <2> QED BY <1>2, <2>1, FilterCould DEF IInv, Shown
  <1>4. CASE st.how = "key"
    <2>1. n \in there /\ ask.key \in there /\ n \in {ask.key, Home(ask.key)}
          /\ case_filter(ask.user, Home(ask.key))
      BY <1>4 DEF RowIn
    <2>2. ask.key \in Records
      BY <2>1 DEF IInv, TypeOK, Shape
    <2>3. Home(n) = Home(ask.key)
      BY <2>1, <2>2, HomeIs
    <2> QED BY <1>2, <2>1, <2>3, FilterCould DEF IInv, Shown
  <1>5. CASE st.how = "mine"
    <2>1. n \in there /\ (ADMIN \in RolesOf[ask.user] \/ <<ask.user, n>> \in assigned)
      BY <1>5 DEF RowIn
    <2>2. ADMIN \in RolesOf[ask.user] => lab_wide(ask.user)
      BY DEF lab_wide
    <2>3. <<ask.user, n>> \in assigned => Home(n) = n /\ <<ask.user, n>> \in met
      BY HomeIs DEF IInv, TypeOK, Shape
    <2> QED BY <1>2, <2>1, <2>2, <2>3 DEF Shown, Could
  <1>6. CASE st.how = "workload"
    <2>1. PICK c \in Cases : <<n, c>> \in assigned /\ case_filter(ask.user, c)
      BY <1>6 DEF RowIn
    <2>2. n \in Users /\ <<n, c>> \in met
      BY <2>1 DEF IInv, TypeOK, Shape
    <2>3. Could(c)
      BY <2>1, FilterCould DEF IInv
    <2> QED BY <2>2, <2>3, HomeIs DEF Shown
  <1>7. CASE st.how \in {"matched", "twins"}
    <2>1. n \in there /\ Kind(n) \in st.kinds /\ case_filter(ask.user, CaseOf[n])
      BY <1>7 DEF RowIn
    <2>2. n \in Records /\ n \notin Cases
      BY <1>1, <1>2, <1>7, <2>1, KindIs DEF Kind
    <2>3. Home(n) = CaseOf[n]
      BY <2>2 DEF Home
    <2> QED BY <1>2, <2>1, <2>3, FilterCould DEF IInv, Shown
  <1>8. CASE st.how = "rules"
    <2>1. n \in UNION {hits[m] : m \in seen \cap Items}
      BY <1>8 DEF RowIn
    <2>2. n \in Rules
      BY <2>1 DEF IInv, TypeOK
    <2> QED BY <2>2, VisibilityAssumption DEF Shown
  <1>9. CASE st.how = "hashes"
    <2>1. n \in Drawn \cup UNION {Hold(h) : h \in Drawn}
      BY <1>9 DEF RowIn
    <2>2. CASE n \in Drawn
      <3>1. n \in Hashes
        BY <2>2 DEF Drawn, Wanted
      <3> QED BY <3>1, VisibilityAssumption DEF Shown
    <2>3. CASE n \in UNION {Hold(h) : h \in Drawn}
      <3>1. n \in seen
        BY <2>3 DEF Hold, IInv, TypeOK, Shape
      <3> QED BY <3>1 DEF IInv, ShownWasVisible, Shown
    <2> QED BY <2>1, <2>2, <2>3
  <1> QED BY <1>1, <1>3, <1>4, <1>5, <1>6, <1>7, <1>8, <1>9

LEMMA ByIdShown ==
  ASSUME IInv, status # "idle", Could(Home(ask.key)), NEW st \in ById, NEW n \in Things, RowIn(st, n)
  PROVE  Shown(n)
  <1>1. st.how \in {"case", "link", "cited", "people"}
    BY DEF ById
  <1>2. n \in there => n \in Records /\ n \notin Users
    BY HomeIs DEF IInv, TypeOK, Shape
  <1>3. ASSUME NEW a, NEW b, <<a, b>> \in links
        PROVE  Home(a) = Home(b)
    BY <1>3, HomeIs DEF IInv, TypeOK, Shape, LinksInOneCase
  <1>4. CASE st.how = "case"
    BY <1>2, <1>4 DEF RowIn, Shown
  <1>5. CASE st.how = "link"
    BY <1>2, <1>3, <1>5 DEF RowIn, Neighbours, Shown
  <1>6. CASE st.how = "cited"
    BY <1>2, <1>3, <1>6 DEF RowIn, Shown
  <1>7. CASE st.how = "people"
    <2>1. <<n, Home(ask.key)>> \in assigned
      BY <1>7 DEF RowIn
    <2>2. n \in Users /\ Home(ask.key) \in Cases /\ <<n, Home(ask.key)>> \in met
      BY <2>1 DEF IInv, TypeOK, Shape
    <2> QED BY <2>2, HomeIs DEF Shown
  <1> QED BY <1>1, <1>4, <1>5, <1>6, <1>7

LEMMA OtherShown ==
  ASSUME IInv, status # "idle", NEW st, NEW n \in Things, RowIn(st, n),
         \/ st \in Feed /\ ask.page = "dashboard"
         \/ st \in Member /\ ask.key \in Users
         \/ st \in ARule /\ ask.key \notin Records \cup Users
         \/ st \in Names /\ ask.page \notin PeoplePages
  PROVE  Shown(n)
  <1>1. CASE st \in Feed /\ ask.page = "dashboard"
    <2>1. PICK v \in Users : <<v, n>> \in log /\ (sees_all_activity(ask.user) \/ v = ask.user)
      BY <1>1 DEF RowIn, Feed
    <2>2. n \in Records /\ n \notin Users
      BY <2>1, HomeIs DEF IInv, TypeOK, Shape
    <2>3. sees_all_activity(ask.user) => lab_wide(ask.user)
      BY DEF sees_all_activity, lab_wide
    <2> QED BY <1>1, <2>1, <2>2, <2>3 DEF Shown, Could
  <1>2. CASE st \in Member /\ ask.key \in Users
    <2>1. \/ n \in Cases /\ <<ask.key, n>> \in assigned /\ case_filter(ask.user, n)
          \/ n = ask.key /\ lab_wide(ask.user)
          \/ n = ask.key /\ \E c \in Cases : <<ask.key, c>> \in assigned /\ case_filter(ask.user, c)
      BY <1>2 DEF RowIn, Member
    <2>2. n \in Cases => Home(n) = n /\ n \notin Users
      BY HomeIs DEF Records
    <2>3. n \in Users => n \notin Records
      BY HomeIs
    <2>4. assigned \subseteq met
      BY DEF IInv, TypeOK, Shape
    <2> QED BY <1>2, <2>1, <2>2, <2>3, <2>4, FilterCould DEF IInv, Shown
  <1>3. CASE st \in ARule /\ ask.key \notin Records \cup Users
    BY <1>3 DEF RowIn, ARule, Shown
  <1>4. CASE st \in Names /\ ask.page \notin PeoplePages
    <2>1. n \in Users
      BY <1>4 DEF RowIn, Names
    <2> QED BY <1>4, <2>1, HomeIs DEF Shown
  <1> QED BY <1>1, <1>2, <1>3, <1>4

---------------------------------------------------------------------------
(* The graph.                                                              *)

\* Graph.node never goes beyond MAX_NODES.
LEMMA NodeStep ==
  ASSUME TypeOK, NEW rows \in SUBSET Things, Graph_node(rows)
  PROVE  /\ nodes \subseteq nodes' /\ nodes' \subseteq Things
         /\ Cardinality(nodes') <= MAX_NODES /\ truncated' \in BOOLEAN
  <1> DEFINE new == rows \ nodes
             room == MAX_NODES - Cardinality(nodes)
  <1>1. PICK kept \in SUBSET new :
          /\ Cardinality(kept) = IF Cardinality(new) > room THEN room ELSE Cardinality(new)
          /\ nodes' = nodes \cup kept
    BY DEF Graph_node
  <1>2. IsFiniteSet(nodes) /\ IsFiniteSet(new) /\ IsFiniteSet(kept)
    BY VisibilityAssumption, FS_Subset DEF TypeOK
  <1>3. Cardinality(nodes) \in Nat /\ Cardinality(kept) \in Nat /\ Cardinality(new) \in Nat
    BY <1>2, FS_CardinalityType
  <1>4. nodes \cap kept = {}
    OBVIOUS
  <1>5. Cardinality(nodes') = Cardinality(nodes) + Cardinality(kept)
    <2>1. Cardinality(nodes \cup kept)
            = Cardinality(nodes) + Cardinality(kept) - Cardinality(nodes \cap kept)
      BY <1>2, FS_Union
    <2>2. Cardinality(nodes \cap kept) = 0
      BY <1>4, FS_EmptySet
    <2> QED BY <1>1, <1>3, <2>1, <2>2
  <1>6. Cardinality(kept) <= room
    BY <1>1, <1>3, VisibilityAssumption DEF TypeOK
  <1>7. Cardinality(nodes') <= MAX_NODES
    BY <1>3, <1>5, <1>6, VisibilityAssumption
  <1>8. truncated' \in BOOLEAN
    BY DEF Graph_node
  <1>9. nodes \subseteq nodes' /\ nodes' \subseteq Things
    BY <1>1 DEF TypeOK
  <1> QED BY <1>7, <1>8, <1>9

LEMMA ForgetTyped ==
  ASSUME TypeOK, Forget
  PROVE  /\ seen' \subseteq Things /\ holders' \subseteq seen'
         /\ nodes' \subseteq Things /\ Cardinality(nodes') <= MAX_NODES
         /\ edges' \subseteq nodes' \X nodes' /\ truncated' \in BOOLEAN
  <1>1. Cardinality({}) = 0
    BY FS_EmptySet
  <1>2. Cardinality(nodes') <= MAX_NODES
    BY <1>1, VisibilityAssumption DEF Forget
  <1>3. truncated' \in BOOLEAN
    BY DEF Forget
  <1> QED BY <1>2, <1>3 DEF Forget

LEMMA ReadyMore ==
  ASSUME NEW T, NEW s \in Seq(T), s # <<>>
  PROVE  Head(s) \in T /\ Tail(s) \in Seq(T)
  BY HeadTailProperties

\* What Ready says of the first statement and of the others.
LEMMA ReadyHead ==
  ASSUME IInv, status = "reading", todo # <<>>
  PROVE  /\ \/ Head(todo) \in Free
            \/ Head(todo) \in ById /\ Could(Home(ask.key))
            \/ Head(todo) \in Feed /\ ask.page = "dashboard"
            \/ Head(todo) \in Member /\ ask.key \in Users
            \/ Head(todo) \in ARule /\ ask.key \notin Records \cup Users
            \/ Head(todo) \in Names /\ ask.page \notin PeoplePages
         /\ \/ Tail(todo) \in Seq(Free)
            \/ Tail(todo) \in Seq(Free \cup ById) /\ Could(Home(ask.key))
            \/ Tail(todo) \in Seq(Free \cup ById) /\ Head(todo).how = "key"
            \/ Tail(todo) \in Seq(Free \cup Feed) /\ ask.page = "dashboard"
            \/ Tail(todo) \in Seq(Free \cup Member) /\ ask.key \in Users
            \/ Tail(todo) \in Seq(Free \cup ARule) /\ ask.key \notin Records \cup Users
            \/ Tail(todo) \in Seq(Free \cup Names) /\ ask.page \notin PeoplePages
            \/ /\ Tail(todo) \in Seq(Free \cup ById \cup Names) /\ ask.page \notin PeoplePages
               /\ Could(Home(ask.key)) \/ Head(todo).how = "key"
  <1>1. CASE todo \in Seq(Free)
    BY <1>1, ReadyMore
  <1>2. CASE todo \in Seq(Free \cup ById) /\ Could(Home(ask.key))
    BY <1>2, ReadyMore
  <1>3. CASE todo \in Keyed
    <2>1. todo \in Seq(Free \cup ById) /\ Head(todo).how = "key"
      BY <1>3 DEF Keyed
    <2>2. Head(todo) \in Free \cup ById /\ Tail(todo) \in Seq(Free \cup ById)
      BY <2>1, ReadyMore
    <2>3. Head(todo) \in Free
      BY <2>1, <2>2 DEF ById
    <2> QED BY <2>1, <2>2, <2>3
  <1>4. CASE todo \in Seq(Free \cup Feed) /\ ask.page = "dashboard"
    BY <1>4, ReadyMore
  <1>5. CASE todo \in Seq(Free \cup Member) /\ ask.key \in Users
    BY <1>5, ReadyMore
  <1>6. CASE todo \in Seq(Free \cup ARule) /\ ask.key \notin Records \cup Users
    BY <1>6, ReadyMore
  <1>7. CASE todo \in Seq(Free \cup Names) /\ ask.page \notin PeoplePages
    BY <1>7, ReadyMore
  <1>8. CASE /\ todo \in Seq(Free \cup ById \cup Names) /\ ask.page \notin PeoplePages
             /\ Could(Home(ask.key))
    BY <1>8, ReadyMore
  <1>9. CASE todo \in KeyedNames /\ ask.page \notin PeoplePages
    <2>1. todo \in Seq(Free \cup ById \cup Names) /\ Head(todo).how = "key"
      BY <1>9 DEF KeyedNames
    <2>2. /\ Head(todo) \in Free \cup ById \cup Names
          /\ Tail(todo) \in Seq(Free \cup ById \cup Names)
      BY <2>1, ReadyMore
    <2>3. Head(todo) \in Free
      BY <2>1, <2>2 DEF ById, Names
    <2> QED BY <1>9, <2>1, <2>2, <2>3
  <1> QED BY <1>1, <1>2, <1>3, <1>4, <1>5, <1>6, <1>7, <1>8, <1>9 DEF IInv, Ready

---------------------------------------------------------------------------
(* The request.                                                            *)

LEMMA RowsShown ==
  ASSUME IInv, status = "reading", todo # <<>>, NEW n \in Rows(Head(todo))
  PROVE  Shown(n)
  <1>1. n \in Things /\ RowIn(Head(todo), n)
    BY DEF Rows
  <1> QED BY <1>1, ReadyHead, FreeShown, ByIdShown, OtherShown

LEMMA ReadStep ==
  ASSUME IInv, Read
  PROVE  IInv'
  <1>1. /\ status = "reading" /\ todo # <<>>
        /\ UNCHANGED <<assigned, there, links, hits, log, ask, met, before, steady>>
    BY DEF Read, data
  <1> DEFINE st == Head(todo)
             rows == Rows(st)
  <1>2. LinksInOneCase'
    BY <1>1 DEF IInv, LinksInOneCase
  <1>3. CASE Required(st) /\ rows = {}
    <2>1. status' = "refused" /\ todo' = <<>> /\ Forget
      BY <1>3 DEF Read
    <2>2. TypeOK'
      BY <1>1, <2>1, ForgetTyped DEF IInv, TypeOK
    <2>3. Shape'
      BY <1>1, <2>1 DEF IInv, Shape
    <2>4. Ready'
      BY <2>1 DEF Ready
    <2>5. ShownWasVisible'
      BY <2>1 DEF Forget, ShownWasVisible
    <2> QED BY <1>2, <2>2, <2>3, <2>4, <2>5 DEF IInv
  <1>4. CASE ~ (Required(st) /\ rows = {})
    <2>1. /\ seen' = seen \cup rows
          /\ holders' = IF st.how = "twins" THEN holders \cup rows ELSE holders
          /\ IF st.add THEN Graph_node(rows) ELSE UNCHANGED <<nodes, truncated>>
          /\ Graph_edge(rows, st.draw)
          /\ todo' = Tail(todo)
          /\ UNCHANGED status
      BY <1>4 DEF Read
    <2>2. rows \in SUBSET Things
      BY DEF Rows
    <2>3. /\ nodes \subseteq nodes' /\ nodes' \subseteq Things
          /\ Cardinality(nodes') <= MAX_NODES /\ truncated' \in BOOLEAN
      <3>1. CASE st.add
        BY <2>1, <2>2, <3>1, NodeStep DEF IInv
      <3>2. CASE ~ st.add
        BY <2>1, <3>2 DEF IInv, TypeOK
      <3> QED BY <3>1, <3>2
    <2>4. edges' \subseteq nodes' \X nodes'
      BY <2>1, <2>3 DEF Graph_edge, IInv, TypeOK
    <2>5. TypeOK'
      BY <1>1, <2>1, <2>2, <2>3, <2>4 DEF IInv, TypeOK
    <2>6. Shape'
      BY <1>1, <2>1 DEF IInv, Shape
    <2>7. Ready'
      <3>1. st.how = "key" => Could(Home(ask.key))
        <4> SUFFICES ASSUME st.how = "key" PROVE Could(Home(ask.key))
          OBVIOUS
        <4>1. rows # {}
          BY <1>4 DEF Required
        <4>2. PICK n \in rows : RowIn(st, n)
          BY <4>1 DEF Rows
        <4>3. case_filter(ask.user, Home(ask.key))
          BY <4>2 DEF RowIn
        <4> QED BY <1>1, <4>3, FilterCould DEF IInv
      <3>2. Could(Home(ask.key)) => Could(Home(ask.key))'
        BY <1>1 DEF Could
      <3> QED BY <1>1, <2>1, <3>1, <3>2, ReadyHead DEF Ready
    <2>8. ShownWasVisible'
      <3> SUFFICES ASSUME NEW n \in seen' PROVE Shown(n)'
        BY DEF ShownWasVisible, Shown
      <3>1. Shown(n)
        BY <1>1, <2>1, RowsShown DEF IInv, ShownWasVisible, Shown
      <3> QED BY <1>1, <3>1 DEF Shown, Could
    <2> QED BY <1>2, <2>5, <2>6, <2>7, <2>8 DEF IInv
  <1> QED BY <1>3, <1>4

LEMMA BeginStep ==
  ASSUME IInv, NEW u \in Users, NEW page \in Pages, NEW mode, NEW key \in Keys(page),
         Begin(u, page, key, mode)
  PROVE  IInv'
  <1>1. /\ status = "idle" /\ status' = "reading" /\ todo' = Statements(page, key)
        /\ met' = assigned /\ UNCHANGED <<assigned, there, links, hits, log, seen, holders>>
        /\ UNCHANGED <<nodes, edges, truncated>> /\ ask'.page = page /\ ask'.key = key
    BY DEF Begin, data, graph
  <1>2. seen = {}
    BY <1>1 DEF IInv, Shape
  <1>3. TypeOK' /\ Shape' /\ LinksInOneCase' /\ ShownWasVisible'
    BY <1>1, <1>2 DEF IInv, TypeOK, Shape, LinksInOneCase, ShownWasVisible
  <1>4. Ready'
    BY <1>1, PageList DEF Ready
  <1> QED BY <1>3, <1>4 DEF IInv

LEMMA AnswerStep ==
  ASSUME IInv, Answer
  PROVE  IInv'
  <1>1. /\ status = "reading" /\ status' = "answered"
        /\ UNCHANGED <<assigned, there, links, hits, log, ask, todo, seen, holders, met>>
        /\ UNCHANGED <<nodes, edges, truncated>>
    BY DEF Answer, data, graph
  <1>2. TypeOK' /\ Shape' /\ LinksInOneCase'
    BY <1>1 DEF IInv, TypeOK, Shape, LinksInOneCase
  <1>3. Ready' /\ ShownWasVisible'
    BY <1>1 DEF IInv, Ready, ShownWasVisible, Could
  <1> QED BY <1>2, <1>3 DEF IInv

LEMMA EndStep ==
  ASSUME IInv, End
  PROVE  IInv'
  <1>1. /\ status' = "idle" /\ todo' = <<>> /\ Forget
        /\ UNCHANGED <<assigned, there, links, hits, log>>
    BY DEF End, data
  <1>2. TypeOK'
    BY <1>1, ForgetTyped DEF IInv, TypeOK
  <1>3. Shape' /\ LinksInOneCase' /\ ShownWasVisible'
    BY <1>1 DEF IInv, Shape, LinksInOneCase, ShownWasVisible, Forget
  <1>4. Ready'
    BY <1>1 DEF Ready
  <1> QED BY <1>2, <1>3, <1>4 DEF IInv

---------------------------------------------------------------------------
(* Changes by others.                                                      *)

\* What has been shown stays right when others change the laboratory.
LEMMA ChangeStep ==
  ASSUME IInv, UNCHANGED <<status, ask, todo, seen, holders, nodes, edges, truncated>>,
         assigned' \subseteq Users \X Cases, there' \subseteq Records,
         links' \subseteq Items \X Items, hits' \in [Items -> SUBSET Rules],
         log' \subseteq Users \X Records,
         log \subseteq log', met \subseteq met', status # "idle" => assigned' \subseteq met',
         LinksInOneCase'
  PROVE  IInv'
  <1>1. TypeOK'
    BY DEF IInv, TypeOK
  <1>2. Shape'
    BY DEF IInv, Shape
  <1>3. Ready'
    BY DEF IInv, Ready, Could
  <1>4. ShownWasVisible'
    <2> SUFFICES ASSUME NEW n \in seen PROVE Shown(n)'
      BY DEF ShownWasVisible, Shown
    <2>1. Shown(n)
      BY DEF IInv, ShownWasVisible, Shown
    <2> QED BY <2>1 DEF Shown, Could
  <1> QED BY <1>1, <1>2, <1>3, <1>4 DEF IInv

LEMMA AssignmentSteps ==
  ASSUME IInv, NEW u \in Users, NEW c \in Cases,
         assign_investigator(u, c) \/ remove_investigator(u, c)
  PROVE  IInv'
  <1>1. /\ UNCHANGED <<status, ask, todo, seen, holders, nodes, edges, truncated>>
        /\ UNCHANGED <<there, links, hits, log>>
    BY DEF assign_investigator, remove_investigator, request, graph
  <1>2. LinksInOneCase'
    BY <1>1 DEF IInv, LinksInOneCase
  <1>3. /\ assigned' \subseteq Users \X Cases /\ met \subseteq met'
        /\ status # "idle" => assigned' \subseteq met'
    BY DEF assign_investigator, remove_investigator, IInv, TypeOK, Shape
  <1> QED BY <1>1, <1>2, <1>3, ChangeStep DEF IInv, TypeOK, Shape

LEMMA LinkStep ==
  ASSUME IInv, NEW a \in Items, NEW b \in Items, link(a, b)
  PROVE  IInv'
  <1>1. /\ UNCHANGED <<status, ask, todo, seen, holders, nodes, edges, truncated>>
        /\ UNCHANGED <<assigned, there, hits, log, met>> /\ links' = links \cup {<<a, b>>}
        /\ CaseOf[a] = CaseOf[b]
    BY DEF link, request, graph
  <1>2. links' \subseteq Items \X Items /\ LinksInOneCase'
    BY <1>1 DEF IInv, TypeOK, LinksInOneCase
  <1> QED BY <1>1, <1>2, ChangeStep DEF IInv, TypeOK, Shape

LEMMA RegisterStep ==
  ASSUME IInv, NEW u \in Users, NEW n \in Items, register(u, n)
  PROVE  IInv'
  <1>1. /\ UNCHANGED <<status, ask, todo, seen, holders, nodes, edges, truncated>>
        /\ UNCHANGED <<assigned, links, hits, met>>
    BY DEF register, request, graph
  <1>2. there' \subseteq Records /\ log' \subseteq Users \X Records /\ log \subseteq log'
    BY DEF register, IInv, TypeOK, Shape, Records
  <1>3. LinksInOneCase'
    BY <1>1 DEF IInv, LinksInOneCase
  <1> QED BY <1>1, <1>2, <1>3, ChangeStep DEF IInv, TypeOK, Shape

LEMMA AddArtifactStep ==
  ASSUME IInv, NEW u \in Users, NEW a \in Items, NEW x \in Items, NEW from \in SUBSET Items,
         add_artifact(u, a, x, from)
  PROVE  IInv'
  <1>1. /\ UNCHANGED <<status, ask, todo, seen, holders, nodes, edges, truncated>>
        /\ UNCHANGED <<assigned, hits, met>>
    BY DEF add_artifact, request, graph
  <1>2. there' \subseteq Records /\ log' \subseteq Users \X Records /\ log \subseteq log'
    BY DEF add_artifact, IInv, TypeOK, Shape, Records
  <1>3. /\ CaseOf[a] = CaseOf[x] /\ \A e \in from : <<x, e>> \in links
        /\ links' = links \cup {<<x, a>>} \cup {<<a, e>> : e \in from}
    BY DEF add_artifact
  <1>4. \A e \in from : CaseOf[x] = CaseOf[e]
    BY <1>3 DEF IInv, LinksInOneCase
  <1>5. links' \subseteq Items \X Items /\ LinksInOneCase'
    BY <1>3, <1>4 DEF IInv, TypeOK, LinksInOneCase
  <1> QED BY <1>1, <1>2, <1>5, ChangeStep DEF IInv, TypeOK, Shape

LEMMA DeleteCaseStep ==
  ASSUME IInv, NEW c \in Cases, delete_case(c)
  PROVE  IInv'
  <1>1. /\ UNCHANGED <<status, ask, todo, seen, holders, nodes, edges, truncated>>
        /\ UNCHANGED <<links, hits, log, met>> /\ there' \subseteq there /\ assigned' \subseteq assigned
    BY DEF delete_case, request, graph
  <1>2. LinksInOneCase'
    BY <1>1 DEF IInv, LinksInOneCase
  <1> QED BY <1>1, <1>2, ChangeStep DEF IInv, TypeOK, Shape

LEMMA ScanStep ==
  ASSUME IInv, NEW u \in Users, NEW n \in Items, NEW rs \in SUBSET Rules, scan_completes(u, n, rs)
  PROVE  IInv'
  <1>1. /\ UNCHANGED <<status, ask, todo, seen, holders, nodes, edges, truncated>>
        /\ UNCHANGED <<assigned, there, links, met>>
        /\ hits' = [hits EXCEPT ![n] = rs] /\ log' = log \cup {<<u, n>>}
    BY DEF scan_completes, request, graph
  <1>2. hits' \in [Items -> SUBSET Rules]
    BY <1>1 DEF IInv, TypeOK
  <1>3. log' \subseteq Users \X Records /\ log \subseteq log'
    BY <1>1 DEF IInv, Shape, Records
  <1>4. LinksInOneCase'
    BY <1>1 DEF IInv, LinksInOneCase
  <1> QED BY <1>1, <1>2, <1>3, <1>4, ChangeStep DEF IInv, TypeOK, Shape

---------------------------------------------------------------------------
(* The theorems.                                                           *)

LEMMA InitIInv ==
  ASSUME Init
  PROVE  IInv
  <1>1. Cardinality(nodes) <= MAX_NODES
    BY FS_EmptySet, VisibilityAssumption DEF Init
  <1>2. truncated \in BOOLEAN
    BY DEF Init
  <1>3. TypeOK
    BY <1>1, <1>2, VisibilityAssumption DEF Init, TypeOK
  <1>4. Shape /\ LinksInOneCase /\ ShownWasVisible
    BY VisibilityAssumption DEF Init, Shape, LinksInOneCase, ShownWasVisible
  <1>5. Ready
    BY DEF Init, Ready
  <1> QED BY <1>3, <1>4, <1>5 DEF IInv

LEMMA StutterIInv ==
  ASSUME IInv, UNCHANGED vars
  PROVE  IInv'
  <1>1. /\ UNCHANGED <<status, ask, todo, seen, holders, nodes, edges, truncated>>
        /\ UNCHANGED <<assigned, there, links, hits, log, met>>
    BY DEF vars, data, graph
  <1>2. LinksInOneCase'
    BY <1>1 DEF IInv, LinksInOneCase
  <1> QED BY <1>1, <1>2, ChangeStep DEF IInv, TypeOK, Shape

LEMMA NextIInv ==
  ASSUME IInv, Next
  PROVE  IInv'
  <1>1. ASSUME NEW from \in {{}} \cup {{e} : e \in Items} PROVE from \in SUBSET Items
    BY <1>1
  <1> QED BY <1>1, BeginStep, ReadStep, AnswerStep, EndStep, AssignmentSteps, RegisterStep,
            LinkStep, AddArtifactStep, DeleteCaseStep, ScanStep DEF Next

\* A graph keeps its cap and never has an edge to a node that was left out
\* (Graph.node, Graph.edge), for any cap and any laboratory.
THEOREM TypeCorrect == Spec => []TypeOK
  <1>1. IInv /\ [Next]_vars => IInv'
    BY NextIInv, StutterIInv
  <1>2. IInv => TypeOK
    BY DEF IInv
  <1> QED BY <1>1, <1>2, InitIInv, PTL DEF Spec

\* Whatever record a page, an API answer or a graph shows belongs to a case that
\* the reader could see at some moment of the request (Scope.case_filter), and
\* so are the people on PeoplePages on such a case, for any laboratory and any
\* number of changes between its statements.
THEOREM OnlyVisibleIsShown == Spec => []ShownWasVisible
  <1>1. IInv /\ [Next]_vars => IInv'
    BY NextIInv, StutterIInv
  <1>2. IInv => ShownWasVisible
    BY DEF IInv
  <1> QED BY <1>1, <1>2, InitIInv, PTL DEF Spec

---------------------------------------------------------------------------
(* The graph of a case is whole.                                           *)

\* The statements of case_graph after the first i.
Left(i) == SubSeq(case_graph, i + 1, 12)

\* The records of a kind that the case had when the request began.
Had(kind) == {n \in before.there \cap Items : KindOf[n] = kind /\ CaseOf[n] = ask.key}

\* Its links between two kinds.
HadLinks(a, b) == {l \in before.links : /\ KindOf[l[1]] = a /\ KindOf[l[2]] = b
                                        /\ CaseOf[l[1]] = ask.key}

\* The rules its items have matched ever since.
HadRules == {m \in steady : CaseOf[m[1]] = ask.key}

\* What is in the graph after i statements of case_graph.
Done(i) ==
  /\ i >= 1 => ask.key \in nodes
  /\ i >= 3 => Had("evidence") \subseteq nodes \cap seen
  /\ i >= 4 => Had("exam") \subseteq nodes
  /\ i >= 5 => HadLinks("exam", "evidence") \subseteq edges
  /\ i >= 6 => Had("report") \subseteq nodes
  /\ i >= 7 => HadLinks("report", "exam") \subseteq edges
  /\ i >= 8 => /\ Had("artifact") \subseteq nodes
               /\ HadLinks("exam", "artifact") \subseteq edges
               /\ HadLinks("artifact", "evidence") \subseteq edges
  /\ i >= 9 => HadRules \subseteq edges

OfACase == ask.page \in {"graph", "expand"} /\ ask.key \in Cases

\* How far a case graph is, and what it holds by then.
Whole ==
  status \in {"reading", "answered"} /\ OfACase =>
    \/ status = "reading" /\ todo = <<Find("case")>> \o case_graph
    \/ \E i \in 0 .. 12 : /\ todo = Left(i) /\ (truncated \/ Done(i))
                          /\ status = "answered" => i = 12

\* Links join records that exist, and neither ever goes; only evidence is
\* scanned, and a match in force all along is in force now.
Kept ==
  /\ \A n \in Items : hits[n] # {} => KindOf[n] = "evidence"
  /\ links \subseteq (there \cap Items) \X (there \cap Items)
  /\ \A l \in links : <<KindOf[l[1]], KindOf[l[2]]>> \in LinkKinds \cup ArtifactKinds
  /\ status # "idle" =>
       /\ before.there \subseteq Records /\ before.there \cap Items \subseteq there
       /\ before.links \subseteq links
       /\ before.links \subseteq (before.there \cap Items) \X (before.there \cap Items)
       /\ steady \subseteq (before.there \cap Items) \X Rules
       /\ \A m \in steady : m[2] \in hits[m[1]]

GInv == Kept /\ Whole

LEMMA CaseGraphIs ==
  /\ case_graph \in Seq(Free \cup ById) /\ Len(case_graph) = 12
  /\ case_graph[1] = G("key", {"case"}, {})
  /\ case_graph[3] = G("case", {"evidence"}, {<<"case", "evidence">>})
  /\ case_graph[4] = G("case", {"exam"}, {<<"case", "exam">>})
  /\ case_graph[5] = Links({"exam"}, {<<"exam", "evidence">>})
  /\ case_graph[6] = G("case", {"report"}, {<<"case", "report">>})
  /\ case_graph[7] = Links({"report"}, {<<"report", "exam">>})
  /\ case_graph[8] = G("case", {"artifact"}, {<<"exam", "artifact">>, <<"artifact", "evidence">>})
  /\ case_graph[9] = G("rules", {"rule"}, {<<"evidence", "rule">>})
  <1>1. case_graph \in Seq(Free \cup ById)
    BY CaseGraphList DEF Keyed
  <1>2. PICK own : own = <<G("key", {"case"}, {}), G("people", {"user"}, {<<"user", "case">>}),
    G("case", {"evidence"}, {<<"case", "evidence">>}),
    G("case", {"exam"}, {<<"case", "exam">>}),
    Links({"exam"}, {<<"exam", "evidence">>}),
    G("case", {"report"}, {<<"case", "report">>}),
    Links({"report"}, {<<"report", "exam">>}),
    G("case", {"artifact"}, {<<"exam", "artifact">>, <<"artifact", "evidence">>})>>
    OBVIOUS
  <1>3. case_graph = own \o add_yara \o add_hash_links
    BY <1>2 DEF case_graph
  <1> DEFINE any == {own[k] : k \in 1 .. 8} \cup Free
  <1>4. own \in Seq(any) /\ Len(own) = 8
    BY <1>2
  <1>5. add_yara \in Seq(any) /\ add_hash_links \in Seq(any)
    BY AddLists
  <1>6. Len(add_yara) = 1 /\ Len(add_hash_links) = 3
        /\ add_yara[1] = G("rules", {"rule"}, {<<"evidence", "rule">>})
    BY DEF add_yara, add_hash_links
  <1> HIDE DEF any
  <1>7. PICK two : two = own \o add_yara
    OBVIOUS
  <1>8. /\ two \in Seq(any) /\ Len(two) = 9 /\ two[9] = add_yara[1]
        /\ \A k \in 1 .. 8 : two[k] = own[k]
    <2>1. /\ own \o add_yara \in Seq(any)
          /\ Len(own \o add_yara) = Len(own) + Len(add_yara)
          /\ \A k \in 1 .. Len(own) + Len(add_yara) :
               (own \o add_yara)[k] = IF k <= Len(own) THEN own[k] ELSE add_yara[k - Len(own)]
      BY <1>4, <1>5, ConcatProperties
    <2>2. /\ two \in Seq(any) /\ Len(two) = 8 + 1
          /\ \A k \in 1 .. 9 : two[k] = IF k <= 8 THEN own[k] ELSE add_yara[k - 8]
      BY <1>4, <1>6, <1>7, <2>1
    <2>3. two[9] = add_yara[1]
      BY <2>2
    <2> QED BY <2>2, <2>3
  <1>9. case_graph = two \o add_hash_links
    BY <1>3, <1>7
  <1>10. Len(case_graph) = 12 /\ \A k \in 1 .. 9 : case_graph[k] = two[k]
    <2>1. /\ Len(two \o add_hash_links) = Len(two) + Len(add_hash_links)
          /\ \A k \in 1 .. Len(two) + Len(add_hash_links) :
               (two \o add_hash_links)[k]
                 = IF k <= Len(two) THEN two[k] ELSE add_hash_links[k - Len(two)]
      BY <1>5, <1>8, ConcatProperties
    <2>2. /\ Len(case_graph) = 9 + 3
          /\ \A k \in 1 .. 12 : case_graph[k] = IF k <= 9 THEN two[k] ELSE add_hash_links[k - 9]
      BY <1>6, <1>8, <1>9, <2>1
    <2> QED BY <2>2
  <1>11. /\ case_graph[9] = add_yara[1]
         /\ \A k \in 1 .. 8 : case_graph[k] = own[k]
    BY <1>8, <1>10
  <1> QED BY <1>1, <1>2, <1>6, <1>10, <1>11

LEMMA LeftIs ==
  /\ Left(0) = case_graph /\ Left(12) = <<>>
  /\ \A i \in 0 .. 11 : /\ Left(i) # <<>> /\ Head(Left(i)) = case_graph[i + 1]
                        /\ Tail(Left(i)) = Left(i + 1)
  <1>1. case_graph \in Seq(Free \cup ById) /\ Len(case_graph) = 12
    BY CaseGraphIs
  <1>2. Left(0) = case_graph
    BY <1>1, SubSeqFull DEF Left
  <1>3. Left(12) = <<>>
    BY SubSeqEmpty DEF Left
  <1>4. ASSUME NEW i \in 0 .. 11
        PROVE  /\ Left(i) # <<>> /\ Head(Left(i)) = case_graph[i + 1]
               /\ Tail(Left(i)) = Left(i + 1)
    <2>1. i + 1 \in 1 .. 12 /\ 12 \in (i + 1) .. 12 /\ i + 1 \in Int
      OBVIOUS
    <2>2. \A k \in (i + 1) .. 12 : case_graph[k] \in Free \cup ById
      <3>1. \A k \in (i + 1) .. 12 : k \in 1 .. Len(case_graph)
        BY <1>1
      <3> QED BY <1>1, <3>1, ElementOfSeq
    <2>3. Len(Left(i)) = 12 - (i + 1) + 1
      BY <2>1, <2>2, SubSeqProperties DEF Left
    <2>4. Left(i) # <<>>
      BY <2>1, <2>3
    <2>5. Head(SubSeq(case_graph, i + 1, 12)) = case_graph[i + 1]
          /\ Tail(SubSeq(case_graph, i + 1, 12)) = SubSeq(case_graph, i + 1 + 1, 12)
      BY <1>1, <2>1, HeadTailOfSubSeq
    <2> QED BY <2>4, <2>5 DEF Left
  <1> QED BY <1>2, <1>3, <1>4

LEMMA FindFirst ==
  LET s == <<Find("case")>> \o case_graph IN
  s # <<>> /\ Head(s) = Find("case") /\ Tail(s) = case_graph
  <1>1. Find("case") \in Free \cup ById /\ case_graph \in Seq(Free \cup ById)
    BY CaseGraphIs, Elements DEF Kinds
  <1> HIDE DEF Find
  <1> QED BY <1>1

\* A graph that does not say it was truncated has taken every row.
LEMMA AllTaken ==
  ASSUME TypeOK, NEW rows \in SUBSET Things, Graph_node(rows), ~ truncated'
  PROVE  rows \subseteq nodes'
  <1> DEFINE new == rows \ nodes
             room == MAX_NODES - Cardinality(nodes)
  <1>1. PICK kept \in SUBSET new :
          /\ Cardinality(kept) = IF Cardinality(new) > room THEN room ELSE Cardinality(new)
          /\ nodes' = nodes \cup kept
    BY DEF Graph_node
  <1>2. ~ (Cardinality(new) > room)
    BY DEF Graph_node
  <1>3. IsFiniteSet(new)
    BY VisibilityAssumption, FS_Subset
  <1>4. Cardinality(kept) = Cardinality(new)
    BY <1>1, <1>2
  <1>5. kept = new
    BY <1>3, <1>4, FS_Subset
  <1> QED BY <1>1, <1>5

\* A record the case had is found by a statement about its kind.
LEMMA HadFound ==
  ASSUME IInv, GInv, status # "idle", OfACase, NEW kind, NEW st,
         st.how = "case", kind \in st.kinds
  PROVE  Had(kind) \subseteq Rows(st)
  <1> SUFFICES ASSUME NEW n \in Had(kind) PROVE n \in Rows(st)
    OBVIOUS
  <1>1. n \in before.there \cap Items /\ KindOf[n] = kind /\ CaseOf[n] = ask.key
    BY DEF Had
  <1>2. n \in there /\ n \in Things /\ n \notin Cases
    BY <1>1, VisibilityAssumption DEF GInv, Kept, Things, Records
  <1>3. Kind(n) = kind /\ Home(n) = ask.key /\ Home(ask.key) = ask.key
    BY <1>1, <1>2 DEF Kind, Home, OfACase
  <1> QED BY <1>2, <1>3 DEF Rows, RowIn

\* The ends of a link the case had are records the case had.
LEMMA HadEnds ==
  ASSUME IInv, GInv, status # "idle", NEW a, NEW b, NEW l \in HadLinks(a, b)
  PROVE  /\ l = <<l[1], l[2]>> /\ l[1] \in Had(a) /\ l[2] \in Had(b) /\ l \in links
  <1>1. l \in before.links /\ KindOf[l[1]] = a /\ KindOf[l[2]] = b /\ CaseOf[l[1]] = ask.key
    BY DEF HadLinks
  <1>2. l \in links /\ l \in (before.there \cap Items) \X (before.there \cap Items)
    BY <1>1 DEF GInv, Kept
  <1>3. CaseOf[l[1]] = CaseOf[l[2]]
    BY <1>2 DEF IInv, LinksInOneCase
  <1> QED BY <1>1, <1>2, <1>3 DEF Had

\* A link the case had is drawn with the rows of one of its ends.
LEMMA HadDrawn ==
  ASSUME IInv, GInv, status # "idle", UNCHANGED links, NEW a, NEW b, NEW c \in {a, b}, NEW rows,
         NEW draw,
         <<a, b>> \in draw, Graph_edge(rows, draw), Had(c) \subseteq rows,
         Had(a) \subseteq nodes', Had(b) \subseteq nodes'
  PROVE  HadLinks(a, b) \subseteq edges'
  <1> SUFFICES ASSUME NEW l \in HadLinks(a, b) PROVE l \in edges'
    OBVIOUS
  <1>1. l = <<l[1], l[2]>> /\ l[1] \in Had(a) /\ l[2] \in Had(b) /\ l \in links
    BY HadEnds
  <1>2. ASSUME NEW k, NEW n \in Had(k) PROVE Kind(n) = k
    BY <1>2, VisibilityAssumption DEF Had, Kind
  <1>3. Kind(l[1]) = a /\ Kind(l[2]) = b
    BY <1>1, <1>2
  <1>4. Related(l[1], l[2])
    BY <1>1 DEF Related
  <1>5. l[1] \in rows \/ l[2] \in rows
    BY <1>1
  <1>6. l \in nodes' \X nodes'
    BY <1>1
  <1> QED BY <1>3, <1>4, <1>5, <1>6 DEF Graph_edge

\* A read that goes on loses nothing.
LEMMA GoesOn ==
  ASSUME IInv, Read, NEW i \in 0 .. 11, Done(i), nodes \subseteq nodes', edges \subseteq edges',
         seen \subseteq seen'
  PROVE  /\ \A kind : Had(kind)' = Had(kind)
         /\ \A a, b : HadLinks(a, b)' = HadLinks(a, b)
         /\ HadRules' = HadRules
         /\ i >= 1 => ask'.key \in nodes'
         /\ i >= 3 => Had("evidence") \subseteq nodes' \cap seen'
         /\ i >= 4 => Had("exam") \subseteq nodes'
         /\ i >= 5 => HadLinks("exam", "evidence") \subseteq edges'
         /\ i >= 6 => Had("report") \subseteq nodes'
         /\ i >= 7 => HadLinks("report", "exam") \subseteq edges'
         /\ i >= 8 => /\ Had("artifact") \subseteq nodes'
                      /\ HadLinks("exam", "artifact") \subseteq edges'
                      /\ HadLinks("artifact", "evidence") \subseteq edges'
         /\ i >= 9 => HadRules \subseteq edges'
  <1>1. UNCHANGED <<ask, before, steady>>
    BY DEF Read
  <1>2. /\ \A kind : Had(kind)' = Had(kind)
        /\ \A a, b : HadLinks(a, b)' = HadLinks(a, b)
        /\ HadRules' = HadRules
    BY <1>1 DEF Had, HadLinks, HadRules
  <1> QED BY <1>1, <1>2 DEF Done

LEMMA CaseGraphFields ==
  /\ case_graph[1].how = "key" /\ case_graph[1].kinds = {"case"} /\ case_graph[1].add
  /\ \A k \in {3, 4, 5, 6, 7, 8} : case_graph[k].how = "case"
  /\ \A k \in {3, 4, 6, 8, 9} : case_graph[k].add
  /\ case_graph[3].kinds = {"evidence"}
  /\ case_graph[4].kinds = {"exam"}
  /\ case_graph[5].kinds = {"exam"} /\ case_graph[5].draw = {<<"exam", "evidence">>}
  /\ case_graph[6].kinds = {"report"}
  /\ case_graph[7].kinds = {"report"} /\ case_graph[7].draw = {<<"report", "exam">>}
  /\ case_graph[8].kinds = {"artifact"}
  /\ case_graph[8].draw = {<<"exam", "artifact">>, <<"artifact", "evidence">>}
  /\ case_graph[9].how = "rules" /\ case_graph[9].kinds = {"rule"}
  /\ case_graph[9].draw = {<<"evidence", "rule">>}
  BY CaseGraphIs DEF G, Links

LEMMA CaseGraphStep ==
  ASSUME IInv, GInv, Read, OfACase, NEW i \in 0 .. 11, todo = Left(i), Done(i), ~ truncated',
         seen' = seen \cup Rows(Head(todo)),
         Graph_edge(Rows(Head(todo)), Head(todo).draw),
         nodes \subseteq nodes', Head(todo).add => Rows(Head(todo)) \subseteq nodes',
         Required(Head(todo)) => Rows(Head(todo)) # {}
  PROVE  Done(i + 1)'
  <1> DEFINE st == Head(todo)
             rows == Rows(st)
  <1>1. st = case_graph[i + 1] /\ status = "reading" /\ UNCHANGED links
    BY LeftIs DEF Read, data
  <1>2. edges \subseteq edges' /\ seen \subseteq seen' /\ rows \subseteq seen'
    BY DEF Graph_edge
  <1>3. /\ \A kind : Had(kind)' = Had(kind)
        /\ \A a, b : HadLinks(a, b)' = HadLinks(a, b)
        /\ HadRules' = HadRules
        /\ i >= 1 => ask'.key \in nodes'
        /\ i >= 3 => Had("evidence") \subseteq nodes' \cap seen'
        /\ i >= 4 => Had("exam") \subseteq nodes'
        /\ i >= 5 => HadLinks("exam", "evidence") \subseteq edges'
        /\ i >= 6 => Had("report") \subseteq nodes'
        /\ i >= 7 => HadLinks("report", "exam") \subseteq edges'
        /\ i >= 8 => /\ Had("artifact") \subseteq nodes'
                     /\ HadLinks("exam", "artifact") \subseteq edges'
                     /\ HadLinks("artifact", "evidence") \subseteq edges'
        /\ i >= 9 => HadRules \subseteq edges'
    BY <1>2, GoesOn
  <1>4. i + 1 = 1 => ask'.key \in nodes'
    <2> SUFFICES ASSUME i + 1 = 1 PROVE ask'.key \in nodes'
      OBVIOUS
    <2>1. st.how = "key" /\ st.kinds = {"case"} /\ st.add
      BY <1>1, CaseGraphFields
    <2>2. PICK n \in rows : RowIn(st, n)
      BY <2>1 DEF Required, Rows
    <2>3. n = ask.key
      BY <2>1, <2>2 DEF RowIn, Home, OfACase
    <2> QED BY <2>1, <2>3 DEF Read
  <1>5. ASSUME NEW kind, st.how = "case", kind \in st.kinds
        PROVE  Had(kind) \subseteq rows
    BY <1>1, <1>5, HadFound
  <1>6. i + 1 = 3 => Had("evidence") \subseteq nodes' \cap seen'
    <2> SUFFICES ASSUME i + 1 = 3 PROVE Had("evidence") \subseteq nodes' \cap seen'
      OBVIOUS
    <2>1. st.how = "case" /\ st.kinds = {"evidence"} /\ st.add
      BY <1>1, CaseGraphFields
    <2> QED BY <1>2, <1>5, <2>1
  <1>7. i + 1 = 4 => Had("exam") \subseteq nodes'
    <2> SUFFICES ASSUME i + 1 = 4 PROVE Had("exam") \subseteq nodes'
      OBVIOUS
    <2>1. st.how = "case" /\ st.kinds = {"exam"} /\ st.add
      BY <1>1, CaseGraphFields
    <2> QED BY <1>5, <2>1
  <1>8. i + 1 = 5 => HadLinks("exam", "evidence") \subseteq edges'
    <2> SUFFICES ASSUME i + 1 = 5 PROVE HadLinks("exam", "evidence") \subseteq edges'
      OBVIOUS
    <2>1. st.how = "case" /\ st.kinds = {"exam"} /\ st.draw = {<<"exam", "evidence">>}
      BY <1>1, CaseGraphFields
    <2>2. Had("exam") \subseteq rows /\ <<"exam", "evidence">> \in st.draw
      BY <1>5, <2>1
    <2>3. Had("exam") \subseteq nodes' /\ Had("evidence") \subseteq nodes'
      BY <1>3
    <2> QED BY <1>1, <2>2, <2>3, HadDrawn
  <1>9. i + 1 = 6 => Had("report") \subseteq nodes'
    <2> SUFFICES ASSUME i + 1 = 6 PROVE Had("report") \subseteq nodes'
      OBVIOUS
    <2>1. st.how = "case" /\ st.kinds = {"report"} /\ st.add
      BY <1>1, CaseGraphFields
    <2> QED BY <1>5, <2>1
  <1>10. i + 1 = 7 => HadLinks("report", "exam") \subseteq edges'
    <2> SUFFICES ASSUME i + 1 = 7 PROVE HadLinks("report", "exam") \subseteq edges'
      OBVIOUS
    <2>1. st.how = "case" /\ st.kinds = {"report"} /\ st.draw = {<<"report", "exam">>}
      BY <1>1, CaseGraphFields
    <2>2. Had("report") \subseteq rows /\ <<"report", "exam">> \in st.draw
      BY <1>5, <2>1
    <2>3. Had("exam") \subseteq nodes' /\ Had("report") \subseteq nodes'
      BY <1>3
    <2> QED BY <1>1, <2>2, <2>3, HadDrawn
  <1>11. i + 1 = 8 => /\ Had("artifact") \subseteq nodes'
                      /\ HadLinks("exam", "artifact") \subseteq edges'
                      /\ HadLinks("artifact", "evidence") \subseteq edges'
    <2> SUFFICES ASSUME i + 1 = 8
                 PROVE  /\ Had("artifact") \subseteq nodes'
                        /\ HadLinks("exam", "artifact") \subseteq edges'
                        /\ HadLinks("artifact", "evidence") \subseteq edges'
      OBVIOUS
    <2>1. /\ st.how = "case" /\ st.kinds = {"artifact"} /\ st.add
          /\ st.draw = {<<"exam", "artifact">>, <<"artifact", "evidence">>}
      BY <1>1, CaseGraphFields
    <2>2. /\ Had("artifact") \subseteq rows /\ <<"exam", "artifact">> \in st.draw
          /\ <<"artifact", "evidence">> \in st.draw
      BY <1>5, <2>1
    <2>3. /\ Had("exam") \subseteq nodes' /\ Had("evidence") \subseteq nodes'
          /\ Had("artifact") \subseteq nodes'
      BY <1>3, <2>1, <2>2
    <2>4. HadLinks("exam", "artifact") \subseteq edges'
      BY <1>1, <2>2, <2>3, HadDrawn
    <2>5. HadLinks("artifact", "evidence") \subseteq edges'
      BY <1>1, <2>2, <2>3, HadDrawn
    <2> QED BY <2>3, <2>4, <2>5
  <1>12. i + 1 = 9 => HadRules \subseteq edges'
    <2> SUFFICES ASSUME i + 1 = 9, NEW e \in HadRules PROVE e \in edges'
      OBVIOUS
    <2>1. /\ st.how = "rules" /\ st.kinds = {"rule"} /\ st.add
          /\ st.draw = {<<"evidence", "rule">>}
      BY <1>1, CaseGraphFields
    <2>2. /\ e = <<e[1], e[2]>> /\ e[1] \in Had("evidence") /\ e[2] \in Rules
          /\ e[2] \in hits[e[1]]
      BY <1>1 DEF HadRules, Had, GInv, Kept
    <2>3. e[1] \in seen \cap Items /\ KindOf[e[1]] = "evidence" /\ e[1] \in nodes'
      BY <2>2 DEF Done, Had
    <2>4. e[2] \in rows
      BY <2>1, <2>2, <2>3 DEF Rows, RowIn, Things
    <2>5. e[2] \in nodes'
      BY <2>1, <2>4
    <2>6. Kind(e[1]) = "evidence"
      BY <2>3, VisibilityAssumption DEF Kind
    <2>7. Kind(e[2]) = "rule"
      BY <2>2, VisibilityAssumption DEF Kind, Records
    <2>8. Related(e[1], e[2])
      BY <2>2, <2>3 DEF Related
    <2>9. e \in nodes' \X nodes' /\ <<Kind(e[1]), Kind(e[2])>> \in st.draw
      BY <2>1, <2>2, <2>3, <2>5, <2>6, <2>7
    <2> QED BY <2>4, <2>8, <2>9 DEF Graph_edge
  <1> HIDE DEF st, rows
  <1>13. i \in Int /\ \A k \in 1 .. 12 : i + 1 >= k => i >= k \/ i + 1 = k
    OBVIOUS
  <1> QED BY <1>3, <1>4, <1>6, <1>7, <1>8, <1>9, <1>10, <1>11, <1>12, <1>13 DEF Done

LEMMA ReadGInv ==
  ASSUME IInv, GInv, Read
  PROVE  GInv'
  <1>1. /\ status = "reading" /\ todo # <<>>
        /\ UNCHANGED <<assigned, there, links, hits, log, ask, met, before, steady>>
    BY DEF Read, data
  <1> DEFINE st == Head(todo)
             rows == Rows(st)
  <1>2. Kept'
    BY <1>1 DEF GInv, Kept, Read
  <1>3. CASE Required(st) /\ rows = {}
    BY <1>2, <1>3 DEF Read, GInv, Whole
  <1>4. CASE ~ (Required(st) /\ rows = {})
    <2>1. /\ seen' = seen \cup rows
          /\ IF st.add THEN Graph_node(rows) ELSE UNCHANGED <<nodes, truncated>>
          /\ Graph_edge(rows, st.draw)
          /\ todo' = Tail(todo)
          /\ status' = "reading"
      BY <1>1, <1>4 DEF Read
    <2>2. rows \in SUBSET Things
      BY DEF Rows
    <2>3. nodes \subseteq nodes' /\ (truncated => truncated')
      BY <2>1 DEF Graph_node
    <2>4. ASSUME ~ truncated' PROVE st.add => rows \subseteq nodes'
      BY <2>1, <2>2, <2>4, AllTaken DEF IInv
    <2> SUFFICES ASSUME OfACase
                 PROVE  \E i \in 0 .. 12 : todo' = Left(i) /\ (truncated' \/ Done(i)')
      BY <1>1, <1>2, <2>1 DEF GInv, Whole, OfACase
    <2>5. CASE todo = <<Find("case")>> \o case_graph
      <3>1. todo' = Left(0)
        BY <2>1, <2>5, FindFirst, LeftIs
      <3>2. Done(0)'
        BY DEF Done
      <3> QED BY <3>1, <3>2
    <2>6. CASE \E i \in 0 .. 12 : todo = Left(i) /\ (truncated \/ Done(i))
      <3>1. PICK i \in 0 .. 12 : todo = Left(i) /\ (truncated \/ Done(i))
        BY <2>6
      <3>2. i \in 0 .. 11
        BY <1>1, <3>1, LeftIs
      <3>3. todo' = Left(i + 1)
        BY <2>1, <3>1, <3>2, LeftIs
      <3>4. ASSUME ~ truncated' PROVE Done(i + 1)'
        <4>1. Done(i)
          BY <2>3, <3>1, <3>4
        <4> QED BY <1>4, <2>1, <2>3, <2>4, <3>1, <3>2, <3>4, <4>1, CaseGraphStep
      <3> QED BY <3>2, <3>3, <3>4
    <2> QED BY <1>1, <2>5, <2>6 DEF GInv, Whole
  <1> QED BY <1>3, <1>4

LEMMA BeginGInv ==
  ASSUME IInv, GInv, NEW u \in Users, NEW page \in Pages, NEW mode, NEW key \in Keys(page),
         Begin(u, page, key, mode)
  PROVE  GInv'
  <1>1. /\ status' = "reading" /\ todo' = Statements(page, key)
        /\ before' = [there |-> there, links |-> links] /\ UNCHANGED <<there, links, hits>>
        /\ steady' = {m \in (there \cap Items) \X Rules : m[2] \in hits[m[1]]}
        /\ ask'.page = page /\ ask'.key = key
    BY DEF Begin, data
  <1>2. Kept'
    BY <1>1 DEF GInv, Kept, IInv, TypeOK
  <1>3. ASSUME page \in {"graph", "expand"}, key \in Cases
        PROVE  todo' = <<Find("case")>> \o case_graph \/ (todo' = Left(0) /\ Done(0)')
    <2>1. CASE page = "graph"
      <3>1. todo' = Left(0)
        BY <1>1, <2>1, LeftIs DEF Statements
      <3>2. Done(0)'
        BY DEF Done
      <3> QED BY <3>1, <3>2
    <2>2. CASE page = "expand"
      <3>1. Kind(key) = "case"
        BY <1>3 DEF Kind
      <3> QED BY <1>1, <2>2, <3>1 DEF Statements, expand
    <2> QED BY <1>3, <2>1, <2>2
  <1>4. Whole'
    BY <1>1, <1>3 DEF Whole, OfACase
  <1> QED BY <1>2, <1>4 DEF GInv

LEMMA AnswerGInv ==
  ASSUME IInv, GInv, Answer
  PROVE  GInv'
  <1>1. /\ status = "reading" /\ status' = "answered" /\ todo = <<>>
        /\ UNCHANGED <<there, links, hits, ask, todo, seen, nodes, edges, truncated, before, steady>>
    BY DEF Answer, data, graph
  <1>2. Kept'
    BY <1>1 DEF GInv, Kept
  <1>3. ASSUME OfACase PROVE todo = Left(12) /\ (truncated \/ Done(12))
    <2>1. todo # <<Find("case")>> \o case_graph
      BY <1>1, FindFirst
    <2>2. PICK i \in 0 .. 12 : todo = Left(i) /\ (truncated \/ Done(i))
      BY <1>1, <1>3, <2>1 DEF GInv, Whole
    <2>3. i = 12
      <3>1. Left(i) = <<>>
        BY <1>1, <2>2
      <3>2. i \notin 0 .. 11
        BY <3>1, LeftIs
      <3> QED BY <3>2
    <2> QED BY <2>2, <2>3
  <1>4. Done(12) => Done(12)'
    BY <1>1 DEF Done, Had, HadLinks, HadRules
  <1>5. OfACase' => OfACase
    BY <1>1 DEF OfACase
  <1>6. todo' = todo /\ truncated' = truncated /\ status' = "answered"
    BY <1>1
  <1>7. OfACase' => todo' = Left(12) /\ (truncated' \/ Done(12)')
    BY <1>3, <1>4, <1>5, <1>6
  <1>8. Whole'
    BY <1>7 DEF Whole
  <1> QED BY <1>2, <1>8 DEF GInv

LEMMA EndGInv ==
  ASSUME IInv, GInv, End
  PROVE  GInv'
  BY DEF End, data, GInv, Kept, Whole

\* A change by others leaves the request alone.
LEMMA ChangeGInv ==
  ASSUME IInv, GInv, UNCHANGED <<status, ask, todo, seen, nodes, edges, truncated, before>>,
         steady' \subseteq steady, Kept'
  PROVE  GInv'
  <1>1. ASSUME NEW i \in 0 .. 12, Done(i) PROVE Done(i)'
    BY <1>1 DEF Done, Had, HadLinks, HadRules
  <1>2. Whole'
    <2> SUFFICES ASSUME status \in {"reading", "answered"}, OfACase
                 PROVE  \/ status' = "reading" /\ todo' = <<Find("case")>> \o case_graph
                        \/ \E i \in 0 .. 12 : /\ todo' = Left(i) /\ (truncated' \/ Done(i)')
                                              /\ status' = "answered" => i = 12
      BY DEF Whole, OfACase
    <2>1. CASE status = "reading" /\ todo = <<Find("case")>> \o case_graph
      BY <2>1
    <2>2. CASE ~ (status = "reading" /\ todo = <<Find("case")>> \o case_graph)
      <3>1. PICK i \in 0 .. 12 : /\ todo = Left(i) /\ (truncated \/ Done(i))
                                 /\ status = "answered" => i = 12
        BY <2>2 DEF GInv, Whole
      <3>2. todo' = Left(i) /\ (status' = "answered" => i = 12)
        BY <3>1
      <3>3. truncated' \/ Done(i)'
        BY <1>1, <3>1
      <3> QED BY <3>2, <3>3
    <2> QED BY <2>1, <2>2
  <1> QED BY <1>2 DEF GInv

LEMMA ChangesGInv ==
  ASSUME IInv, GInv,
         \/ \E u \in Users, c \in Cases : assign_investigator(u, c) \/ remove_investigator(u, c)
         \/ \E u \in Users, n \in Items : register(u, n)
         \/ \E a, b \in Items : link(a, b)
         \/ \E u \in Users, a, x \in Items, from \in SUBSET Items : add_artifact(u, a, x, from)
         \/ \E c \in Cases : delete_case(c)
         \/ \E u \in Users, n \in Items, rs \in SUBSET Rules : scan_completes(u, n, rs)
         \/ UNCHANGED vars
  PROVE  GInv'
  <1>1. UNCHANGED <<status, ask, todo, seen, nodes, edges, truncated, before>>
    BY DEF assign_investigator, remove_investigator, register, link, add_artifact, delete_case,
           scan_completes, request, graph, vars
  <1>2. ASSUME UNCHANGED <<links, hits, steady>>, there \cap Items \subseteq there' PROVE GInv'
    <2>1. Kept'
      BY <1>1, <1>2 DEF GInv, Kept
    <2> QED BY <1>1, <1>2, <2>1, ChangeGInv
  <1>3. CASE \E u \in Users, c \in Cases : assign_investigator(u, c) \/ remove_investigator(u, c)
    BY <1>2, <1>3 DEF assign_investigator, remove_investigator
  <1>4. CASE \E u \in Users, n \in Items : register(u, n)
    BY <1>2, <1>4 DEF register
  <1>5. CASE \E a, b \in Items : link(a, b)
    <2>1. PICK a \in Items, b \in Items : link(a, b)
      BY <1>5
    <2>2. Kept' /\ steady' = steady
      BY <1>1, <2>1 DEF link, GInv, Kept
    <2> QED BY <1>1, <2>2, ChangeGInv
  <1>6. CASE \E u \in Users, a, x \in Items, from \in SUBSET Items : add_artifact(u, a, x, from)
    <2>1. PICK u \in Users, a \in Items, x \in Items, from \in SUBSET Items :
            add_artifact(u, a, x, from)
      BY <1>6
    <2>2. /\ KindOf[a] = "artifact" /\ KindOf[x] = "exam" /\ x \in there
          /\ \A e \in from : KindOf[e] = "evidence" /\ <<x, e>> \in links
          /\ there' = there \cup {a}
          /\ links' = links \cup {<<x, a>>} \cup {<<a, e>> : e \in from}
          /\ UNCHANGED <<hits, steady>>
      BY <2>1 DEF add_artifact
    <2>3. \A e \in from : e \in there \cap Items
      BY <2>2 DEF GInv, Kept
    <2>4. links' \subseteq (there' \cap Items) \X (there' \cap Items)
      BY <2>2, <2>3 DEF GInv, Kept
    <2>5. \A l \in links' : <<KindOf[l[1]], KindOf[l[2]]>> \in LinkKinds \cup ArtifactKinds
      <3>1. ASSUME NEW l \in {<<x, a>>} \cup {<<a, e>> : e \in from}
            PROVE  <<KindOf[l[1]], KindOf[l[2]]>> \in ArtifactKinds
        <4>1. CASE l = <<x, a>>
          BY <2>2, <4>1 DEF ArtifactKinds
        <4>2. CASE \E e \in from : l = <<a, e>>
          <5>1. PICK e \in from : l = <<a, e>>
            BY <4>2
          <5>2. l[1] = a /\ l[2] = e
            BY <5>1
          <5>3. KindOf[l[1]] = "artifact" /\ KindOf[l[2]] = "evidence"
            BY <2>2, <5>2
          <5> QED BY <5>3 DEF ArtifactKinds
        <4> QED BY <3>1, <4>1, <4>2
      <3> QED BY <2>2, <3>1 DEF GInv, Kept
    <2>6. Kept'
      BY <1>1, <2>2, <2>4, <2>5 DEF GInv, Kept
    <2> QED BY <1>1, <2>2, <2>6, ChangeGInv
  <1>7. CASE \E c \in Cases : delete_case(c)
    <2>1. UNCHANGED <<links, hits, steady>> /\ there \cap Items \subseteq there'
      BY <1>7, VisibilityAssumption DEF delete_case
    <2> QED BY <1>2, <2>1
  <1>8. CASE UNCHANGED vars
    BY <1>2, <1>8 DEF vars, data
  <1>9. CASE \E u \in Users, n \in Items, rs \in SUBSET Rules : scan_completes(u, n, rs)
    <2>1. PICK u \in Users, n \in Items, rs \in SUBSET Rules : scan_completes(u, n, rs)
      BY <1>9
    <2>2. /\ KindOf[n] = "evidence" /\ hits' = [hits EXCEPT ![n] = rs]
          /\ steady' = {m \in steady : m[1] # n \/ m[2] \in rs}
          /\ UNCHANGED <<there, links>>
      BY <2>1 DEF scan_completes
    <2>3. \A k \in Items : hits'[k] = IF k = n THEN rs ELSE hits[k]
      BY <2>2 DEF IInv, TypeOK
    <2>4. \A k \in Items : hits'[k] # {} => KindOf[k] = "evidence"
      BY <2>2, <2>3 DEF GInv, Kept
    <2>5. ASSUME status # "idle", NEW m \in steady' PROVE m[2] \in hits'[m[1]]
      <3>1. m \in steady /\ m[1] \in Items /\ m[2] \in hits[m[1]]
        BY <2>2, <2>5 DEF GInv, Kept
      <3> QED BY <2>2, <2>3, <2>5, <3>1
    <2>6. Kept'
      BY <1>1, <2>2, <2>4, <2>5 DEF GInv, Kept
    <2> QED BY <1>1, <2>2, <2>6, ChangeGInv
  <1> QED BY <1>3, <1>4, <1>5, <1>6, <1>7, <1>8, <1>9

LEMMA NextGInv ==
  ASSUME IInv, GInv, [Next]_vars
  PROVE  GInv'
  <1>1. ASSUME NEW from \in {{}} \cup {{e} : e \in Items} PROVE from \in SUBSET Items
    BY <1>1
  <1> QED BY <1>1, BeginGInv, ReadGInv, AnswerGInv, EndGInv, ChangesGInv DEF Next

LEMMA InitGInv ==
  ASSUME Init
  PROVE  GInv
  BY VisibilityAssumption DEF Init, GInv, Kept, Whole

LEMMA WholeIsWhole ==
  ASSUME IInv, GInv
  PROVE  GraphIsWhole
  <1> SUFFICES ASSUME status = "answered", OfACase, ~ truncated
               PROVE  /\ {n \in before.there : Home(n) = ask.key} \subseteq nodes
                      /\ {l \in before.links : CaseOf[l[1]] = ask.key} \subseteq edges
                      /\ {m \in steady : CaseOf[m[1]] = ask.key} \subseteq edges
    BY DEF GraphIsWhole, OfACase
  <1>1. Done(12)
    BY DEF GInv, Whole
  <1>2. ASSUME NEW n \in before.there, Home(n) = ask.key PROVE n \in nodes
    <2>1. CASE n \in Cases
      BY <1>1, <1>2, <2>1 DEF Home, Done
    <2>2. CASE n \notin Cases
      <3>1. n \in Items /\ CaseOf[n] = ask.key
        BY <1>2, <2>2 DEF GInv, Kept, Home, Records
      <3>2. KindOf[n] \in {"evidence", "exam", "report", "artifact"}
        BY <3>1, VisibilityAssumption DEF ItemKinds
      <3> QED BY <1>1, <3>1, <3>2 DEF Done, Had
    <2> QED BY <2>1, <2>2
  <1>3. ASSUME NEW l \in before.links, CaseOf[l[1]] = ask.key PROVE l \in edges
    <2>1. <<KindOf[l[1]], KindOf[l[2]]>> \in LinkKinds \cup ArtifactKinds
      BY DEF GInv, Kept
    <2> QED BY <1>1, <1>3, <2>1 DEF Done, HadLinks, LinkKinds, ArtifactKinds
  <1>4. {m \in steady : CaseOf[m[1]] = ask.key} \subseteq edges
    BY <1>1 DEF Done, HadRules
  <1> QED BY <1>2, <1>3, <1>4

\* A case graph that does not say it was truncated holds every record and link
\* the case had when the request began, and every rule match in force ever since
\* (case_graph, _add_yara), for any laboratory, any cap and whatever is recorded
\* meanwhile.
THEOREM GraphsAreWhole == Spec => []GraphIsWhole
  <1>1. IInv /\ GInv /\ [Next]_vars => IInv' /\ GInv'
    BY NextIInv, StutterIInv, NextGInv
  <1>2. IInv /\ GInv => GraphIsWhole
    BY WholeIsWhole
  <1> QED BY <1>1, <1>2, InitIInv, InitGInv, PTL DEF Spec

=============================================================================
