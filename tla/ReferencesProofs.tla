-------------------------- MODULE ReferencesProofs --------------------------
(***************************************************************************)
(* The numbers given out by the procedures (YearReadAgain = FALSE) have no *)
(* gaps, for any number of concurrent registrations, years and rollbacks.  *)
(***************************************************************************)
EXTENDS References, TLAPS

\* A transaction with a number has the counter row to itself, and the number is
\* the next one; the code it made is that number in the counter's year.
Held(s) ==
  tx[s].pc \in {"numbered", "coded"} =>
    /\ excl[tx[s].year] = s
    /\ tx[s].num = last_number(tx[s].year) + 1
    /\ tx[s].pc = "coded" => tx[s].code = <<tx[s].year, LPAD(tx[s].num)>>

NumberHeld == \A s \in Sessions : Held(s)

\* NeverPastCapacity is what makes a truncated code a duplicate.
RefInv == TypeOK /\ NumberHeld /\ CodesGapFree /\ NeverPastCapacity

\* last_number is a number; it is 0 exactly when the year has no row.
LEMMA LastNumber ==
  ASSUME TypeOK
  PROVE  \A y \in Years : last_number(y) \in Nat /\ last_number(y) <= MaxNumber
  BY ReferencesAssumption DEF TypeOK, last_number, Numbers

\* A padded number is a number of the year: itself, or a smaller one.
LEMMA LpadFacts ==
  ASSUME NEW n \in Numbers
  PROVE  /\ LPAD(n) \in Numbers
         /\ n <= Capacity => LPAD(n) = n
         /\ n > Capacity => LPAD(n) < n
  BY ReferencesAssumption DEF LPAD, Numbers

\* The codes of the initial, empty database.
LEMMA InitRefInv == Init => RefInv
  <1> SUFFICES ASSUME Init PROVE RefInv
    OBVIOUS
  <1>1. TypeOK
    BY ReferencesAssumption DEF Init, TypeOK, Years, Numbers, Codes, Tx, Idle, Phases
  <1>2. \A y \in Years : last_number(y) = 0
    BY DEF Init, last_number
  <1>3. CodesGapFree
    BY <1>2 DEF Init, CodesGapFree, Codes, Numbers
  <1>4. NumberHeld
    BY DEF Init, NumberHeld, Held, Idle
  <1>5. NeverPastCapacity
    BY <1>2, ReferencesAssumption DEF NeverPastCapacity
  <1> QED
    BY <1>1, <1>3, <1>4, <1>5 DEF RefInv

\* Giving up the row locks: nobody else's numbers are touched.
LEMMA ReleaseRefInv ==
  ASSUME RefInv, NEW s \in Sessions, Release(s), UNCHANGED <<year, counter, codes>>
  PROVE  RefInv'
  <1>1. TypeOK'
    BY ReferencesAssumption DEF RefInv, TypeOK, Release, Years, Numbers, Codes, Tx, Idle, Phases
  <1>2. \A y : last_number(y)' = last_number(y)
    BY DEF last_number
  <1>3. NumberHeld'
    <2> SUFFICES ASSUME NEW x \in Sessions, tx'[x].pc \in {"numbered", "coded"}
                 PROVE  Held(x)'
      BY DEF NumberHeld, Held
    <2>1. x # s /\ tx'[x] = tx[x]
      BY DEF RefInv, TypeOK, Release, Idle
    <2>2. tx[x].year \in Years /\ excl[tx[x].year] = x
      BY <2>1 DEF RefInv, TypeOK, NumberHeld, Held, Tx
    <2>3. excl'[tx[x].year] = x
      BY <2>1, <2>2 DEF Release
    <2> QED
      BY <2>1, <2>3 DEF RefInv, NumberHeld, Held, last_number, LPAD
  <1>4. CodesGapFree' /\ NeverPastCapacity'
    BY <1>2 DEF RefInv, CodesGapFree, NeverPastCapacity
  <1> QED
    BY <1>1, <1>3, <1>4 DEF RefInv

\* A step of one transaction that leaves counters and codes alone.
LEMMA QuietRefInv ==
  ASSUME RefInv, TypeOK', NumberHeld', UNCHANGED <<counter, codes>>
  PROVE  RefInv'
  <1>1. \A y : last_number(y)' = last_number(y)
    BY DEF last_number
  <1> QED
    BY <1>1 DEF RefInv, CodesGapFree, NeverPastCapacity

\* The commit: the next number, in the year of its counter, or none.
LEMMA InsertFacts ==
  ASSUME RefInv, NEW s \in Sessions, Insert(s),
         NEW y, y = tx[s].year, NEW n, n = tx[s].num
  PROVE  /\ tx[s] \in Tx /\ y \in Years /\ n \in Numbers /\ n \in Nat /\ tx[s].pc = "coded"
         /\ excl[y] = s /\ n = last_number(y) + 1
         /\ n <= Capacity
         /\ counter' = [counter EXCEPT ![y] = n]
         /\ codes' = codes \cup {<<y, n>>}
         /\ Release(s) /\ year' = year
         /\ \A z \in Years : last_number(z)' = IF z = y THEN n ELSE last_number(z)
  <1>1. /\ tx[s] \in Tx /\ y \in Years /\ n \in Numbers /\ n \in Nat /\ tx[s].pc = "coded"
        /\ excl[y] = s /\ n = last_number(y) + 1 /\ tx[s].code = <<y, LPAD(n)>>
    BY ReferencesAssumption DEF Insert, RefInv, TypeOK, NumberHeld, Held, Tx, Numbers
  <1>2. \A z \in Years : last_number(z) \in Nat /\ last_number(z) <= MaxNumber
    BY LastNumber DEF RefInv
  <1>3. n <= Capacity /\ LPAD(n) = n
    <2>1. SUFFICES ASSUME n > Capacity PROVE FALSE
      BY <1>1, ReferencesAssumption, LpadFacts
    <2>2. LPAD(n) \in Numbers /\ LPAD(n) < n
      BY <1>1, <2>1, LpadFacts
    <2>3. LPAD(n) <= last_number(y)
      BY <1>1, <1>2, <2>2, ReferencesAssumption DEF Numbers
    <2>4. <<y, LPAD(n)>> \in codes
      BY <1>1, <2>2, <2>3 DEF RefInv, CodesGapFree, Codes
    <2> QED
      BY <1>1, <2>4 DEF Insert
  <1>4. /\ counter' = [counter EXCEPT ![y] = n]
        /\ codes' = codes \cup {<<y, n>>}
        /\ Release(s) /\ year' = year
    BY <1>1, <1>3 DEF Insert
  <1>5. \A z \in Years : last_number(z)' = IF z = y THEN n ELSE last_number(z)
    BY <1>1, <1>4, ReferencesAssumption DEF last_number, RefInv, TypeOK, Numbers
  <1> QED
    BY <1>1, <1>3, <1>4, <1>5

\* A commit preserves RefInv.
LEMMA InsertRefInv ==
  ASSUME RefInv, NEW s \in Sessions, Insert(s)
  PROVE  RefInv'
  <1>0. PICK y, n : y = tx[s].year /\ n = tx[s].num
    OBVIOUS
  <1>1. /\ y \in Years /\ n \in Numbers /\ n \in Nat
        /\ excl[y] = s /\ n = last_number(y) + 1
    BY <1>0, InsertFacts
  <1>2. \A z \in Years : last_number(z) \in Nat /\ last_number(z) <= MaxNumber
    BY LastNumber DEF RefInv
  <1>3. n <= Capacity
    BY <1>0, InsertFacts
  <1>4. /\ counter' = [counter EXCEPT ![y] = n]
        /\ codes' = codes \cup {<<y, n>>}
        /\ Release(s) /\ year' = year
    BY <1>0, InsertFacts
  <1>5. \A z \in Years : last_number(z)' = IF z = y THEN n ELSE last_number(z)
    BY <1>0, InsertFacts
  <1>6. TypeOK'
    <2>1. counter' \in [Years -> Numbers \cup {NoRow}] /\ codes' \subseteq Codes
      BY <1>1, <1>4 DEF RefInv, TypeOK, Codes
    <2> QED
      BY <1>4, <2>1, ReferencesAssumption
         DEF RefInv, TypeOK, Release, Years, Numbers, Codes, Tx, Idle, Phases
  <1>7. CodesGapFree'
    <2>1. codes = {c \in Codes : c[2] <= last_number(c[1])}
      BY DEF RefInv, CodesGapFree
    <2>2. ASSUME NEW z \in Years, NEW k \in Numbers
          PROVE  <<z, k>> \in codes' <=> k <= last_number(z)'
      <3>1. <<z, k>> \in codes <=> k <= last_number(z)
        BY <2>1 DEF Codes
      <3>2. CASE z # y
        BY <1>4, <1>5, <3>1, <3>2
      <3>3. CASE z = y
        <4>1. last_number(z)' = n /\ n = last_number(z) + 1 /\ last_number(z) \in Nat /\ k \in Nat
          BY <1>1, <1>2, <1>5, <3>3 DEF Numbers
        <4>2. <<z, k>> \in codes' <=> k <= last_number(z) \/ k = n
          BY <1>4, <3>1, <3>3
        <4> QED
          BY <4>1, <4>2
      <3> QED
        BY <3>2, <3>3
    <2>3. codes' \subseteq Codes
      BY <1>6 DEF TypeOK
    <2>4. ASSUME NEW c
          PROVE  c \in codes' <=> c \in {d \in Codes : d[2] <= last_number(d[1])'}
      <3>1. CASE c \in Codes
        <4>1. PICK z \in Years, k \in Numbers : c = <<z, k>>
          BY <3>1 DEF Codes
        <4> QED
          BY <2>2, <3>1, <4>1
      <3>2. CASE c \notin Codes
        BY <2>3, <3>2
      <3> QED
        BY <3>1, <3>2
    <2> QED
      BY <2>4 DEF CodesGapFree
  <1>8. NumberHeld'
    <2> SUFFICES ASSUME NEW x \in Sessions, tx'[x].pc \in {"numbered", "coded"}
                 PROVE  Held(x)'
      BY DEF NumberHeld, Held
    <2>1. x # s /\ tx'[x] = tx[x]
      BY <1>4 DEF RefInv, TypeOK, Release, Idle
    <2>2. tx[x].year \in Years /\ excl[tx[x].year] = x
      BY <2>1 DEF RefInv, TypeOK, NumberHeld, Held, Tx
    <2>3. excl'[tx[x].year] = x
      BY <1>4, <2>1, <2>2 DEF Release
    <2>4. tx[x].year # y
      BY <1>1, <2>1, <2>2
    <2>5. counter'[tx[x].year] = counter[tx[x].year]
      BY <1>4, <2>2, <2>4 DEF RefInv, TypeOK
    <2> QED
      BY <2>1, <2>3, <2>5 DEF RefInv, NumberHeld, Held, last_number, LPAD
  <1>9. NeverPastCapacity'
    <2>1. \A z \in Years : last_number(z)' <= Capacity
      BY <1>3, <1>5 DEF RefInv, NeverPastCapacity
    <2> QED
      BY <2>1 DEF NeverPastCapacity
  <1> QED
    BY <1>6, <1>7, <1>8, <1>9 DEF RefInv

\* Every step preserves RefInv when the year is read once.
LEMMA NextRefInv ==
  ASSUME YearReadAgain = FALSE, RefInv, [Next]_vars
  PROVE  RefInv'
  <1>0. /\ TypeOK /\ NumberHeld /\ tx \in [Sessions -> Tx]
        /\ \A y : UNCHANGED counter => last_number(y)' = last_number(y)
    BY DEF RefInv, TypeOK, last_number
  <1>1. ASSUME NEW s \in Sessions, Begin(s)
        PROVE  RefInv'
    <2>0. year \in Years /\ 1 \in Years /\ 1 \in Numbers
      BY <1>0, ReferencesAssumption DEF TypeOK, Numbers, Years
    <2>1. [Idle EXCEPT !.pc = "begun", !.year = year] \in Tx
      BY <2>0 DEF Tx, Idle, Phases, Codes
    <2>2. TypeOK'
      BY <1>0, <1>1, <2>1 DEF Begin, TypeOK
    <2>3. NumberHeld'
      <3> DEFINE r == [Idle EXCEPT !.pc = "begun", !.year = year]
      <3>1. r.pc = "begun" /\ tx' = [tx EXCEPT ![s] = r]
        BY <1>1 DEF Begin, Idle
      <3> HIDE DEF r
      <3> QED
        BY <1>0, <1>1, <3>1 DEF Begin, NumberHeld, Held, last_number, LPAD
    <2> QED
      BY <1>1, <2>2, <2>3, QuietRefInv DEF Begin
  <1>2. ASSUME NEW s \in Sessions, InsertIgnore(s)
        PROVE  RefInv'
    <2>1. /\ tx[s].year \in Years /\ tx' = [tx EXCEPT ![s] = [tx[s] EXCEPT !.pc = "inserted"]]
          /\ excl[tx[s].year] = NoSession /\ UNCHANGED <<year, counter, codes>>
          /\ excl' = excl \/ excl' = [excl EXCEPT ![tx[s].year] = s]
          /\ shared' = shared \/ shared' = [shared EXCEPT ![tx[s].year] = @ \cup {s}]
      BY <1>0, <1>2 DEF InsertIgnore, TypeOK, Tx
    <2>2. TypeOK'
      BY <1>0, <2>1 DEF TypeOK, Tx, Phases
    <2>3. NumberHeld'
      BY <1>0, <2>1, ReferencesAssumption DEF NumberHeld, Held, TypeOK, Tx, last_number, LPAD
    <2> QED
      BY <2>1, <2>2, <2>3, QuietRefInv
  <1>3. ASSUME NEW s \in Sessions, ForUpdate(s)
        PROVE  RefInv'
    <2> DEFINE y == tx[s].year
    <2>1. /\ y \in Years /\ excl[y] \in {NoSession, s} /\ last_number(y) < MaxNumber
          /\ tx' = [tx EXCEPT ![s] = [tx[s] EXCEPT !.pc = "numbered",
                                                   !.num = last_number(y) + 1]]
          /\ excl' = [excl EXCEPT ![y] = s]
          /\ shared' = [shared EXCEPT ![y] = @ \ {s}]
          /\ UNCHANGED <<year, counter, codes>>
      BY <1>0, <1>3 DEF ForUpdate, TypeOK, Tx
    <2>2. last_number(y) + 1 \in Numbers
      BY <1>0, <2>1, LastNumber, ReferencesAssumption DEF Numbers
    <2>3. TypeOK'
      BY <1>0, <2>1, <2>2 DEF TypeOK, Tx, Phases
    <2>4. NumberHeld'
      BY <1>0, <2>1, ReferencesAssumption DEF NumberHeld, Held, TypeOK, Tx, last_number, LPAD
    <2> QED
      BY <2>1, <2>3, <2>4, QuietRefInv
  <1>4. ASSUME NEW s \in Sessions, MakeCode(s)
        PROVE  RefInv'
    <2> DEFINE c == <<tx[s].year, LPAD(tx[s].num)>>
    <2>1. /\ tx[s].pc = "numbered" /\ c \in Codes /\ UNCHANGED <<year, counter, shared, excl, codes>>
          /\ tx' = [tx EXCEPT ![s] = [tx[s] EXCEPT !.pc = "coded", !.code = c]]
      BY <1>0, <1>4, LpadFacts DEF MakeCode, TypeOK, Tx, Codes
    <2>2. TypeOK'
      BY <1>0, <2>1 DEF TypeOK, Tx, Phases
    <2>3. NumberHeld'
      BY <1>0, <2>1 DEF NumberHeld, Held, TypeOK, Tx, last_number, LPAD
    <2> QED
      BY <2>1, <2>2, <2>3, QuietRefInv
  <1>5. ASSUME NEW s \in Sessions, Rollback(s) \/ DeadlockVictim(s)
        PROVE  RefInv'
    BY <1>5, ReleaseRefInv DEF Rollback, DeadlockVictim
  <1>6. CASE NewYear \/ UNCHANGED vars
    <2>1. UNCHANGED <<counter, shared, excl, codes, tx>>
      BY <1>6 DEF NewYear, vars
    <2>2. year' \in Years
      BY <1>0, <1>6, ReferencesAssumption DEF NewYear, vars, TypeOK, Years
    <2>3. TypeOK'
      BY <1>0, <2>1, <2>2 DEF TypeOK
    <2>4. NumberHeld'
      BY <1>0, <2>1 DEF NumberHeld, Held, last_number, LPAD
    <2> QED
      BY <2>1, <2>3, <2>4, QuietRefInv
  <1> QED
    BY <1>1, <1>2, <1>3, <1>4, <1>5, <1>6, InsertRefInv DEF Next, Server

\* Codes given out by the procedures are never skipped and never reused, and a
\* code cut by LPAD is never stored, for any number of concurrent registrations,
\* rollbacks and years.  It fails when the year is read twice, as
\* create_examination does.
THEOREM ProcedureCodesGapFree ==
  ASSUME YearReadAgain = FALSE
  PROVE  Spec => [](CodesGapFree /\ NeverPastCapacity)
  <1>1. RefInv /\ [Next]_vars => RefInv'
    BY NextRefInv
  <1>2. RefInv => CodesGapFree /\ NeverPastCapacity
    BY DEF RefInv
  <1> QED
    BY <1>1, <1>2, InitRefInv, PTL DEF Spec

\* A registration whose number fits the width of the code is never refused for a
\* duplicate code, however many others run or were rolled back.
THEOREM ProcedureNumberIsFree ==
  ASSUME YearReadAgain = FALSE
  PROVE  Spec => []NumberIsFree
  <1>1. RefInv /\ [Next]_vars => RefInv'
    BY NextRefInv
  <1>2. RefInv => NumberIsFree
    <2> SUFFICES ASSUME RefInv, NEW s \in Sessions, tx[s].pc = "coded", tx[s].num <= Capacity
                 PROVE  tx[s].code \notin codes
      BY DEF NumberIsFree
    <2>1. /\ tx[s].year \in Years /\ tx[s].num \in Numbers
          /\ tx[s].num = last_number(tx[s].year) + 1
          /\ tx[s].code = <<tx[s].year, LPAD(tx[s].num)>>
      BY DEF RefInv, TypeOK, NumberHeld, Held, Tx
    <2>2. LPAD(tx[s].num) = tx[s].num
      BY <2>1 DEF LPAD
    <2>3. last_number(tx[s].year) \in Nat
      BY <2>1, LastNumber DEF RefInv
    <2>4. ~ (tx[s].num <= last_number(tx[s].year))
      BY <2>1, <2>3
    <2> QED
      BY <2>1, <2>2, <2>4 DEF RefInv, CodesGapFree
  <1> QED
    BY <1>1, <1>2, InitRefInv, PTL DEF Spec

\* The transactions implement the register (procedures.sql:17): what commits is
\* one registration with the next number of its year, everything else leaves
\* the numbers alone.
THEOREM ProcedureImplementsRegister ==
  ASSUME YearReadAgain = FALSE
  PROVE  Spec => ImplementsRegister
  <1>1. Init => Abstract!RegisterInit
    BY DEF Init, Abstract!RegisterInit, last_number
  <1>2. ASSUME RefInv, [Next]_vars
        PROVE  [Abstract!RegisterNext]_(Abstract!registerVars)
    <2>1. ASSUME NEW s \in Sessions, Insert(s)
          PROVE  Abstract!RegisterNext
      <3>0. PICK y, n : y = tx[s].year /\ n = tx[s].num
        OBVIOUS
      <3>1. /\ y \in Years /\ n = last_number(y) + 1 /\ n <= Capacity /\ n \in Nat
            /\ codes' = codes \cup {<<y, n>>}
            /\ \A z \in Years : last_number(z)' = IF z = y THEN n ELSE last_number(z)
        BY <1>2, <2>1, <3>0, InsertFacts
      <3>2. last_number(y) \in Nat
        BY <1>2, <3>1, LastNumber DEF RefInv
      <3>3. last_number(y) < Capacity
        BY <3>1, <3>2, ReferencesAssumption
      <3>4. [z \in Years |-> last_number(z)'] =
              [[z \in Years |-> last_number(z)] EXCEPT ![y] = last_number(y) + 1]
        BY <3>1
      <3>5. Abstract!Register(y)
        BY <3>1, <3>3, <3>4 DEF Abstract!Register
      <3> QED
        BY <3>1, <3>5 DEF Abstract!RegisterNext
    <2>2. ASSUME UNCHANGED <<counter, codes>>
          PROVE  UNCHANGED Abstract!registerVars
      BY <2>2 DEF Abstract!registerVars, last_number
    <2>3. ASSUME NEW s \in Sessions, Begin(s) \/ InsertIgnore(s) \/ ForUpdate(s) \/ MakeCode(s)
                                     \/ DeadlockVictim(s) \/ Rollback(s)
          PROVE  UNCHANGED <<counter, codes>>
      BY <2>3 DEF Begin, InsertIgnore, ForUpdate, MakeCode, DeadlockVictim, Rollback
    <2>4. CASE NewYear \/ UNCHANGED vars
      BY <2>2, <2>4 DEF NewYear, vars
    <2> QED
      BY <1>2, <2>1, <2>2, <2>3, <2>4 DEF Next, Server
  <1>3. RefInv /\ [Next]_vars => RefInv'
    BY NextRefInv
  <1> QED
    BY <1>1, <1>2, <1>3, InitRefInv, PTL DEF Spec, ImplementsRegister, Abstract!RegisterSpec

=============================================================================
