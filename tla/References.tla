----------------------------- MODULE References -----------------------------
(***************************************************************************)
(* The yearly numbers of cases, evidence items, examinations and reports:  *)
(* sp_next_reference and the four registrations that call it.  Each kind   *)
(* has its own counter row per year, so one kind is the whole story.       *)
(*                                                                         *)
(* A registration is one transaction.  INSERT IGNORE makes the year's row  *)
(* if it is missing; if it exists, InnoDB sets a shared lock on it (what a *)
(* duplicate key does).  SELECT ... FOR UPDATE then asks for the exclusive *)
(* lock, which is kept to the end.  What a transaction wrote and has not   *)
(* committed is in its record tx[s].                                       *)
(*                                                                         *)
(* The three procedures read the calendar year once, into v_year.          *)
(* create_examination reads it twice: for the counter, and again for the   *)
(* text of the code (YearReadAgain).                                       *)
(***************************************************************************)
EXTENDS Naturals

CONSTANTS
  Sessions,       \* concurrent registrations
  MaxYear,        \* bound: the years are 1 .. MaxYear
  MaxNumber,      \* bound on the numbers given out in a year
  Capacity,       \* the highest number that fits LPAD's width: 9999 or 99999
  YearReadAgain,  \* TRUE for create_examination, FALSE for the procedures
  NoSession, NoRow

Years   == 1 .. MaxYear
Numbers == 1 .. MaxNumber
Codes   == Years \X Numbers

ASSUME ReferencesAssumption ==
  /\ MaxYear \in Nat \ {0}
  /\ MaxNumber \in Nat \ {0}
  /\ Capacity \in Nat /\ Capacity >= 9
  /\ MaxNumber < 10 * (Capacity + 1)
  /\ YearReadAgain \in BOOLEAN
  /\ NoSession \notin Sessions
  /\ NoRow \notin Nat

VARIABLES
  year,     \* YEAR(CURDATE())
  counter,  \* reference_sequences.last_number per year, committed
  shared,   \* the transactions with a shared lock on a year's row
  excl,     \* the transaction with the exclusive lock on it
  codes,    \* codes of the registered records: a UNIQUE key
  tx        \* each session's transaction

vars == <<year, counter, shared, excl, codes, tx>>

Phases == {"idle", "begun", "inserted", "numbered", "coded"}
Tx     == [pc : Phases, year : Years, num : Numbers, code : Codes]
Idle   == [pc |-> "idle", year |-> 1, num |-> 1, code |-> <<1, 1>>]

\* LPAD(n, width, '0') keeps the leftmost digits of a number that is too long.
LPAD(n) == IF n <= Capacity THEN n ELSE n \div 10

last_number(y) == IF counter[y] = NoRow THEN 0 ELSE counter[y]

---------------------------------------------------------------------------

\* START TRANSACTION, with v_year (or the argument of CALL) read from the
\* calendar.
Begin(s) ==
  /\ tx[s].pc = "idle"
  /\ tx' = [tx EXCEPT ![s] = [Idle EXCEPT !.pc = "begun", !.year = year]]
  /\ UNCHANGED <<year, counter, shared, excl, codes>>

\* INSERT IGNORE INTO reference_sequences.
InsertIgnore(s) ==
  LET y == tx[s].year
  IN  /\ tx[s].pc = "begun"
      /\ excl[y] = NoSession
      /\ IF counter[y] = NoRow
           THEN excl' = [excl EXCEPT ![y] = s] /\ UNCHANGED shared
           ELSE shared' = [shared EXCEPT ![y] = @ \cup {s}] /\ UNCHANGED excl
      /\ tx' = [tx EXCEPT ![s].pc = "inserted"]
      /\ UNCHANGED <<year, counter, codes>>

\* Mutant: SELECT without FOR UPDATE.
ForUpdate_PlainRead(s) ==
  LET y == tx[s].year
  IN  /\ tx[s].pc = "inserted"
      /\ last_number(y) < MaxNumber
      /\ excl' = [excl EXCEPT ![y] = s]
      /\ shared' = [shared EXCEPT ![y] = @ \ {s}]
      /\ tx' = [tx EXCEPT ![s].pc = "numbered", ![s].num = last_number(y) + 1]
      /\ UNCHANGED <<year, counter, codes>>

\* SELECT last_number + 1 ... FOR UPDATE, and the UPDATE under that lock.
\* Bound: MaxNumber.
ForUpdate(s) ==
  LET y == tx[s].year
  IN  /\ tx[s].pc = "inserted"
      /\ last_number(y) < MaxNumber
      /\ shared[y] \subseteq {s}
      /\ excl[y] \in {NoSession, s}
      /\ excl' = [excl EXCEPT ![y] = s]
      /\ shared' = [shared EXCEPT ![y] = @ \ {s}]
      /\ tx' = [tx EXCEPT ![s].pc = "numbered", ![s].num = last_number(y) + 1]
      /\ UNCHANGED <<year, counter, codes>>

\* CONCAT of the year and the padded number.
MakeCode(s) ==
  /\ tx[s].pc = "numbered"
  /\ tx' = [tx EXCEPT ![s].pc = "coded",
                      ![s].code = <<IF YearReadAgain THEN year ELSE tx[s].year,
                                    LPAD(tx[s].num)>>]
  /\ UNCHANGED <<year, counter, shared, excl, codes>>

\* The end of a transaction releases its row locks.
Release(s) ==
  /\ shared' = [y \in Years |-> shared[y] \ {s}]
  /\ excl' = [y \in Years |-> IF excl[y] = s THEN NoSession ELSE excl[y]]
  /\ tx' = [tx EXCEPT ![s] = Idle]

\* Mutant: the record's code has no UNIQUE key.
Insert_NoUniqueKey(s) ==
  /\ tx[s].pc = "coded"
  /\ codes' = codes \cup {tx[s].code}
  /\ counter' = [counter EXCEPT ![tx[s].year] = tx[s].num]
  /\ Release(s)
  /\ UNCHANGED year

\* INSERT of the record, audit row, COMMIT.
Insert(s) ==
  /\ tx[s].pc = "coded"
  /\ tx[s].code \notin codes
  /\ codes' = codes \cup {tx[s].code}
  /\ counter' = [counter EXCEPT ![tx[s].year] = tx[s].num]
  /\ Release(s)
  /\ UNCHANGED year

\* Mutant: the counter is committed on its own, as AUTO_INCREMENT would be.
Rollback_KeepsNumber(s) ==
  /\ tx[s].pc # "idle"
  /\ counter' = IF tx[s].pc \in {"numbered", "coded"}
                  THEN [counter EXCEPT ![tx[s].year] = tx[s].num] ELSE counter
  /\ Release(s)
  /\ UNCHANGED <<year, codes>>

\* ROLLBACK at any point: a refusal (closed case, missing role), a duplicate
\* code, a lost connection, a lock wait timeout.
Rollback(s) ==
  /\ tx[s].pc # "idle"
  /\ Release(s)
  /\ UNCHANGED <<year, counter, codes>>

\* Two transactions hold the shared lock and each asks for the exclusive one.
Deadlocked(s) ==
  /\ tx[s].pc = "inserted"
  /\ \E t \in shared[tx[s].year] \ {s} : tx[t].pc = "inserted" /\ s \in shared[tx[s].year]

\* InnoDB rolls one of them back with error 1213, and nothing retries it.
DeadlockVictim(s) ==
  /\ Deadlocked(s)
  /\ Release(s)
  /\ UNCHANGED <<year, counter, codes>>

NewYear ==
  /\ year < MaxYear
  /\ year' = year + 1
  /\ UNCHANGED <<counter, shared, excl, codes, tx>>

Init ==
  /\ year = 1
  /\ counter = [y \in Years |-> NoRow]
  /\ shared = [y \in Years |-> {}]
  /\ excl = [y \in Years |-> NoSession]
  /\ codes = {}
  /\ tx = [s \in Sessions |-> Idle]

\* What the server does by itself with a registration it has begun.
Server(s) ==
  InsertIgnore(s) \/ ForUpdate(s) \/ MakeCode(s) \/ Insert(s) \/ DeadlockVictim(s)

Next ==
  \/ \E s \in Sessions : Begin(s) \/ Server(s) \/ Rollback(s)
  \/ NewYear

Spec == Init /\ [][Next]_vars

---------------------------------------------------------------------------
(* Properties.                                                             *)

TypeOK ==
  /\ year \in Years
  /\ counter \in [Years -> Numbers \cup {NoRow}]
  /\ shared \in [Years -> SUBSET Sessions]
  /\ excl \in [Years -> Sessions \cup {NoSession}]
  /\ codes \subseteq Codes
  /\ tx \in [Sessions -> Tx]

\* database/procedures.sql:17: "a rollback also rolls back the counter: codes
\* are never skipped and never reused".  The codes of a year are exactly the
\* numbers up to its counter, whatever was rolled back meanwhile.
CodesGapFree ==
  codes = {c \in Codes : c[2] <= last_number(c[1])}

\* A registration that got a number that fits the code can be inserted: its
\* code is not taken.  (If it were, every later attempt would take the same
\* number and fail too.)
NumberIsFree ==
  \A s \in Sessions :
    tx[s].pc = "coded" /\ tx[s].num <= Capacity => tx[s].code \notin codes

\* At the end of LPAD's width the UNIQUE key stops the numbering; a truncated
\* code is never stored.
NeverPastCapacity ==
  \A y \in Years : last_number(y) <= Capacity

\* The counter rows, with 0 for a row that is not there yet.
Abstract == INSTANCE CodeRegister WITH issued <- [y \in Years |-> last_number(y)]

\* Requests, locks, rollbacks and deadlock victims implement the register:
\* whatever commits is one registration with the next number of its year
\* (procedures.sql:17).
ImplementsRegister == Abstract!RegisterSpec

=============================================================================
