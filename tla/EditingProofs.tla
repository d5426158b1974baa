---------------------------- MODULE EditingProofs ----------------------------
(***************************************************************************)
(* Theorems about Editing, for any users, connections, contents and        *)
(* bounds.                                                                 *)
(*                                                                         *)
(* NoLostUpdate rests on the clock: the times of a row's changes never     *)
(* decrease, so that a form whose version is still the latest time saw     *)
(* every change but those of that very second.  The other two rest on who  *)
(* has a connection: no two requests, and past load_logged_in_user the     *)
(* connection's user is the one of the request.                            *)
(***************************************************************************)
EXTENDS Editing, SequenceTheorems, TLAPS

Places == {"idle", "borrow", "load", "check", "lock", "end"}

FormType == [row : Edits \cup {"none"}, shown : Nat, version : Nat]
ReqType == [pc : Places, op : AllOps, conn : Conns \cup {NoConn}, todo : Seq(Rows), new : Contents]
SaveType == [row : Edits, shown : Nat, found : Nat]

\* The types of what the properties depend on.
Typed ==
  /\ clock \in Nat
  /\ history \in [Rows -> Seq(Nat)]
  /\ lock \in [Rows -> Users \cup {NoUser}]
  /\ pool \subseteq Conns /\ dropped \subseteq Conns /\ pool \cap dropped = {}
  /\ actor \in [Conns -> Users \cup {NoUser}]
  /\ form \in [Users -> FormType]
  /\ req \in [Users -> ReqType]
  /\ saved \subseteq SaveType

\* The times of a row's changes: there is one, they do not decrease, and
\* none is in the future.
Ordered(h, now) ==
  /\ Len(h) >= 1
  /\ \A k \in 1 .. Len(h) : h[k] <= now
  /\ \A j, k \in 1 .. Len(h) : j <= k => h[j] <= h[k]

\* A form shows a change that has been, and its time.
FormTrue(f) ==
  f.row # "none" => /\ f.shown \in 1 .. Len(history[f.row])
                    /\ f.version = history[f.row][f.shown]

\* A saved edit, as NoLostUpdate says it.
SaveTrue(e) ==
  /\ e.shown \in 1 .. e.found
  /\ e.found <= Len(history[e.row])
  /\ \A k \in e.shown .. e.found : history[e.row][k] = history[e.row][e.shown]

DataOK ==
  /\ \A r \in Rows : Ordered(history[r], clock)
  /\ \A u \in Users : FormTrue(form[u])
  /\ \A e \in saved : SaveTrue(e)

\* A request has a connection of its own from get_db on, the connection's
\* user is its own from set_audit_user on, and an edit has its form.
Holds(u) ==
  LET q == req[u] IN
  /\ q.pc \in {"idle", "borrow"} => q.conn = NoConn
  /\ q.pc \in {"load", "check", "lock"} => q.conn \in Conns
  /\ q.pc \in {"check", "lock"} => actor[q.conn] = u
  /\ q.op \in Edits /\ q.pc \in {"borrow", "load", "check", "lock"} => form[u].row = q.op

\* The connections, as PoolIsKept says it.
Kept ==
  /\ \A c \in Conns \ (pool \cup dropped) : \E u \in Users : req[u].conn = c
  /\ \A u, v \in Users : (u # v /\ req[u].conn # NoConn) => req[u].conn # req[v].conn
  /\ \A u \in Users : req[u].conn \notin pool \cup dropped
  /\ \A c \in pool : actor[c] = NoUser

\* Only a transaction holds a row.
LocksOK == \A r \in Rows : lock[r] # NoUser => req[lock[r]].pc = "lock"

IInv ==
  /\ Typed /\ DataOK /\ Kept /\ LocksOK
  /\ \A u \in Users : Holds(u)
  /\ TriggersNameTheActor

---------------------------------------------------------------------------
(* The rows and their times.                                               *)

LEMMA AppendOrdered ==
  ASSUME NEW h \in Seq(Nat), NEW now \in Nat, Ordered(h, now)
  PROVE  /\ Append(h, now) \in Seq(Nat) /\ Len(Append(h, now)) = Len(h) + 1
         /\ Append(h, now)[Len(h) + 1] = now
         /\ \A k \in 1 .. Len(h) : Append(h, now)[k] = h[k]
         /\ Ordered(Append(h, now), now)
  <1> DEFINE g == Append(h, now)
  <1>1. /\ g \in Seq(Nat) /\ Len(g) = Len(h) + 1 /\ g[Len(h) + 1] = now
        /\ \A k \in 1 .. Len(h) : g[k] = h[k]
    BY AppendProperties
  <1>2. Len(h) \in Nat /\ \A k \in 1 .. Len(h) : h[k] \in Nat
    BY LenProperties, ElementOfSeq
  <1> HIDE DEF g
  <1>3. \A k \in 1 .. Len(g) : g[k] <= now
    BY <1>1, <1>2 DEF Ordered
  <1>4. ASSUME NEW j \in 1 .. Len(g), NEW k \in 1 .. Len(g), j <= k
        PROVE  g[j] <= g[k]
    <2>1. CASE k = Len(h) + 1
      BY <1>1, <1>3, <2>1
    <2>2. CASE k # Len(h) + 1
      <3>1. k \in 1 .. Len(h) /\ j \in 1 .. Len(h)
        BY <1>1, <1>2, <1>4, <2>2
      <3> QED BY <1>1, <1>4, <3>1 DEF Ordered
    <2> QED BY <2>1, <2>2
  <1>5. Ordered(g, now)
    BY <1>1, <1>2, <1>3, <1>4 DEF Ordered
  <1> QED BY <1>1, <1>5 DEF g

\* Rows only get more changes.
Extends == \A r \in Rows : /\ Len(history[r]) <= Len(history'[r])
                           /\ \A k \in 1 .. Len(history[r]) : history'[r][k] = history[r][k]

LEMMA Lens ==
  ASSUME Typed, NEW r \in Rows
  PROVE  /\ history[r] \in Seq(Nat) /\ Len(history[r]) \in Nat
         /\ \A k \in 1 .. Len(history[r]) : history[r][k] \in Nat
  <1>1. history[r] \in Seq(Nat)
    BY DEF Typed
  <1> QED BY <1>1, LenProperties, ElementOfSeq

\* What forms and saved edits say stays true.
LEMMA FormStays ==
  ASSUME Typed, history' \in [Rows -> Seq(Nat)], Extends, NEW f \in FormType, FormTrue(f)
  PROVE  FormTrue(f)'
  <1> SUFFICES ASSUME f.row # "none"
               PROVE  f.shown \in 1 .. Len(history'[f.row]) /\ f.version = history'[f.row][f.shown]
    BY DEF FormTrue
  <1>1. f.row \in Rows
    BY DEF FormType, Edits, Rows
  <1>2. f.shown \in 1 .. Len(history[f.row]) /\ f.version = history[f.row][f.shown]
    BY DEF FormTrue
  <1>3. Len(history[f.row]) \in Nat /\ Len(history'[f.row]) \in Nat
    BY <1>1, Lens, LenProperties
  <1> QED BY <1>1, <1>2, <1>3 DEF Extends

LEMMA SaveStays ==
  ASSUME Typed, history' \in [Rows -> Seq(Nat)], Extends, NEW e \in SaveType, SaveTrue(e)
  PROVE  SaveTrue(e)'
  <1>1. e.row \in Rows /\ e.shown \in Nat /\ e.found \in Nat
    BY DEF SaveType, Edits, Rows
  <1>2. Len(history[e.row]) \in Nat /\ Len(history'[e.row]) \in Nat
    BY <1>1, Lens, LenProperties
  <1>3. \A k \in e.shown .. e.found : history'[e.row][k] = history[e.row][k]
    <2>1. e.shown \in 1 .. e.found /\ e.found <= Len(history[e.row])
      BY DEF SaveTrue
    <2>2. \A k \in e.shown .. e.found : k \in 1 .. Len(history[e.row])
      BY <1>1, <1>2, <2>1
    <2> QED BY <1>1, <2>2 DEF Extends
  <1>4. e.found <= Len(history'[e.row])
    BY <1>1, <1>2 DEF SaveTrue, Extends
  <1> QED BY <1>1, <1>3, <1>4 DEF SaveTrue

LEMMA SameExtends ==
  ASSUME Typed, UNCHANGED history
  PROVE  Extends
  BY Lens DEF Extends

\* Time passes, or nothing happens to the rows.
LEMMA DataSame ==
  ASSUME Typed, DataOK, UNCHANGED <<history, form, saved>>, clock' \in Nat, clock <= clock'
  PROVE  DataOK'
  <1>1. \A r \in Rows : Ordered(history'[r], clock')
    BY Lens DEF DataOK, Ordered, Typed
  <1>2. \A u \in Users : FormTrue(form[u])'
    BY DEF DataOK, FormTrue
  <1>3. \A e \in saved' : SaveTrue(e)'
    BY DEF DataOK, SaveTrue
  <1> QED BY <1>1, <1>2, <1>3 DEF DataOK

\* A change of a row.
LEMMA TouchFacts ==
  ASSUME Typed, DataOK, NEW r \in Rows, Touch(r)
  PROVE  /\ history' \in [Rows -> Seq(Nat)] /\ Extends
         /\ \A x \in Rows : Ordered(history'[x], clock)
  <1>1. history[r] \in Seq(Nat) /\ clock \in Nat /\ Ordered(history[r], clock)
    BY Lens DEF Typed, DataOK
  <1>2. history' = [history EXCEPT ![r] = Append(history[r], clock)]
    BY DEF Touch
  <1>3. /\ Append(history[r], clock) \in Seq(Nat)
        /\ Len(Append(history[r], clock)) = Len(history[r]) + 1
        /\ \A k \in 1 .. Len(history[r]) : Append(history[r], clock)[k] = history[r][k]
        /\ Ordered(Append(history[r], clock), clock)
    BY <1>1, AppendOrdered
  <1>4. history' \in [Rows -> Seq(Nat)]
    BY <1>2, <1>3 DEF Typed
  <1>5. /\ history'[r] = Append(history[r], clock)
        /\ \A x \in Rows \ {r} : history'[x] = history[x]
    BY <1>2 DEF Typed
  <1>6. \A x \in Rows : Len(history[x]) \in Nat
    BY Lens
  <1>7. Extends
    <2>1. /\ Len(history[r]) <= Len(history'[r])
          /\ \A k \in 1 .. Len(history[r]) : history'[r][k] = history[r][k]
      BY <1>3, <1>5, <1>6
    <2>2. ASSUME NEW x \in Rows, x # r
          PROVE  /\ Len(history[x]) <= Len(history'[x])
                 /\ \A k \in 1 .. Len(history[x]) : history'[x][k] = history[x][k]
      BY <1>5, <1>6, <2>2
    <2> QED BY <2>1, <2>2 DEF Extends
  <1>8. \A x \in Rows : Ordered(history'[x], clock)
    BY <1>3, <1>5 DEF DataOK
  <1> QED BY <1>4, <1>7, <1>8

LEMMA DataTouch ==
  ASSUME Typed, DataOK, NEW r \in Rows, Touch(r), UNCHANGED <<clock, form, saved>>
  PROVE  DataOK' /\ history' \in [Rows -> Seq(Nat)]
  <1>1. /\ history' \in [Rows -> Seq(Nat)] /\ Extends
        /\ \A x \in Rows : Ordered(history'[x], clock')
    BY TouchFacts
  <1>2. \A u \in Users : form[u] \in FormType /\ FormTrue(form[u])
    BY DEF Typed, DataOK
  <1>3. \A u \in Users : FormTrue(form[u])'
    <2> SUFFICES ASSUME NEW u \in Users PROVE FormTrue(form[u])'
      OBVIOUS
    <2> DEFINE f == form[u]
    <2>1. f \in FormType /\ FormTrue(f) /\ form'[u] = f
      BY <1>2
    <2> QED BY <1>1, <2>1, FormStays DEF FormTrue
  <1>4. \A e \in saved' : SaveTrue(e)'
    BY <1>1, SaveStays DEF Typed, DataOK
  <1> QED BY <1>1, <1>3, <1>4 DEF DataOK

\* The heart of NoLostUpdate: a form whose version is still the latest time
\* missed only changes of that second.
LEMMA VersionAgrees ==
  ASSUME Typed, DataOK, NEW u \in Users, NEW r \in Edits, form[u].row = r, Unchanged(u, r)
  PROVE  /\ form[u].shown \in 1 .. Len(history[r])
         /\ \A k \in form[u].shown .. Len(history[r]) : history[r][k] = history[r][form[u].shown]
  <1>1. r \in Rows /\ r # "none"
    BY DEF Edits, Rows
  <1>2. /\ form[u].shown \in 1 .. Len(history[r])
        /\ form[u].version = history[r][form[u].shown]
    BY <1>1 DEF DataOK, FormTrue
  <1>3. history[r][Len(history[r])] = history[r][form[u].shown]
    BY <1>2 DEF Unchanged, updated_at
  <1>4. Len(history[r]) \in Nat /\ \A k \in 1 .. Len(history[r]) : history[r][k] \in Nat
    BY <1>1, Lens
  <1>5. ASSUME NEW k \in form[u].shown .. Len(history[r])
        PROVE  history[r][k] = history[r][form[u].shown]
    <2>1. k \in 1 .. Len(history[r]) /\ form[u].shown <= k /\ k <= Len(history[r])
      BY <1>2, <1>4
    <2>2. history[r][form[u].shown] <= history[r][k] /\ history[r][k] <= history[r][Len(history[r])]
      BY <1>1, <1>2, <1>4, <2>1 DEF DataOK, Ordered
    <2> QED BY <1>2, <1>3, <1>4, <2>1, <2>2
  <1> QED BY <1>2, <1>5

LEMMA DataWrites ==
  ASSUME Typed, DataOK, NEW u \in Users, NEW r \in Edits, form[u].row = r, Unchanged(u, r),
         Writes(u, r), UNCHANGED clock
  PROVE  /\ DataOK' /\ history' \in [Rows -> Seq(Nat)]
         /\ saved' \subseteq SaveType /\ form' \in [Users -> FormType]
         /\ \A v \in Users \ {u} : form'[v] = form[v]
  <1> DEFINE e == [row |-> r, shown |-> form[u].shown, found |-> Len(history[r])]
  <1>1. r \in Rows /\ Touch(r) /\ saved' = saved \cup {e} /\ form' = [form EXCEPT ![u] = NoForm]
    BY DEF Edits, Rows, Writes
  <1>2. /\ history' \in [Rows -> Seq(Nat)] /\ Extends
        /\ \A x \in Rows : Ordered(history'[x], clock')
    BY <1>1, TouchFacts
  <1>3. /\ form[u].shown \in 1 .. Len(history[r])
        /\ \A k \in form[u].shown .. Len(history[r]) : history[r][k] = history[r][form[u].shown]
    BY VersionAgrees
  <1>4. Len(history[r]) \in Nat
    BY <1>1, Lens
  <1>5. e \in SaveType /\ SaveTrue(e)
    BY <1>3, <1>4 DEF SaveType, SaveTrue
  <1> HIDE DEF e
  <1>6. NoForm \in FormType /\ NoForm.row = "none"
    BY DEF NoForm, FormType
  <1>7. form' \in [Users -> FormType] /\ form'[u] = NoForm /\ \A v \in Users \ {u} : form'[v] = form[v]
    BY <1>1, <1>6 DEF Typed
  <1>8. \A x \in saved' : SaveTrue(x)'
    BY <1>1, <1>2, <1>5, SaveStays DEF Typed, DataOK
  <1>9. ASSUME NEW v \in Users PROVE FormTrue(form[v])'
    <2>1. CASE v = u
      BY <1>6, <1>7, <2>1 DEF FormTrue
    <2>2. CASE v # u
      <3> DEFINE f == form[v]
      <3>1. f \in FormType /\ FormTrue(f) /\ form'[v] = f
        BY <1>7, <2>2 DEF Typed, DataOK
      <3> QED BY <1>2, <3>1, FormStays DEF FormTrue
    <2> QED BY <2>1, <2>2
  <1>10. DataOK'
    BY <1>2, <1>8, <1>9 DEF DataOK
  <1> QED BY <1>1, <1>2, <1>5, <1>7, <1>10 DEF Typed

LEMMA DataOpen ==
  ASSUME Typed, DataOK, NEW u \in Users, NEW r \in Edits,
         form' = [form EXCEPT ![u] = [row |-> r, shown |-> Len(history[r]), version |-> updated_at(r)]],
         UNCHANGED <<clock, history, saved>>
  PROVE  /\ DataOK' /\ form' \in [Users -> FormType]
         /\ \A v \in Users \ {u} : form'[v] = form[v]
  <1> DEFINE f == [row |-> r, shown |-> Len(history[r]), version |-> updated_at(r)]
  <1>1. r \in Rows /\ r # "none"
    BY DEF Edits, Rows
  <1>2. Len(history[r]) \in Nat /\ Len(history[r]) >= 1
    BY <1>1, Lens DEF DataOK, Ordered
  <1>3. updated_at(r) = history[r][Len(history[r])] /\ updated_at(r) \in Nat
    BY <1>1, <1>2, Lens DEF updated_at
  <1>4. f \in FormType /\ f.row = r /\ f.shown \in 1 .. Len(history[r]) /\ f.version = history[r][f.shown]
    BY <1>2, <1>3 DEF FormType
  <1>5. form' = [form EXCEPT ![u] = f]
    OBVIOUS
  <1> HIDE DEF f
  <1>6. form' \in [Users -> FormType] /\ form'[u] = f /\ \A v \in Users \ {u} : form'[v] = form[v]
    BY <1>4, <1>5 DEF Typed
  <1>7. \A v \in Users : FormTrue(form[v])'
    BY <1>4, <1>6 DEF DataOK, FormTrue
  <1>8. (\A x \in Rows : Ordered(history'[x], clock')) /\ (\A e \in saved' : SaveTrue(e)')
    BY DEF DataOK, SaveTrue
  <1> QED BY <1>6, <1>7, <1>8 DEF DataOK

---------------------------------------------------------------------------
(* Requests and connections.                                               *)

LEMMA IdleType == Idle \in ReqType /\ Idle.pc = "idle" /\ Idle.conn = NoConn
  <1>1. (CHOOSE x \in Contents : TRUE) \in Contents
    BY EditingAssumption
  <1>2. <<>> \in Seq(Rows)
    OBVIOUS
  <1> QED BY <1>1, <1>2 DEF Idle, ReqType, Places, AllOps, Edits

LEMMA OrderType ==
  ASSUME NEW op \in AllOps
  PROVE  LockOrder(op) \in Seq(Rows)
  <1>1. /\ <<>> \in Seq(Rows) /\ <<"case">> \in Seq(Rows) /\ <<"item">> \in Seq(Rows)
        /\ <<"place">> \in Seq(Rows)
    BY DEF Rows
  <1>2. <<"item", "case">> \in Seq(Rows) /\ <<"case", "item">> \in Seq(Rows)
    BY DEF Rows
  <1>3. LockOrder(op) \in {<<>>, <<"case">>, <<"item">>, <<"place">>, <<"item", "case">>, <<"case", "item">>}
    BY DEF LockOrder
  <1> QED BY <1>1, <1>2, <1>3

\* The other fields of a request that goes on.
LEMMA ToFacts ==
  ASSUME Typed, NEW u \in Users, NEW p \in Places, To(u, p)
  PROVE  /\ req' \in [Users -> ReqType] /\ req'[u].pc = p
         /\ req'[u].op = req[u].op /\ req'[u].conn = req[u].conn
         /\ \A v \in Users \ {u} : req'[v] = req[v]
  <1> DEFINE q == [req[u] EXCEPT !.pc = p]
  <1>1. req[u] \in ReqType
    BY DEF Typed
  <1>2. q \in ReqType /\ q.pc = p /\ q.op = req[u].op /\ q.conn = req[u].conn
    BY <1>1 DEF ReqType
  <1>3. req' = [req EXCEPT ![u] = q]
    BY DEF To
  <1> HIDE DEF q
  <1> QED BY <1>2, <1>3 DEF Typed

\* Connections stay where they are.
LEMMA KeptSame ==
  ASSUME Kept, UNCHANGED <<pool, dropped, actor>>, \A v \in Users : req'[v].conn = req[v].conn
  PROVE  Kept'
  BY DEF Kept

\* The rows a transaction held are free when it ends.
LEMMA LocksEnd ==
  ASSUME Typed, LocksOK, NEW u \in Users, \A v \in Users \ {u} : req'[v] = req[v],
         lock' = Released(u) \/ (lock' = lock /\ req[u].pc # "lock")
  PROVE  lock' \in [Rows -> Users \cup {NoUser}] /\ LocksOK'
  <1>1. lock' \in [Rows -> Users \cup {NoUser}]
    BY DEF Typed, Released
  <1>2. ASSUME NEW r \in Rows, lock'[r] # NoUser
        PROVE  req'[lock'[r]].pc = "lock"
    <2>1. lock'[r] = lock[r] /\ lock[r] # u /\ lock[r] \in Users
      BY <1>1, <1>2, EditingAssumption DEF Typed, Released, LocksOK
    <2> QED BY <1>2, <2>1 DEF LocksOK
  <1> QED BY <1>1, <1>2 DEF LocksOK

\* The types of the rows and the forms, after a step.
RowsTyped ==
  /\ clock \in Nat /\ history \in [Rows -> Seq(Nat)] /\ form \in [Users -> FormType]
  /\ saved \subseteq SaveType

\* A step that ends the work of a request.
LEMMA GoEnd ==
  ASSUME IInv, NEW u \in Users, To(u, "end"), UNCHANGED <<pool, dropped, actor>>,
         lock' = Released(u) \/ (lock' = lock /\ req[u].pc # "lock"),
         \A v \in Users \ {u} : form'[v] = form[v],
         RowsTyped', DataOK', TriggersNameTheActor'
  PROVE  IInv'
  <1>1. /\ req' \in [Users -> ReqType] /\ req'[u].pc = "end"
        /\ req'[u].op = req[u].op /\ req'[u].conn = req[u].conn
        /\ \A v \in Users \ {u} : req'[v] = req[v]
    BY ToFacts DEF IInv, Places
  <1>2. Kept'
    BY <1>1, KeptSame DEF IInv
  <1>3. lock' \in [Rows -> Users \cup {NoUser}] /\ LocksOK'
    BY <1>1, LocksEnd DEF IInv
  <1>4. ASSUME NEW v \in Users PROVE Holds(v)'
    <2>1. CASE v = u
      BY <1>1, <2>1 DEF Holds
    <2>2. CASE v # u
      BY <1>1, <2>2 DEF IInv, Holds
    <2> QED BY <2>1, <2>2
  <1>5. Typed'
    BY <1>1, <1>3 DEF IInv, Typed, RowsTyped
  <1> QED BY <1>2, <1>3, <1>4, <1>5 DEF IInv

\* The rows as they were.
LEMMA RowsSame ==
  ASSUME IInv, UNCHANGED <<clock, data, form>>
  PROVE  RowsTyped' /\ DataOK' /\ TriggersNameTheActor'
  <1>1. UNCHANGED <<clock, history, form, saved, granted>>
    BY DEF data
  <1>2. DataOK'
    BY <1>1, DataSame DEF IInv, Typed
  <1> QED BY <1>1, <1>2 DEF IInv, Typed, RowsTyped, TriggersNameTheActor

LEMMA ArriveStep ==
  ASSUME IInv, NEW u \in Users, NEW op \in Ops, NEW new \in Contents, Arrive(u, op, new)
  PROVE  IInv'
  <1> DEFINE q == [Idle EXCEPT !.pc = "borrow", !.op = op, !.new = new]
  <1>1. op \in AllOps
    BY EditingAssumption
  <1>2. q \in ReqType /\ q.pc = "borrow" /\ q.op = op /\ q.conn = NoConn
    BY <1>1, IdleType DEF ReqType, Places
  <1>3. req[u].pc = "idle" /\ req' = [req EXCEPT ![u] = q] /\ (op \in Edits => form[u].row = op)
        /\ UNCHANGED <<clock, data, lock, pool, dropped, actor, form>>
    BY DEF Arrive
  <1> HIDE DEF q
  <1>4. req' \in [Users -> ReqType] /\ req'[u] = q /\ \A v \in Users \ {u} : req'[v] = req[v]
    BY <1>2, <1>3 DEF IInv, Typed
  <1>5. RowsTyped' /\ DataOK' /\ TriggersNameTheActor'
    BY <1>3, RowsSame
  <1>6. Kept'
    <2>1. \A v \in Users : req'[v].conn = req[v].conn
      BY <1>2, <1>3, <1>4 DEF IInv, Holds
    <2> QED BY <1>3, <2>1, KeptSame DEF IInv
  <1>7. LocksOK'
    BY <1>3, <1>4, LocksEnd DEF IInv
  <1>8. \A v \in Users : Holds(v)'
    BY <1>2, <1>3, <1>4 DEF IInv, Holds
  <1>9. Typed'
    BY <1>3, <1>4, <1>5 DEF IInv, Typed, RowsTyped
  <1> QED BY <1>5, <1>6, <1>7, <1>8, <1>9 DEF IInv

LEMMA get_dbStep ==
  ASSUME IInv, NEW u \in Users, get_db(u)
  PROVE  IInv'
  <1>1. PICK c \in pool :
          /\ pool' = pool \ {c}
          /\ actor' = [actor EXCEPT ![c] = NoUser]
          /\ req' = [req EXCEPT ![u].pc = "load", ![u].conn = c]
    BY DEF get_db
  <1>2. req[u].pc = "borrow" /\ UNCHANGED <<clock, data, lock, dropped, form>>
    BY DEF get_db
  <1>3. req[u].conn = NoConn /\ c \in Conns /\ c # NoConn
    BY <1>2, EditingAssumption DEF IInv, Typed, Holds
  <1> DEFINE loading == [req[u] EXCEPT !.pc = "load"]
             q == [loading EXCEPT !.conn = c]
  <1>4. loading \in ReqType /\ loading.pc = "load" /\ loading.op = req[u].op
    BY DEF IInv, Typed, ReqType, Places
  <1>5. req' = [req EXCEPT ![u] = q]
    BY <1>1 DEF IInv, Typed
  <1> HIDE DEF loading
  <1>6. q \in ReqType /\ q.pc = "load" /\ q.op = req[u].op /\ q.conn = c
    BY <1>3, <1>4 DEF ReqType, Places
  <1> HIDE DEF q
  <1>7. req' \in [Users -> ReqType] /\ req'[u] = q /\ \A v \in Users \ {u} : req'[v] = req[v]
    BY <1>5, <1>6 DEF IInv, Typed
  <1>8. RowsTyped' /\ DataOK' /\ TriggersNameTheActor'
    BY <1>2, RowsSame
  <1>9. \A v \in Users : req[v].conn # c
    BY <1>1 DEF IInv, Kept
  <1>10. /\ actor' \in [Conns -> Users \cup {NoUser}] /\ actor'[c] = NoUser
         /\ \A x \in Conns \ {c} : actor'[x] = actor[x]
    BY <1>1, <1>3 DEF IInv, Typed
  <1>11. Kept'
    <2>1. ASSUME NEW x \in Conns \ (pool' \cup dropped')
          PROVE  \E v \in Users : req'[v].conn = x
      <3>1. CASE x = c
        BY <1>6, <1>7, <3>1
      <3>2. CASE x # c
        <4>1. x \in Conns \ (pool \cup dropped)
          BY <1>1, <1>2, <2>1, <3>2
        <4>2. PICK v \in Users : req[v].conn = x
          BY <4>1 DEF IInv, Kept
        <4>3. v # u
          BY <1>3, <4>1, <4>2, EditingAssumption
        <4> QED BY <1>7, <4>2, <4>3
      <3> QED BY <3>1, <3>2
    <2>2. ASSUME NEW v \in Users, NEW w \in Users, v # w, req'[v].conn # NoConn
          PROVE  req'[v].conn # req'[w].conn
      BY <1>6, <1>7, <1>9, <2>2 DEF IInv, Kept
    <2>3. ASSUME NEW v \in Users PROVE req'[v].conn \notin pool' \cup dropped'
      <3>1. c \notin dropped
        BY <1>1 DEF IInv, Typed
      <3> QED BY <1>1, <1>2, <1>6, <1>7, <3>1 DEF IInv, Kept
    <2>4. \A x \in pool' : actor'[x] = NoUser
      BY <1>1, <1>10 DEF IInv, Kept, Typed
    <2> QED BY <2>1, <2>2, <2>3, <2>4 DEF Kept
  <1>12. LocksOK'
    BY <1>2, <1>7, LocksEnd DEF IInv
  <1>13. ASSUME NEW v \in Users PROVE Holds(v)'
    <2>1. CASE v = u
      BY <1>2, <1>3, <1>6, <1>7, <2>1 DEF IInv, Holds
    <2>2. CASE v # u
      <3>1. req'[v] = req[v] /\ Holds(v) /\ req[v].conn # c
        BY <1>7, <1>9, <2>2 DEF IInv
      <3> QED BY <1>2, <1>10, <3>1 DEF Holds
    <2> QED BY <2>1, <2>2
  <1>14. Typed'
    BY <1>1, <1>2, <1>7, <1>8, <1>10 DEF IInv, Typed, RowsTyped
  <1> QED BY <1>8, <1>11, <1>12, <1>13, <1>14 DEF IInv

LEMMA SetFailsStep ==
  ASSUME IInv, NEW u \in Users, SetFails(u)
  PROVE  IInv'
  <1>1. PICK c \in pool : pool' = pool \ {c} /\ dropped' = dropped \cup {c}
    BY DEF SetFails
  <1>2. req[u].pc = "borrow" /\ To(u, "end") /\ UNCHANGED <<clock, data, lock, actor, form>>
    BY DEF SetFails
  <1>3. /\ req' \in [Users -> ReqType] /\ req'[u].pc = "end"
        /\ req'[u].op = req[u].op /\ req'[u].conn = req[u].conn
        /\ \A v \in Users \ {u} : req'[v] = req[v]
    BY <1>2, ToFacts DEF IInv, Places
  <1>4. RowsTyped' /\ DataOK' /\ TriggersNameTheActor'
    BY <1>2, RowsSame
  <1>5. pool' \cup dropped' = pool \cup dropped /\ pool' \subseteq pool
        /\ pool' \cap dropped' = {}
    BY <1>1 DEF IInv, Typed
  <1>6. \A v \in Users : req'[v].conn = req[v].conn
    BY <1>3
  <1>7. Kept'
    BY <1>2, <1>5, <1>6 DEF IInv, Kept
  <1>8. LocksOK'
    BY <1>2, <1>3, LocksEnd DEF IInv
  <1>9. \A v \in Users : Holds(v)'
    BY <1>2, <1>3 DEF IInv, Holds
  <1>10. Typed'
    BY <1>1, <1>2, <1>3, <1>4, <1>5 DEF IInv, Typed, RowsTyped
  <1> QED BY <1>4, <1>7, <1>8, <1>9, <1>10 DEF IInv

LEMMA set_audit_userStep ==
  ASSUME IInv, NEW u \in Users, set_audit_user(u)
  PROVE  IInv'
  <1>1. /\ req[u].pc = "load" /\ To(u, "check")
        /\ actor' = [actor EXCEPT ![req[u].conn] = u]
        /\ UNCHANGED <<clock, data, lock, pool, dropped, form>>
    BY DEF set_audit_user
  <1>2. /\ req' \in [Users -> ReqType] /\ req'[u].pc = "check"
        /\ req'[u].op = req[u].op /\ req'[u].conn = req[u].conn
        /\ \A v \in Users \ {u} : req'[v] = req[v]
    BY <1>1, ToFacts DEF IInv, Places
  <1>3. RowsTyped' /\ DataOK' /\ TriggersNameTheActor'
    BY <1>1, RowsSame
  <1>4. req[u].conn \in Conns /\ req[u].conn # NoConn
    BY <1>1, EditingAssumption DEF IInv, Holds
  <1>5. /\ actor' \in [Conns -> Users \cup {NoUser}] /\ actor'[req[u].conn] = u
        /\ \A x \in Conns \ {req[u].conn} : actor'[x] = actor[x]
    BY <1>1, <1>4 DEF IInv, Typed
  <1>6. Kept'
    <2>1. \A v \in Users : req'[v].conn = req[v].conn
      BY <1>2
    <2>2. \A x \in pool' : actor'[x] = NoUser
      BY <1>1, <1>4, <1>5 DEF IInv, Kept, Typed
    <2> QED BY <1>1, <2>1, <2>2 DEF IInv, Kept
  <1>7. LocksOK'
    BY <1>1, <1>2, LocksEnd DEF IInv
  <1>8. ASSUME NEW v \in Users PROVE Holds(v)'
    <2>1. CASE v = u
      BY <1>1, <1>2, <1>4, <1>5, <2>1 DEF IInv, Holds
    <2>2. CASE v # u
      <3>1. req'[v] = req[v] /\ Holds(v) /\ req[v].conn # req[u].conn
        BY <1>2, <1>4, <2>2 DEF IInv, Kept
      <3> QED BY <1>1, <1>5, <3>1 DEF Holds
    <2> QED BY <2>1, <2>2
  <1>9. Typed'
    BY <1>1, <1>2, <1>3, <1>5 DEF IInv, Typed, RowsTyped
  <1> QED BY <1>3, <1>6, <1>7, <1>8, <1>9 DEF IInv

LEMMA close_dbStep ==
  ASSUME IInv, NEW u \in Users, close_db(u)
  PROVE  IInv'
  <1>1. /\ req[u].pc = "end"
        /\ pool' = IF req[u].conn = NoConn THEN pool ELSE pool \cup {req[u].conn}
        /\ actor' = [c \in Conns |-> IF c = req[u].conn THEN NoUser ELSE actor[c]]
        /\ req' = [req EXCEPT ![u] = Idle]
        /\ UNCHANGED <<clock, data, lock, dropped, form>>
    BY DEF close_db
  <1>2. req' \in [Users -> ReqType] /\ req'[u] = Idle /\ \A v \in Users \ {u} : req'[v] = req[v]
    BY <1>1, IdleType DEF IInv, Typed
  <1>3. RowsTyped' /\ DataOK' /\ TriggersNameTheActor'
    BY <1>1, RowsSame
  <1>4. req[u].conn \in Conns \cup {NoConn} /\ req[u].conn \notin pool \cup dropped
    BY DEF IInv, Typed, ReqType, Kept
  <1>5. /\ actor' \in [Conns -> Users \cup {NoUser}]
        /\ \A x \in Conns : actor'[x] = IF x = req[u].conn THEN NoUser ELSE actor[x]
    BY <1>1 DEF IInv, Typed
  <1>6. pool' \subseteq Conns /\ pool' \cap dropped' = {}
    BY <1>1, <1>4 DEF IInv, Typed
  <1>7. Kept'
    <2>1. ASSUME NEW x \in Conns \ (pool' \cup dropped')
          PROVE  \E v \in Users : req'[v].conn = x
      <3>1. x \in Conns \ (pool \cup dropped) /\ x # req[u].conn
        BY <1>1, <2>1, EditingAssumption
      <3>2. PICK v \in Users : req[v].conn = x
        BY <3>1 DEF IInv, Kept
      <3> QED BY <1>2, <3>1, <3>2
    <2>2. ASSUME NEW v \in Users, NEW w \in Users, v # w, req'[v].conn # NoConn
          PROVE  req'[v].conn # req'[w].conn
      BY <1>2, <2>2, IdleType DEF IInv, Kept
    <2>3. ASSUME NEW v \in Users PROVE req'[v].conn \notin pool' \cup dropped'
      <3>1. CASE v = u
        <4>1. NoConn \notin pool' \cup dropped'
          BY <1>1, <1>6, EditingAssumption DEF IInv, Typed
        <4> QED BY <1>2, <3>1, <4>1, IdleType
      <3>2. CASE v # u
        BY <1>1, <1>2, <3>2 DEF IInv, Kept
      <3> QED BY <3>1, <3>2
    <2>4. ASSUME NEW x \in pool' PROVE actor'[x] = NoUser
      BY <1>1, <1>5, <1>6, <2>4 DEF IInv, Kept
    <2> QED BY <2>1, <2>2, <2>3, <2>4 DEF Kept
  <1>8. LocksOK'
    BY <1>1, <1>2, LocksEnd DEF IInv
  <1>9. ASSUME NEW v \in Users PROVE Holds(v)'
    <2>1. CASE v = u
      BY <1>2, <2>1, IdleType DEF Holds
    <2>2. CASE v # u
      <3>1. req'[v] = req[v] /\ Holds(v) /\ (req[v].conn # NoConn => req[v].conn # req[u].conn)
        BY <1>2, <2>2 DEF IInv, Kept
      <3> QED BY <1>1, <1>5, <3>1, EditingAssumption DEF Holds
    <2> QED BY <2>1, <2>2
  <1>10. Typed'
    BY <1>1, <1>2, <1>3, <1>5, <1>6 DEF IInv, Typed, RowsTyped
  <1> QED BY <1>3, <1>7, <1>8, <1>9, <1>10 DEF IInv

---------------------------------------------------------------------------
(* The page, its locks and its operation.                                  *)

LEMMA CheckPageStep ==
  ASSUME IInv, NEW u \in Users, CheckPage(u)
  PROVE  IInv'
  <1>1. req[u].pc = "check" /\ UNCHANGED <<clock, data, lock, pool, dropped, actor, form>>
    BY DEF CheckPage
  <1>2. RowsTyped' /\ DataOK' /\ TriggersNameTheActor'
    BY <1>1, RowsSame
  <1>3. CASE To(u, "end")
    BY <1>1, <1>2, <1>3, GoEnd
  <1>4. CASE req' = [req EXCEPT ![u].pc = "lock", ![u].todo = LockOrder(req[u].op)]
    <2> DEFINE locking == [req[u] EXCEPT !.pc = "lock"]
               q == [locking EXCEPT !.todo = LockOrder(req[u].op)]
    <2>1. /\ locking \in ReqType /\ locking.pc = "lock" /\ locking.op = req[u].op
          /\ locking.conn = req[u].conn /\ req[u].op \in AllOps
      BY DEF IInv, Typed, ReqType, Places
    <2>2. req' = [req EXCEPT ![u] = q]
      BY <1>4 DEF IInv, Typed
    <2> HIDE DEF locking
    <2>3. q \in ReqType /\ q.pc = "lock" /\ q.op = req[u].op /\ q.conn = req[u].conn
      BY <2>1, OrderType DEF ReqType
    <2> HIDE DEF q
    <2>4. req' \in [Users -> ReqType] /\ req'[u] = q /\ \A v \in Users \ {u} : req'[v] = req[v]
      BY <2>2, <2>3 DEF IInv, Typed
    <2>5. Kept'
      BY <1>1, <2>3, <2>4, KeptSame DEF IInv
    <2>6. LocksOK'
      BY <1>1, <2>4, LocksEnd DEF IInv
    <2>7. \A v \in Users : Holds(v)'
      BY <1>1, <2>3, <2>4 DEF IInv, Holds
    <2>8. Typed'
      BY <1>1, <1>2, <2>4 DEF IInv, Typed, RowsTyped
    <2> QED BY <1>2, <2>5, <2>6, <2>7, <2>8 DEF IInv
  <1> QED BY <1>3, <1>4 DEF CheckPage

LEMMA LockNextStep ==
  ASSUME IInv, NEW u \in Users, LockNext(u)
  PROVE  IInv'
  <1>1. /\ req[u].pc = "lock" /\ req[u].todo # <<>>
        /\ lock' = [lock EXCEPT ![Head(req[u].todo)] = u]
        /\ req' = [req EXCEPT ![u].todo = Tail(req[u].todo)]
        /\ UNCHANGED <<clock, data, pool, dropped, actor, form>>
    BY DEF LockNext
  <1>2. RowsTyped' /\ DataOK' /\ TriggersNameTheActor'
    BY <1>1, RowsSame
  <1>3. req[u] \in ReqType /\ req[u].todo \in Seq(Rows)
    BY DEF IInv, Typed, ReqType
  <1>4. Head(req[u].todo) \in Rows /\ Tail(req[u].todo) \in Seq(Rows)
    BY <1>1, <1>3, HeadTailProperties
  <1> DEFINE q == [req[u] EXCEPT !.todo = Tail(req[u].todo)]
  <1>5. q \in ReqType /\ q.pc = "lock" /\ q.op = req[u].op /\ q.conn = req[u].conn
    BY <1>1, <1>3, <1>4 DEF ReqType
  <1>6. req' = [req EXCEPT ![u] = q]
    BY <1>1
  <1> HIDE DEF q
  <1>7. req' \in [Users -> ReqType] /\ req'[u] = q /\ \A v \in Users \ {u} : req'[v] = req[v]
    BY <1>5, <1>6 DEF IInv, Typed
  <1>8. Kept'
    BY <1>1, <1>5, <1>7, KeptSame DEF IInv
  <1>9. lock' \in [Rows -> Users \cup {NoUser}] /\ LocksOK'
    BY <1>1, <1>4, <1>5, <1>7 DEF IInv, Typed, LocksOK
  <1>10. \A v \in Users : Holds(v)'
    BY <1>1, <1>5, <1>7 DEF IInv, Holds
  <1>11. Typed'
    BY <1>1, <1>2, <1>7, <1>9 DEF IInv, Typed, RowsTyped
  <1> QED BY <1>2, <1>8, <1>9, <1>10, <1>11 DEF IInv

\* The ways to end without a change of any row.
LEMMA NothingStep ==
  ASSUME IInv, NEW u \in Users, PoolExhausted(u) \/ Busy(u) \/ ConnectionLost(u)
  PROVE  IInv'
  <1>1. /\ To(u, "end") /\ UNCHANGED <<clock, data, form, pool, dropped, actor>>
        /\ lock' = Released(u) \/ (lock' = lock /\ req[u].pc # "lock")
    BY DEF PoolExhausted, Busy, ConnectionLost, End
  <1>2. RowsTyped' /\ DataOK' /\ TriggersNameTheActor'
    BY <1>1, RowsSame
  <1> QED BY <1>1, <1>2, GoEnd

\* An operation: its rows, its form and its audit row, if they are in order.
LEMMA OperationEnds ==
  ASSUME IInv, NEW u \in Users, End(u), UNCHANGED <<clock, pool, dropped, actor>>,
         \A v \in Users \ {u} : form'[v] = form[v],
         history' \in [Rows -> Seq(Nat)], form' \in [Users -> FormType], saved' \subseteq SaveType,
         DataOK', TriggersNameTheActor'
  PROVE  IInv'
  <1>1. To(u, "end") /\ lock' = Released(u)
    BY DEF End
  <1>2. RowsTyped'
    BY DEF RowsTyped, IInv, Typed
  <1> QED BY <1>1, <1>2, GoEnd

LEMMA Actors ==
  ASSUME IInv, UNCHANGED granted
  PROVE  TriggersNameTheActor'
  BY DEF IInv, TriggersNameTheActor

LEMMA OpenFormStep ==
  ASSUME IInv, NEW u \in Users, NEW r \in Edits, OpenForm(u, r)
  PROVE  IInv'
  <1>1. /\ form' = [form EXCEPT ![u] = [row |-> r, shown |-> Len(history[r]), version |-> updated_at(r)]]
        /\ End(u) /\ UNCHANGED <<clock, history, saved, granted, pool, dropped, actor>>
    BY DEF OpenForm, data
  <1>2. /\ DataOK' /\ form' \in [Users -> FormType]
        /\ \A v \in Users \ {u} : form'[v] = form[v]
    BY <1>1, DataOpen DEF IInv
  <1>3. TriggersNameTheActor'
    BY <1>1, Actors
  <1>4. history' \in [Rows -> Seq(Nat)] /\ saved' \subseteq SaveType
    BY <1>1 DEF IInv, Typed
  <1> QED BY <1>1, <1>2, <1>3, <1>4, OperationEnds

LEMMA updateStep ==
  ASSUME IInv, NEW u \in Users, NEW r \in Edits, update(u, r)
  PROVE  IInv'
  <1>1. /\ req[u].pc = "lock" /\ req[u].op = r /\ End(u)
        /\ UNCHANGED <<clock, pool, dropped, actor>>
    BY DEF update, Ready
  <1>2. CASE Unchanged(u, r) /\ Writes(u, r)
    <2>1. form[u].row = r
      BY <1>1 DEF IInv, Holds
    <2>2. /\ DataOK' /\ history' \in [Rows -> Seq(Nat)]
          /\ saved' \subseteq SaveType /\ form' \in [Users -> FormType]
          /\ \A v \in Users \ {u} : form'[v] = form[v]
      BY <1>1, <1>2, <2>1, DataWrites DEF IInv
    <2>3. TriggersNameTheActor'
      BY <1>2, Actors DEF Writes
    <2> QED BY <1>1, <2>2, <2>3, OperationEnds
  <1>3. CASE UNCHANGED <<data, form>>
    <2>1. RowsTyped' /\ DataOK' /\ TriggersNameTheActor'
      BY <1>1, <1>3, RowsSame
    <2> QED BY <1>1, <1>3, <2>1, OperationEnds DEF RowsTyped
  <1> QED BY <1>2, <1>3 DEF update

\* An operation that changes a row and no form, or nothing.
LEMMA TouchEnds ==
  ASSUME IInv, NEW u \in Users, NEW r \in Rows, Touch(r) \/ history' = history, End(u),
         UNCHANGED <<clock, granted, saved, pool, dropped, actor, form>>
  PROVE  IInv'
  <1>1. DataOK' /\ history' \in [Rows -> Seq(Nat)]
    <2>1. CASE Touch(r)
      BY <2>1, DataTouch DEF IInv
    <2>2. CASE history' = history
      <3>1. clock' \in Nat /\ clock <= clock' /\ history' \in [Rows -> Seq(Nat)]
        BY <2>2 DEF IInv, Typed
      <3> QED BY <2>2, <3>1, DataSame DEF IInv
    <2> QED BY <2>1, <2>2
  <1>2. TriggersNameTheActor'
    BY Actors
  <1>3. form' \in [Users -> FormType] /\ saved' \subseteq SaveType
    BY DEF IInv, Typed
  <1> QED BY <1>1, <1>2, <1>3, OperationEnds

LEMMA RowSteps ==
  ASSUME IInv, NEW u \in Users,
         update_location(u) \/ change_status(u) \/ transfer(u) \/ create_examination(u)
  PROVE  IInv'
  <1>1. CASE update_location(u)
    <2>1. Touch("place") \/ history' = history
      BY <1>1 DEF update_location
    <2> QED BY <1>1, <2>1, TouchEnds DEF update_location, Rows
  <1>2. CASE change_status(u)
    <2>1. Touch("case") \/ history' = history
      BY <1>2 DEF change_status
    <2> QED BY <1>2, <2>1, TouchEnds DEF change_status, Rows
  <1>3. CASE transfer(u)
    BY <1>3, TouchEnds DEF transfer, Rows
  <1>4. CASE create_examination(u)
    <2>1. End(u) /\ UNCHANGED <<clock, history, granted, saved, pool, dropped, actor, form>>
      BY <1>4 DEF create_examination, data
    <2> QED BY <2>1, TouchEnds DEF Rows
  <1> QED BY <1>1, <1>2, <1>3, <1>4

LEMMA grantStep ==
  ASSUME IInv, NEW u \in Users, grant(u)
  PROVE  IInv'
  <1>1. /\ req[u].pc = "lock" /\ End(u)
        /\ granted' = granted \cup {<<actor[req[u].conn], u>>}
        /\ UNCHANGED <<clock, history, saved, pool, dropped, actor, form>>
    BY DEF grant, Ready
  <1>2. actor[req[u].conn] = u
    BY <1>1 DEF IInv, Holds
  <1>3. TriggersNameTheActor'
    BY <1>1, <1>2 DEF IInv, TriggersNameTheActor
  <1>4. history' \in [Rows -> Seq(Nat)] /\ form' \in [Users -> FormType] /\ saved' \subseteq SaveType
        /\ clock' \in Nat /\ clock <= clock'
    BY <1>1 DEF IInv, Typed
  <1>5. DataOK'
    BY <1>1, <1>4, DataSame DEF IInv
  <1> QED BY <1>1, <1>3, <1>4, <1>5, OperationEnds

LEMMA TickStep ==
  ASSUME IInv, Tick
  PROVE  IInv'
  <1>1. clock' = clock + 1 /\ UNCHANGED <<history, form, saved, granted, lock, pool, dropped, actor, req>>
    BY DEF Tick, data
  <1>2. clock' \in Nat /\ clock <= clock'
    BY <1>1 DEF IInv, Typed
  <1>3. DataOK'
    BY <1>1, <1>2, DataSame DEF IInv
  <1>4. Typed' /\ Kept' /\ LocksOK'
    BY <1>1, <1>2 DEF IInv, Typed, Kept, LocksOK
  <1>5. \A u \in Users : Holds(u)'
    BY <1>1 DEF IInv, Holds
  <1>6. TriggersNameTheActor'
    BY <1>1, Actors
  <1> QED BY <1>3, <1>4, <1>5, <1>6 DEF IInv

LEMMA StutterStep ==
  ASSUME IInv, UNCHANGED vars
  PROVE  IInv'
  <1>1. UNCHANGED <<clock, history, form, saved, granted, lock, pool, dropped, actor, req>>
    BY DEF vars, data
  <1>2. clock' \in Nat /\ clock <= clock'
    BY <1>1 DEF IInv, Typed
  <1>3. DataOK'
    BY <1>1, <1>2, DataSame DEF IInv
  <1>4. Typed' /\ Kept' /\ LocksOK'
    BY <1>1 DEF IInv, Typed, Kept, LocksOK
  <1>5. \A u \in Users : Holds(u)'
    BY <1>1 DEF IInv, Holds
  <1>6. TriggersNameTheActor'
    BY <1>1, Actors
  <1> QED BY <1>3, <1>4, <1>5, <1>6 DEF IInv

LEMMA InitIInv == Init => IInv
  <1> SUFFICES ASSUME Init PROVE IInv
    OBVIOUS
  <1>1. NoForm \in FormType /\ NoForm.row = "none"
    BY DEF NoForm, FormType
  <1>2. <<0>> \in Seq(Nat) /\ Len(<<0>>) = 1 /\ <<0>>[1] = 0
    OBVIOUS
  <1>3. \A r \in Rows : history[r] = <<0>>
    BY DEF Init
  <1>4. Ordered(<<0>>, 0)
    BY DEF Ordered
  <1>5. Typed
    BY <1>1, <1>2, IdleType DEF Init, Typed
  <1>6. DataOK
    BY <1>1, <1>3, <1>4 DEF Init, DataOK, FormTrue
  <1>7. Kept
    BY IdleType, EditingAssumption DEF Init, Kept
  <1>8. LocksOK
    BY DEF Init, LocksOK
  <1>9. \A u \in Users : Holds(u)
    BY IdleType DEF Init, Holds
  <1>10. TriggersNameTheActor
    BY DEF Init, TriggersNameTheActor
  <1> QED BY <1>5, <1>6, <1>7, <1>8, <1>9, <1>10 DEF IInv

LEMMA NextStep == IInv /\ [Next]_vars => IInv'
  <1> SUFFICES ASSUME IInv, [Next]_vars PROVE IInv'
    OBVIOUS
  <1>1. ASSUME NEW u \in Users, ServerStep(u) PROVE IInv'
    BY <1>1, NothingStep, get_dbStep, set_audit_userStep, close_dbStep, CheckPageStep,
       LockNextStep, OpenFormStep, updateStep, RowSteps, grantStep
       DEF ServerStep, Operation
  <1>2. CASE Next
    BY <1>1, <1>2, ArriveStep, SetFailsStep, NothingStep, TickStep DEF Next
  <1> QED BY <1>2, StutterStep

LEMMA Invariance == Spec => []IInv
  BY InitIInv, NextStep, PTL DEF Spec

---------------------------------------------------------------------------

\* update_case and update_evidence compare updated_at: an edit is saved over
\* another's change only if that change was made in the second that the form
\* showed, for any number of users, forms and edits.
THEOREM NoUpdateIsLost == Spec => []NoLostUpdate
  <1>1. IInv => NoLostUpdate
    BY DEF IInv, DataOK, SaveTrue, NoLostUpdate
  <1> QED BY <1>1, Invariance, PTL

\* set_audit_user and close_db: an audit row written by a role trigger names
\* the user whose request granted the role, whoever had the connection before.
THEOREM AuditNamesTheActor == Spec => []TriggersNameTheActor
  <1>1. IInv => TriggersNameTheActor
    BY DEF IInv
  <1> QED BY <1>1, Invariance, PTL

\* get_db and close_db: no connection is shared or lost, but for those whose
\* SET failed, and one in the pool has neither a user nor a transaction.
THEOREM ConnectionsKept == Spec => []PoolIsKept
  <1>1. IInv => PoolIsKept
    <2> SUFFICES ASSUME IInv PROVE PoolIsKept
      OBVIOUS
    <2>1. ASSUME NEW r \in Rows, lock[r] # NoUser PROVE req[lock[r]].conn # NoConn
      <3>1. lock[r] \in Users /\ req[lock[r]].pc = "lock"
        BY <2>1 DEF IInv, Typed, LocksOK
      <3>2. req[lock[r]].conn \in Conns
        BY <3>1 DEF IInv, Holds
      <3> QED BY <3>2, EditingAssumption
    <2> QED BY <2>1 DEF IInv, Kept, PoolIsKept
  <1> QED BY <1>1, Invariance, PTL

=============================================================================
