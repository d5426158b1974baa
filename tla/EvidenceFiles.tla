---------------------------- MODULE EvidenceFiles ----------------------------
(***************************************************************************)
(* The stored file of an evidence item and its reference hashes: two       *)
(* stores (local disk, S3) that no database transaction covers, and the    *)
(* tables that say what they hold.                                         *)
(*                                                                         *)
(* A web request (files.py) writes the object first and records it later;  *)
(* migrate.py copies objects between the stores while requests go on.      *)
(* Everything that can fail between two steps does: the database refuses   *)
(* or drops the connection, a process dies, a removal fails, a stored copy *)
(* is damaged from outside.                                                *)
(*                                                                         *)
(* A content stands for its own SHA-256.  Damaged is any content whose     *)
(* hash no record holds.  Hash actions lock the item's row and read after  *)
(* it (_lock_item, then _current_hash), in one transaction.                *)
(***************************************************************************)
EXTENDS Naturals, Sequences

CONSTANTS
  Items,      \* evidence items
  Objects,    \* generated object ids: bounds the number of uploads
  Contents,   \* contents of files
  Workers,    \* web requests being served at a time
  Movers,     \* running "flask storage-migrate" commands
  Home,       \* EVIDENCE_STORAGE_BACKEND, where new files go
  MaxHashes,  \* bound on the hashes of an item
  MaxChecks,  \* bound on the verifications of an item
  MaxPlaces,  \* bound on the locations of a file
  Damaged, None

Backends == {"local", "s3"}
Data     == Contents \cup {Damaged}
File     == [obj : Objects, sha : Contents]

ASSUME FilesAssumption ==
  /\ Home \in Backends
  /\ MaxHashes \in Nat \ {0} /\ MaxChecks \in Nat /\ MaxPlaces \in Nat \ {0}
  /\ Damaged \notin Contents
  /\ None \notin Items \cup Objects \cup Data \cup Workers \cup File

VARIABLES
  store,       \* what each backend holds under each object id
  issued,      \* object ids generated so far: uuid4 never repeats
  registered,  \* evidence rows
  hashes,      \* evidence_hashes of an item, each superseding the one before
  checks,      \* hash_verifications of an item
  files,       \* evidence_files: at most one row per item (uq_ef_evidence)
  places,      \* evidence_file_locations of its file, the latest is where it is
  row,         \* the transaction that holds the lock of the item's row
  req,         \* each web request
  move,        \* each migration
  stranded,    \* history: unrecorded objects that nobody is left to remove
  doubtful,    \* history: objects removed after a COMMIT whose reply was lost
  damaged      \* history: the copies damaged from outside

tables == <<registered, hashes, checks, files, places>>
vars   == <<store, issued, tables, row, req, move, stranded, doubtful, damaged>>

Check == [hash : 1 .. MaxHashes, computed : Data, result : {"Verified", "Failed"}]

Req  == [pc   : {"idle", "stored", "registered", "hashed", "locked"},
         op   : {"none", "register", "attach", "record", "verify", "correct"},
         item : Items \cup {None},
         obj  : Objects \cup {None},
         sha  : Data \cup {None},
         cur  : 0 .. MaxHashes]
Request(pc, op, i, o, c, k) ==
  [pc |-> pc, op |-> op, item |-> i, obj |-> o, sha |-> c, cur |-> k]
Idle == Request("idle", "none", None, None, None, 0)

Move  == [pc     : {"idle", "listed", "checked", "copy", "copied", "record"},
          item   : Items \cup {None},
          from   : Backends,
          copied : BOOLEAN]
AtRest == [pc |-> "idle", item |-> None, from |-> Home, copied |-> FALSE]

Other(b)  == IF b = "local" THEN "s3" ELSE "local"
Places(i) == {places[i][k] : k \in 1 .. Len(places[i])}

\* get_file: the backend of the latest location row.
Backend(i) == places[i][Len(places[i])]

\* _current_hash: the hash that no other one supersedes; 0 when there is none.
CurrentHash(i) == Len(hashes[i])

Done(p)   == req' = [req EXCEPT ![p] = Idle]
Unlock(p) == row' = [i \in Items |-> IF row[i] = p THEN None ELSE row[i]]

---------------------------------------------------------------------------
\* Storing, recording and discarding an object.

\* put: a new object under an id of its own, hashed as it is written.
Put(o, c) ==
  /\ o \notin issued
  /\ issued' = issued \cup {o}
  /\ store' = [store EXCEPT ![Home][o] = c]

\* put raises although the object is there, and _store has no id to discard: an
\* S3 upload that took effect, whose reply was lost and whose retry is answered
\* 412; a local write whose clean-up or chmod fails, or that is killed halfway.
\* (A refusal that leaves nothing changes no state.)
StoreFails(p, o, d) ==
  /\ req[p].pc = "idle"
  /\ d = Damaged => Home = "local"   \* half a file
  /\ Put(o, d)
  /\ stranded' = stranded \cup {o}
  /\ UNCHANGED <<tables, row, req, move, doubtful, damaged>>

\* _discard: a removal that fails is logged and the request goes on.
Discard(p) ==
  \/ /\ store' = [store EXCEPT ![Home][req[p].obj] = None]
     /\ UNCHANGED stranded
  \/ /\ stranded' = stranded \cup {req[p].obj}
     /\ UNCHANGED store

\* _insert_file_row: the file row and its first location row.
InsertFileRow(p) ==
  /\ files' = [files EXCEPT ![req[p].item] = [obj |-> req[p].obj, sha |-> req[p].sha]]
  /\ places' = [places EXCEPT ![req[p].item] = <<Home>>]

---------------------------------------------------------------------------
\* register_with_file.

RegisterStore(p, o, c) ==
  /\ req[p].pc = "idle"
  /\ Put(o, c)
  /\ req' = [req EXCEPT ![p] = Request("stored", "register", None, o, c, 0)]
  /\ UNCHANGED <<tables, row, move, stranded, doubtful, damaged>>

\* The typed hash differs, or register_evidence raises anything.  (If only the
\* reply of its COMMIT was lost, that is RegisterPlain and then this step.)
RegisterRefused(p) ==
  /\ req[p].pc = "stored" /\ req[p].op = "register"
  /\ Discard(p)
  /\ Done(p)
  /\ UNCHANGED <<issued, tables, row, move, doubtful, damaged>>

\* Mutant: the item is registered without the file's hash.
RegisterEvidence_NoHash(p, i) ==
  /\ req[p].pc = "stored" /\ req[p].op = "register"
  /\ i \notin registered
  /\ registered' = registered \cup {i}
  /\ req' = [req EXCEPT ![p] = [@ EXCEPT !.pc = "registered", !.item = i]]
  /\ UNCHANGED <<store, issued, hashes, checks, files, places, row, move,
                 stranded, doubtful, damaged>>

\* sp_register_evidence, with the file's SHA-256 as the original hash.
RegisterEvidence(p, i) ==
  /\ req[p].pc = "stored" /\ req[p].op = "register"
  /\ i \notin registered
  /\ registered' = registered \cup {i}
  /\ hashes' = [hashes EXCEPT ![i] = <<req[p].sha>>]
  /\ req' = [req EXCEPT ![p] = [@ EXCEPT !.pc = "registered", !.item = i]]
  /\ UNCHANGED <<store, issued, checks, files, places, row, move,
                 stranded, doubtful, damaged>>

\* Errors that no handler sees: the query for evidence_id fails (it is in no try
\* block), or the connection is lost in the second transaction (transaction()'s
\* own rollback then raises a connector error, which is no DatabaseError).  The
\* item stays registered and the object is neither recorded nor removed.
RegisterAborts(p) ==
  /\ req[p].pc = "registered"
  /\ stranded' = stranded \cup {req[p].obj}
  /\ Done(p)
  /\ UNCHANGED <<store, issued, tables, row, move, doubtful, damaged>>

\* The second transaction.  The foreign key of evidence_files reads the item's
\* row under a shared lock, so it waits for a hash action that holds the row.
RecordFile(p) ==
  /\ req[p].pc = "registered"
  /\ row[req[p].item] = None
  /\ files[req[p].item] = None
  /\ InsertFileRow(p)
  /\ Done(p)
  /\ UNCHANGED <<store, issued, registered, hashes, checks, row, move,
                 stranded, doubtful, damaged>>

\* A second file for the item (uq_ef_evidence) or another refusal by the database.
RecordFileFails(p) ==
  /\ req[p].pc = "registered"
  /\ Discard(p)
  /\ Done(p)
  /\ UNCHANGED <<issued, tables, row, move, doubtful, damaged>>

\* Registration without a file, with or without a typed hash.
RegisterPlain(i, h) ==
  /\ i \notin registered
  /\ registered' = registered \cup {i}
  /\ hashes' = [hashes EXCEPT ![i] = h]
  /\ UNCHANGED <<store, issued, checks, files, places, row, req, move,
                 stranded, doubtful, damaged>>

---------------------------------------------------------------------------
\* attach.

AttachStore(p, i, o, c) ==
  /\ req[p].pc = "idle"
  /\ i \in registered
  /\ files[i] = None
  /\ Put(o, c)
  /\ req' = [req EXCEPT ![p] = Request("stored", "attach", i, o, c, 0)]
  /\ UNCHANGED <<tables, row, move, stranded, doubtful, damaged>>

\* Mutant: the item's row is not locked while the transaction decides.
Lock_NotHeld(p, i) == row[i] = None /\ row' = row

\* SELECT ... FOR UPDATE on the item's row.
Lock(p, i) ==
  /\ row[i] = None
  /\ row' = [row EXCEPT ![i] = p]

AttachLock(p) ==
  /\ req[p].pc = "stored" /\ req[p].op = "attach"
  /\ Lock(p, req[p].item)
  /\ req' = [req EXCEPT ![p] = [@ EXCEPT !.pc = "locked",
                                          !.cur = CurrentHash(req[p].item)]]
  /\ UNCHANGED <<store, issued, tables, move, stranded, doubtful, damaged>>

\* What attach writes: the original hash if there was none, and the file rows.
AttachRows(p) ==
  LET i == req[p].item
  IN  /\ req[p].pc = "locked" /\ req[p].op = "attach"
      /\ files[i] = None
      /\ IF req[p].cur = 0 THEN hashes[i] = <<>>   \* uq_eh_one_root
                           ELSE hashes[i][req[p].cur] = req[p].sha
      /\ hashes' = IF req[p].cur # 0 THEN hashes
                   ELSE [hashes EXCEPT ![i] = <<req[p].sha>>]
      /\ InsertFileRow(p)
      /\ Unlock(p)
      /\ Done(p)
      /\ UNCHANGED <<issued, registered, checks, move, damaged>>

AttachCommit(p) ==
  /\ AttachRows(p)
  /\ UNCHANGED <<store, stranded, doubtful>>

\* COMMIT took effect but its reply was lost: attach sees an exception and
\* removes the object that is now on record.
AttachReplyLost(p) ==
  /\ AttachRows(p)
  /\ store' = [store EXCEPT ![Home][req[p].obj] = None]
  /\ doubtful' = doubtful \cup {req[p].obj}
  /\ UNCHANGED stranded

\* Mutant: a refusal is raised without removing the object.
AttachRefused_KeepsObject(p) ==
  /\ req[p].pc \in {"stored", "locked"} /\ req[p].op = "attach"
  /\ Unlock(p)
  /\ Done(p)
  /\ UNCHANGED <<store, stranded, issued, tables, move, doubtful, damaged>>

\* Refused (a file is there, or its hash differs from the reference hash), or
\* any other exception: rolled back, then discarded.
AttachRefused(p) ==
  /\ req[p].pc \in {"stored", "locked"} /\ req[p].op = "attach"
  /\ Discard(p)
  /\ Unlock(p)
  /\ Done(p)
  /\ UNCHANGED <<issued, tables, move, doubtful, damaged>>

---------------------------------------------------------------------------
\* Hash actions: record_original_hash, verify, correct_hash.

\* Mutant: a copy that cannot be read is checked like any other.
HashStored_Unread(p, i) ==
  /\ req[p].pc = "idle"
  /\ files[i] # None
  /\ req' = [req EXCEPT ![p] = Request("hashed", "verify", i, None,
                                         store[Backend(i)][files[i].obj], 0)]
  /\ UNCHANGED <<store, issued, tables, row, move, stranded, doubtful, damaged>>

\* verify_stored: the copy is hashed where get_file says it is, before the
\* transaction starts.
HashStored(p, i) ==
  /\ req[p].pc = "idle"
  /\ files[i] # None
  /\ store[Backend(i)][files[i].obj] # None
  /\ req' = [req EXCEPT ![p] = Request("hashed", "verify", i, None,
                                         store[Backend(i)][files[i].obj], 0)]
  /\ UNCHANGED <<store, issued, tables, row, move, stranded, doubtful, damaged>>

VerifyLock(p) ==
  /\ req[p].pc = "hashed"
  /\ Lock(p, req[p].item)
  /\ req' = [req EXCEPT ![p] = [@ EXCEPT !.pc = "locked",
                                          !.cur = CurrentHash(req[p].item)]]
  /\ UNCHANGED <<store, issued, tables, move, stranded, doubtful, damaged>>

\* The hash pages: a typed hash or that of a sample file.
HashLock(p, op, i, c) ==
  /\ req[p].pc = "idle"
  /\ i \in registered
  /\ Lock(p, i)
  /\ req' = [req EXCEPT ![p] = Request("locked", op, i, None, c, CurrentHash(i))]
  /\ UNCHANGED <<store, issued, tables, move, stranded, doubtful, damaged>>

\* record_original_hash; uq_eh_one_root allows one original per item.
RecordOriginal(p) ==
  LET i == req[p].item
  IN  /\ req[p].pc = "locked" /\ req[p].op = "record"
      /\ req[p].cur = 0
      /\ hashes[i] = <<>>
      /\ hashes' = [hashes EXCEPT ![i] = <<req[p].sha>>]
      /\ Unlock(p)
      /\ Done(p)
      /\ UNCHANGED <<store, issued, registered, checks, files, places, move,
                     stranded, doubtful, damaged>>

\* correct_hash; uq_eh_supersedes lets a hash be superseded once.
\* Bound: MaxHashes.
CorrectHash(p) ==
  LET i == req[p].item
  IN  /\ req[p].pc = "locked" /\ req[p].op = "correct"
      /\ req[p].cur # 0
      /\ hashes[i][req[p].cur] # req[p].sha
      /\ req[p].cur = Len(hashes[i]) /\ Len(hashes[i]) < MaxHashes
      /\ hashes' = [hashes EXCEPT ![i] = Append(@, req[p].sha)]
      /\ Unlock(p)
      /\ Done(p)
      /\ UNCHANGED <<store, issued, registered, checks, files, places, move,
                     stranded, doubtful, damaged>>

\* trg_hv_set_result: the result of a verification against hash h.
Result(i, h, c) == IF hashes[i][h] = c THEN "Verified" ELSE "Failed"

\* Mutant: the check is compared with the original hash, superseded or not.
Verify_Original(p) ==
  LET i == req[p].item
  IN  /\ req[p].pc = "locked" /\ req[p].op = "verify"
      /\ req[p].cur # 0
      /\ Len(checks[i]) < MaxChecks
      /\ checks' = [checks EXCEPT ![i] =
           Append(@, [hash |-> req[p].cur, computed |-> req[p].sha,
                      result |-> Result(i, 1, req[p].sha)])]
      /\ Unlock(p)
      /\ Done(p)
      /\ UNCHANGED <<store, issued, registered, hashes, files, places, move,
                     stranded, doubtful, damaged>>

\* verify; the trigger refuses a superseded hash.  Bound: MaxChecks.
Verify(p) ==
  LET i == req[p].item
  IN  /\ req[p].pc = "locked" /\ req[p].op = "verify"
      /\ req[p].cur # 0 /\ req[p].cur = Len(hashes[i])
      /\ Len(checks[i]) < MaxChecks
      /\ checks' = [checks EXCEPT ![i] =
           Append(@, [hash |-> req[p].cur, computed |-> req[p].sha,
                      result |-> Result(i, req[p].cur, req[p].sha)])]
      /\ Unlock(p)
      /\ Done(p)
      /\ UNCHANGED <<store, issued, registered, hashes, files, places, move,
                     stranded, doubtful, damaged>>

\* A refusal or a database error: rolled back.
HashRefused(p) ==
  /\ \/ req[p].pc = "hashed"
     \/ req[p].pc = "locked" /\ req[p].op # "attach"
  /\ Unlock(p)
  /\ Done(p)
  /\ UNCHANGED <<store, issued, tables, move, stranded, doubtful, damaged>>

\* The server process dies: the connection's transaction is rolled back and an
\* object that was stored stays.
Crash(p) ==
  /\ req[p].pc # "idle"
  /\ stranded' = IF req[p].obj = None THEN stranded ELSE stranded \cup {req[p].obj}
  /\ Unlock(p)
  /\ Done(p)
  /\ UNCHANGED <<store, issued, tables, move, doubtful, damaged>>

\* Damage from outside: a failing disk, a restored backup, a changed file.
Damage(b, o) ==
  /\ store[b][o] \in Contents
  /\ store' = [store EXCEPT ![b][o] = Damaged]
  /\ damaged' = damaged \cup {<<b, o>>}
  /\ UNCHANGED <<issued, tables, row, req, move, stranded, doubtful>>

---------------------------------------------------------------------------
\* migrate: one file of the list.  The files of a run do not affect each other.

Source(m)  == move[m].from
Target(m)  == Other(move[m].from)
Moving(m)  == files[move[m].item].obj
Recorded(m) == files[move[m].item].sha

Leave(m) == move' = [move EXCEPT ![m] = AtRest]

\* status(): the file and the backend it was on when the list was made.
\* Bound: MaxPlaces.
List(m, i) ==
  /\ move[m].pc = "idle"
  /\ files[i] # None
  /\ Len(places[i]) < MaxPlaces
  /\ move' = [move EXCEPT ![m] = [AtRest EXCEPT !.pc = "listed", !.item = i,
                                                !.from = Backend(i)]]
  /\ UNCHANGED <<store, issued, tables, row, req, stranded, doubtful, damaged>>

\* Step 1: the source copy must have the recorded hash, else the file is skipped.
CheckSource(m) ==
  /\ move[m].pc = "listed"
  /\ IF store[Source(m)][Moving(m)] = Recorded(m)
       THEN move' = [move EXCEPT ![m].pc = "checked"]
       ELSE Leave(m)
  /\ UNCHANGED <<store, issued, tables, row, req, stranded, doubtful, damaged>>

\* Step 2: a copy that is there already is used if its hash is right.
Probe(m) ==
  LET there == store[Target(m)][Moving(m)]
  IN  /\ move[m].pc = "checked"
      /\ \/ there = None /\ move' = [move EXCEPT ![m].pc = "copy"]
         \/ there = Recorded(m) /\ move' = [move EXCEPT ![m].pc = "record"]
         \/ there \notin {None, Recorded(m)} /\ Leave(m)
      /\ UNCHANGED <<store, issued, tables, row, req, stranded, doubtful, damaged>>

\* put_as under the same id.  On local disk, open(path, "xb") of an object that
\* is there raises inside the try block, whose handler removes that object; S3
\* refuses the write (If-None-Match) and keeps it.
Copy(m) ==
  LET there  == store[Target(m)][Moving(m)]
      source == store[Source(m)][Moving(m)]
  IN  /\ move[m].pc = "copy"
      /\ CASE source = None -> Leave(m) /\ UNCHANGED store
           [] source # None /\ there = None ->
                /\ store' = [store EXCEPT ![Target(m)][Moving(m)] = source]
                /\ move' = [move EXCEPT ![m] = [@ EXCEPT !.pc = "copied", !.copied = TRUE]]
           [] source # None /\ there # None ->
                /\ store' = IF Target(m) = "local"
                              THEN [store EXCEPT !["local"][Moving(m)] = None]
                              ELSE store
                /\ Leave(m)
      /\ UNCHANGED <<issued, tables, row, req, stranded, doubtful, damaged>>

\* The command is killed while it writes to local disk: half a file stays.
CopyKilled(m) ==
  /\ move[m].pc = "copy"
  /\ Target(m) = "local"
  /\ store["local"][Moving(m)] = None
  /\ store' = [store EXCEPT !["local"][Moving(m)] = Damaged]
  /\ Leave(m)
  /\ UNCHANGED <<issued, tables, row, req, stranded, doubtful, damaged>>

\* Mutant: the copy is not hashed after it is written.
CheckTarget_Skipped(m) ==
  /\ move[m].pc = "copied"
  /\ move' = [move EXCEPT ![m].pc = "record"]
  /\ UNCHANGED <<store, issued, tables, row, req, stranded, doubtful, damaged>>

\* Step 3: the new copy must have the recorded hash, else it is removed.
CheckTarget(m) ==
  LET there == store[Target(m)][Moving(m)]
  IN  /\ move[m].pc = "copied"
      /\ IF there = Recorded(m)
           THEN move' = [move EXCEPT ![m].pc = "record"] /\ UNCHANGED store
           ELSE /\ store' = [store EXCEPT ![Target(m)][Moving(m)] = None]
                /\ Leave(m)
      /\ UNCHANGED <<issued, tables, row, req, stranded, doubtful, damaged>>

AddPlace(m) == places' = [places EXCEPT ![move[m].item] = Append(@, Target(m))]

\* Step 4: the new location row.  Bound: MaxPlaces.
RecordMove(m) ==
  /\ move[m].pc = "record"
  /\ Len(places[move[m].item]) < MaxPlaces
  /\ AddPlace(m)
  /\ Leave(m)
  /\ UNCHANGED <<store, issued, registered, hashes, checks, files, row, req,
                 stranded, doubtful, damaged>>

\* A database error: a copy this run made is removed again.
RecordMoveFails(m) ==
  /\ move[m].pc = "record"
  /\ store' = IF move[m].copied THEN [store EXCEPT ![Target(m)][Moving(m)] = None]
              ELSE store
  /\ Leave(m)
  /\ UNCHANGED <<issued, tables, row, req, stranded, doubtful, damaged>>

\* The same when the row was committed and only the reply was lost.
RecordMoveReplyLost(m) ==
  /\ move[m].pc = "record" /\ move[m].copied
  /\ Len(places[move[m].item]) < MaxPlaces
  /\ AddPlace(m)
  /\ store' = [store EXCEPT ![Target(m)][Moving(m)] = None]
  /\ doubtful' = doubtful \cup {Moving(m)}
  /\ Leave(m)
  /\ UNCHANGED <<issued, registered, hashes, checks, files, row, req, stranded, damaged>>

\* A StorageError (nothing is removed: line 91 of migrate.py), a dry run after
\* the source check, or the command is killed.
MoveStops(m) ==
  /\ move[m].pc # "idle"
  /\ Leave(m)
  /\ UNCHANGED <<store, issued, tables, row, req, stranded, doubtful, damaged>>

---------------------------------------------------------------------------

Init ==
  /\ store = [b \in Backends |-> [o \in Objects |-> None]]
  /\ issued = {}
  /\ registered = {}
  /\ hashes = [i \in Items |-> <<>>]
  /\ checks = [i \in Items |-> <<>>]
  /\ files = [i \in Items |-> None]
  /\ places = [i \in Items |-> <<>>]
  /\ row = [i \in Items |-> None]
  /\ req = [p \in Workers |-> Idle]
  /\ move = [m \in Movers |-> AtRest]
  /\ stranded = {} /\ doubtful = {} /\ damaged = {}

RegisterStep(p) ==
  \/ \E o \in Objects, c \in Contents : RegisterStore(p, o, c)
  \/ RegisterRefused(p)
  \/ \E i \in Items : RegisterEvidence(p, i)
  \/ RegisterAborts(p)
  \/ RecordFile(p)
  \/ RecordFileFails(p)

AttachStep(p) ==
  \/ \E i \in Items, o \in Objects, c \in Contents : AttachStore(p, i, o, c)
  \/ AttachLock(p)
  \/ AttachCommit(p)
  \/ AttachReplyLost(p)
  \/ AttachRefused(p)

HashStep(p) ==
  \/ \E i \in Items : HashStored(p, i)
  \/ VerifyLock(p)
  \/ \E op \in {"record", "verify", "correct"}, i \in Items, c \in Contents :
       HashLock(p, op, i, c)
  \/ RecordOriginal(p)
  \/ CorrectHash(p)
  \/ Verify(p)
  \/ HashRefused(p)

MoveStep(m) ==
  \/ \E i \in Items : List(m, i)
  \/ CheckSource(m)
  \/ Probe(m)
  \/ Copy(m)
  \/ CopyKilled(m)
  \/ CheckTarget(m)
  \/ RecordMove(m)
  \/ RecordMoveFails(m)
  \/ RecordMoveReplyLost(m)
  \/ MoveStops(m)

Next ==
  \/ \E p \in Workers : RegisterStep(p) \/ AttachStep(p) \/ HashStep(p) \/ Crash(p)
  \/ \E p \in Workers, o \in Objects, d \in Data : StoreFails(p, o, d)
  \/ \E m \in Movers : MoveStep(m)
  \/ \E i \in Items, h \in {<<>>} \cup {<<c>> : c \in Contents} : RegisterPlain(i, h)
  \/ \E b \in Backends, o \in Objects : Damage(b, o)

Spec == Init /\ [][Next]_vars

---------------------------------------------------------------------------

\* The type of the state: what the tables and both stores may hold, and each
\* request's and migration's local variables.
TypeOK ==
  /\ store \in [Backends -> [Objects -> Data \cup {None}]]
  /\ issued \subseteq Objects
  /\ registered \subseteq Items
  /\ hashes \in [Items -> Seq(Contents)]
  /\ \A i \in Items : Len(hashes[i]) <= MaxHashes
  /\ checks \in [Items -> Seq(Check)]
  /\ files \in [Items -> File \cup {None}]
  /\ places \in [Items -> Seq(Backends)]
  /\ row \in [Items -> Workers \cup {None}]
  /\ req \in [Workers -> Req]
  /\ move \in [Movers -> Move]
  /\ stranded \subseteq Objects /\ doubtful \subseteq Objects
  /\ damaged \subseteq Backends \X Objects

\* Every place on record for a file holds exactly the recorded content, through
\* migrations in both directions that fail or stop anywhere (migrate.py: the
\* source is never deleted, a wrong copy is never recorded), except for a copy
\* damaged from outside and an object removed after a lost COMMIT reply.
PlacesHoldTheFile ==
  \A i \in Items : files[i] # None =>
    \A b \in Places(i) : LET o == files[i].obj
      IN  store[b][o] = files[i].sha \/ <<b, o>> \in damaged \/ o \in doubtful

\* "If recording fails, the unrecorded file is removed" (files.py): an object
\* that no row names belongs to a request that is still running, or nobody was
\* left to remove it: crash, failed removal, RegisterAborts, or a store that
\* raised with the object in place (StoreFails).
UnrecordedAreRemoved ==
  \A b \in Backends, o \in Objects : store[b][o] # None =>
    \/ \E i \in Items : files[i] # None /\ files[i].obj = o
    \/ \E p \in Workers : req[p].obj = o
    \/ o \in stranded

\* The stored file is one the item's hashes vouch for: its SHA-256 is, or was
\* before a correction, the item's reference hash.  register_with_file records
\* hash and file in two transactions, with corrections between them.
FileHashWasReference ==
  \A i \in Items : files[i] # None =>
    \E k \in 1 .. Len(hashes[i]) : hashes[i][k] = files[i].sha

\* v_evidence_integrity: the verification of the current hash that no later
\* one follows (ROW_NUMBER ... = 1), and the item's status, taken from it.
Latest(i) ==
  LET ofCurrent == {k \in 1 .. Len(checks[i]) : checks[i][k].hash = CurrentHash(i)}
  IN  {k \in ofCurrent : \A j \in ofCurrent : j <= k}

IntegrityStatus(i) ==
  CASE hashes[i] = <<>>                      -> "Not Verified"
    [] hashes[i] # <<>> /\ Latest(i) = {} -> "Pending"
    [] OTHER -> checks[i][CHOOSE k \in Latest(i) : TRUE].result

\* The status shown is about the current hash: Verified exactly when the last
\* content compared with it matched it, also when the hash was corrected while
\* the file was being hashed.
StatusIsOfCurrentHash ==
  \A i \in Items : \A k \in Latest(i) :
    IntegrityStatus(i) = "Verified" <=> checks[i][k].computed = hashes[i][CurrentHash(i)]

\* attach: "when an item already has a reference hash, a file whose SHA-256
\* differs is refused", whoever corrects the hash meanwhile.
AttachedMatchesReference ==
  [][\A p \in Workers, i \in Items :
       ( /\ req[p].op = "attach" /\ req[p].item = i /\ req'[p] # req[p]
         /\ files[i] = None /\ files'[i] # None )
       => files'[i].sha = hashes'[i][Len(hashes'[i])]]_vars

=============================================================================
