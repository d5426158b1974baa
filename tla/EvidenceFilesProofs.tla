------------------------ MODULE EvidenceFilesProofs ------------------------
(***************************************************************************)
(* What holds of stored files and reference hashes for any number of       *)
(* items, uploads, requests and migrations.                                *)
(***************************************************************************)
EXTENDS EvidenceFiles, TLAPS

(* Rows exist only for registered items. *)
RowsOK ==
  \A i \in Items : /\ files[i] # None => i \in registered
                   /\ i \notin registered => hashes[i] = <<>>

(* What a request knows at each point.  A transaction past its FOR UPDATE  *)
(* holds the item's row, and the hash it read there is still the last one. *)
ReqAt(p) ==
  /\ req[p].pc = "stored" =>
       /\ req[p].op \in {"register", "attach"}
       /\ req[p].sha \in Contents /\ req[p].obj \in Objects
       /\ req[p].op = "attach" => req[p].item \in registered
  /\ req[p].pc = "registered" =>
       /\ req[p].op = "register" /\ req[p].item \in registered
       /\ req[p].sha \in Contents /\ req[p].obj \in Objects
       /\ \E k \in 1 .. Len(hashes[req[p].item]) : hashes[req[p].item][k] = req[p].sha
  /\ req[p].pc = "hashed" =>
       req[p].op = "verify" /\ req[p].item \in registered /\ req[p].sha \in Data
  /\ req[p].pc = "locked" =>
       /\ req[p].op \in {"attach", "record", "verify", "correct"}
       /\ req[p].item \in registered /\ req[p].sha \in Data
       /\ req[p].op # "verify" => req[p].sha \in Contents
       /\ req[p].op = "attach" => req[p].obj \in Objects
       /\ row[req[p].item] = p
       /\ req[p].cur = Len(hashes[req[p].item])

ReqOK == \A p \in Workers : ReqAt(p)

(* A migration under way is of a recorded file. *)
MoveOK ==
  \A m \in Movers : move[m].pc # "idle" =>
    move[m].item \in Items /\ files[move[m].item] # None

(* Location rows follow the file row. *)
PlacesOK == \A i \in Items : files[i] # None => Len(places[i]) > 0

IInv == TypeOK /\ RowsOK /\ ReqOK /\ MoveOK /\ PlacesOK /\ FileHashWasReference

---------------------------------------------------------------------------
(* What a step may leave alone. *)

(* Migrations and damage do not touch what requests rely on. *)
LEMMA RequestFrame ==
  ASSUME IInv, UNCHANGED <<registered, hashes, files, row, req>>
  PROVE  RowsOK' /\ ReqOK' /\ FileHashWasReference'
BY DEF IInv, RowsOK, ReqOK, ReqAt, FileHashWasReference

(* Requests do not touch a migration, and a file row stays. *)
LEMMA MoveFrame ==
  ASSUME IInv, UNCHANGED move,
         \A i \in Items : files[i] # None => files'[i] # None
  PROVE  MoveOK'
BY DEF IInv, MoveOK

(* A step that writes no table and moves no file. *)
LEMMA TablesFrame ==
  ASSUME IInv, UNCHANGED <<registered, hashes, files, places, move>>
  PROVE  RowsOK' /\ MoveOK' /\ PlacesOK' /\ FileHashWasReference'
BY DEF IInv, RowsOK, MoveOK, PlacesOK, FileHashWasReference

(* A request that ends without writing a hash disturbs no other request. *)
LEMMA RequestEnds ==
  ASSUME IInv, NEW p \in Workers, Done(p), UNCHANGED <<registered, hashes>>,
         \A i \in Items : row[i] # p => row'[i] = row[i]
  PROVE  ReqOK'
<1> SUFFICES ASSUME NEW q \in Workers PROVE ReqAt(q)'
  BY DEF ReqOK
<1>1. CASE q = p
  <2>1. req'[q] = Idle
    BY <1>1 DEF IInv, TypeOK, Done
  <2> QED  BY <2>1 DEF ReqAt, Idle, Request
<1>2. CASE q # p
  <2>1. req'[q] = req[q] /\ ReqAt(q) /\ registered \subseteq Items
    BY <1>2 DEF IInv, TypeOK, ReqOK, Done
  <2> QED  BY <1>2, <2>1 DEF ReqAt
<1> QED  BY <1>1, <1>2

(* A migration goes on with the same file or ends. *)
LEMMA SameFile ==
  ASSUME IInv, UNCHANGED files,
         \A n \in Movers : move'[n].pc # "idle" =>
           move[n].pc # "idle" /\ move'[n].item = move[n].item
  PROVE  MoveOK'
BY DEF IInv, MoveOK

LEMMA StoreUpdate ==
  ASSUME NEW S \in [Backends -> [Objects -> Data \cup {None}]],
         NEW b \in Backends, NEW o \in Objects, NEW x \in Data \cup {None}
  PROVE  [S EXCEPT ![b][o] = x] \in [Backends -> [Objects -> Data \cup {None}]]
OBVIOUS

LEMMA Singleton ==
  ASSUME NEW S, NEW x \in S
  PROVE  <<x>> \in Seq(S) /\ Len(<<x>>) = 1 /\ <<x>>[1] = x
OBVIOUS

(* _discard removes the object or leaves it to nobody. *)
LEMMA DiscardType ==
  ASSUME IInv, NEW p \in Workers, req[p].obj \in Objects, Discard(p)
  PROVE  /\ store' \in [Backends -> [Objects -> Data \cup {None}]]
         /\ stranded' \subseteq Objects
<1>1. CASE store' = [store EXCEPT ![Home][req[p].obj] = None] /\ UNCHANGED stranded
  BY <1>1, StoreUpdate, FilesAssumption DEF IInv, TypeOK
<1>2. CASE stranded' = stranded \cup {req[p].obj} /\ UNCHANGED store
  BY <1>2 DEF IInv, TypeOK
<1> QED  BY <1>1, <1>2 DEF Discard

LEMMA RegisterStoreStep ==
  ASSUME IInv, NEW p \in Workers, NEW o \in Objects, NEW c \in Contents,
         RegisterStore(p, o, c)
  PROVE  IInv'
<1>1. Request("stored", "register", None, o, c, 0) \in Req
  BY FilesAssumption DEF Idle, Request, Req, Data
<1>2. req' \in [Workers -> Req]
  BY <1>1 DEF IInv, TypeOK, RegisterStore
<1>3. store' \in [Backends -> [Objects -> Data \cup {None}]]
  BY FilesAssumption DEF IInv, TypeOK, RegisterStore, Put, Data
<1>4. TypeOK'
  BY <1>1, <1>2, <1>3 DEF IInv, TypeOK, RegisterStore, tables, Put
<1>5. RowsOK' /\ MoveOK' /\ PlacesOK' /\ FileHashWasReference'
  BY TablesFrame DEF RegisterStore, tables
<1>6. ReqOK'
  BY FilesAssumption DEF IInv, TypeOK, ReqOK, ReqAt, Req, Data, Idle, Request, RegisterStore, tables, Put
<1> QED  BY <1>4, <1>5, <1>6 DEF IInv

LEMMA RegisterRefusedStep ==
  ASSUME IInv, NEW p \in Workers, RegisterRefused(p)
  PROVE  IInv'
<1>1. Idle \in Req
  BY FilesAssumption DEF Idle, Request, Req
<1>2. req[p].obj \in Objects
  BY DEF IInv, ReqOK, ReqAt, RegisterRefused
<1>3. store' \in [Backends -> [Objects -> Data \cup {None}]] /\ stranded' \subseteq Objects
  BY <1>2, DiscardType DEF RegisterRefused
<1>4. req' \in [Workers -> Req]
  BY <1>1 DEF IInv, TypeOK, RegisterRefused, Done
<1>5. TypeOK'
  BY <1>1, <1>2, <1>3, <1>4 DEF IInv, TypeOK, RegisterRefused, tables, Done
<1>6. RowsOK' /\ MoveOK' /\ PlacesOK' /\ FileHashWasReference'
  BY TablesFrame DEF RegisterRefused, tables
<1>7. ReqOK'
  BY RequestEnds DEF IInv, TypeOK, RegisterRefused, tables
<1> QED  BY <1>5, <1>6, <1>7 DEF IInv

LEMMA RegisterEvidenceStep ==
  ASSUME IInv, NEW p \in Workers, NEW i \in Items,
         RegisterEvidence(p, i)
  PROVE  IInv'
<1>1. [req[p] EXCEPT !.pc = "registered", !.item = i] \in Req
  BY DEF IInv, TypeOK, Req
<1>2. req' \in [Workers -> Req]
  BY <1>1 DEF IInv, TypeOK, RegisterEvidence
<1>3. hashes' \in [Items -> Seq(Contents)] /\ \A k \in Items : Len(hashes'[k]) <= MaxHashes
  BY FilesAssumption DEF IInv, TypeOK, ReqOK, ReqAt, RegisterEvidence
<1>4. TypeOK'
  BY <1>1, <1>2, <1>3 DEF IInv, TypeOK, RegisterEvidence, tables
<1>5. MoveOK'
  BY MoveFrame DEF IInv, TypeOK, RegisterEvidence, tables
<1>6. RowsOK'
  BY FilesAssumption DEF IInv, TypeOK, RowsOK, ReqOK, ReqAt, Req, RegisterEvidence, tables
<1>7. ReqOK'
  <2> SUFFICES ASSUME NEW q \in Workers PROVE ReqAt(q)'
    BY DEF ReqOK
  <2>1. hashes'[i] = <<req[p].sha>> /\ req[p].sha \in Contents /\ req[p].obj \in Objects
    BY DEF IInv, TypeOK, ReqOK, ReqAt, RegisterEvidence
  <2>2. CASE q = p
    <3>1. /\ req'[q].pc = "registered" /\ req'[q].op = "register" /\ req'[q].item = i
          /\ req'[q].sha = req[p].sha /\ req'[q].obj = req[p].obj /\ i \in registered'
      BY <2>2 DEF IInv, TypeOK, RegisterEvidence, Req
    <3>2. \E k \in 1 .. Len(hashes'[i]) : hashes'[i][k] = req[p].sha
      BY <2>1, Singleton
    <3> QED  BY <2>1, <3>1, <3>2 DEF ReqAt
  <2>3. CASE q # p
    <3>1. req'[q] = req[q] /\ registered \subseteq registered' /\ row' = row
      BY <2>3 DEF IInv, TypeOK, RegisterEvidence
    <3>2. \A k \in registered : hashes'[k] = hashes[k]
      BY DEF IInv, TypeOK, RegisterEvidence
    <3> QED  BY <3>1, <3>2 DEF IInv, ReqOK, ReqAt
  <2> QED  BY <2>2, <2>3
<1>8. PlacesOK'
  BY FilesAssumption DEF IInv, TypeOK, PlacesOK, ReqOK, ReqAt, RegisterEvidence, tables
<1>9. FileHashWasReference'
  <2> SUFFICES ASSUME NEW j \in Items, files'[j] # None
               PROVE  \E k \in 1 .. Len(hashes'[j]) : hashes'[j][k] = files'[j].sha
    BY DEF FileHashWasReference
  <2>1. j # i
    BY DEF IInv, RowsOK, RegisterEvidence
  <2> QED  BY <2>1 DEF IInv, TypeOK, FileHashWasReference, RegisterEvidence
<1> QED  BY <1>4, <1>5, <1>6, <1>7, <1>8, <1>9 DEF IInv

LEMMA RegisterAbortsStep ==
  ASSUME IInv, NEW p \in Workers, RegisterAborts(p)
  PROVE  IInv'
<1>1. Idle \in Req
  BY FilesAssumption DEF Idle, Request, Req
<1>2. req[p].obj \in Objects
  BY DEF IInv, ReqOK, ReqAt, RegisterAborts
<1>3. req' \in [Workers -> Req]
  BY <1>1 DEF IInv, TypeOK, RegisterAborts, Done
<1>4. TypeOK'
  BY <1>1, <1>2, <1>3 DEF IInv, TypeOK, RegisterAborts, tables, Done
<1>5. RowsOK' /\ MoveOK' /\ PlacesOK' /\ FileHashWasReference'
  BY TablesFrame DEF RegisterAborts, tables
<1>6. ReqOK'
  BY RequestEnds DEF IInv, TypeOK, RegisterAborts, tables
<1> QED  BY <1>4, <1>5, <1>6 DEF IInv

LEMMA RecordFileStep ==
  ASSUME IInv, NEW p \in Workers, RecordFile(p)
  PROVE  IInv'
<1>1. Idle \in Req
  BY FilesAssumption DEF Idle, Request, Req
<1>2. req[p].obj \in Objects /\ req[p].sha \in Contents
  BY DEF IInv, ReqOK, ReqAt, RecordFile
<1>3. files' \in [Items -> File \cup {None}]
  BY <1>2 DEF IInv, TypeOK, RecordFile, InsertFileRow, File
<1>4. places' \in [Items -> Seq(Backends)]
  BY Singleton, FilesAssumption DEF IInv, TypeOK, RecordFile, InsertFileRow
<1>5. req' \in [Workers -> Req]
  BY <1>1 DEF IInv, TypeOK, RecordFile, Done
<1>6. TypeOK'
  BY <1>1, <1>2, <1>3, <1>4, <1>5 DEF IInv, TypeOK, RecordFile, tables, InsertFileRow, Done
<1>7. MoveOK'
  BY MoveFrame DEF IInv, TypeOK, RecordFile, tables, InsertFileRow, Done
<1>8. RowsOK'
  BY FilesAssumption DEF IInv, TypeOK, RowsOK, ReqOK, ReqAt, Req, RecordFile, tables, InsertFileRow, Done
<1>9. ReqOK'
  BY RequestEnds DEF IInv, TypeOK, RecordFile
<1>10. PlacesOK'
  BY FilesAssumption DEF IInv, TypeOK, PlacesOK, ReqOK, ReqAt, RecordFile, tables, InsertFileRow, Done
<1>11. FileHashWasReference'
  <2>1. \E k \in 1 .. Len(hashes[req[p].item]) : hashes[req[p].item][k] = req[p].sha
    BY DEF IInv, ReqOK, ReqAt, RecordFile
  <2>2. hashes' = hashes /\ files' = [files EXCEPT ![req[p].item] =
                                        [obj |-> req[p].obj, sha |-> req[p].sha]]
    BY DEF RecordFile, InsertFileRow
  <2> QED  BY <2>1, <2>2 DEF IInv, TypeOK, FileHashWasReference
<1> QED  BY <1>6, <1>7, <1>8, <1>9, <1>10, <1>11 DEF IInv

LEMMA RecordFileFailsStep ==
  ASSUME IInv, NEW p \in Workers, RecordFileFails(p)
  PROVE  IInv'
<1>1. Idle \in Req
  BY FilesAssumption DEF Idle, Request, Req
<1>2. req[p].obj \in Objects
  BY DEF IInv, ReqOK, ReqAt, RecordFileFails
<1>3. store' \in [Backends -> [Objects -> Data \cup {None}]] /\ stranded' \subseteq Objects
  BY <1>2, DiscardType DEF RecordFileFails
<1>4. req' \in [Workers -> Req]
  BY <1>1 DEF IInv, TypeOK, RecordFileFails, Done
<1>5. TypeOK'
  BY <1>1, <1>2, <1>3, <1>4 DEF IInv, TypeOK, RecordFileFails, tables, Done
<1>6. RowsOK' /\ MoveOK' /\ PlacesOK' /\ FileHashWasReference'
  BY TablesFrame DEF RecordFileFails, tables
<1>7. ReqOK'
  BY RequestEnds DEF IInv, TypeOK, RecordFileFails, tables
<1> QED  BY <1>5, <1>6, <1>7 DEF IInv

LEMMA AttachStoreStep ==
  ASSUME IInv, NEW p \in Workers, NEW i \in Items, NEW o \in Objects, NEW c \in Contents,
         AttachStore(p, i, o, c)
  PROVE  IInv'
<1>1. Request("stored", "attach", i, o, c, 0) \in Req
  BY FilesAssumption DEF Idle, Request, Req, Data
<1>2. req' \in [Workers -> Req]
  BY <1>1 DEF IInv, TypeOK, AttachStore
<1>3. store' \in [Backends -> [Objects -> Data \cup {None}]]
  BY FilesAssumption DEF IInv, TypeOK, AttachStore, Put, Data
<1>4. TypeOK'
  BY <1>1, <1>2, <1>3 DEF IInv, TypeOK, AttachStore, tables, Put
<1>5. RowsOK' /\ MoveOK' /\ PlacesOK' /\ FileHashWasReference'
  BY TablesFrame DEF AttachStore, tables
<1>6. ReqOK'
  BY FilesAssumption DEF IInv, TypeOK, ReqOK, ReqAt, Req, Data, Idle, Request, AttachStore, tables, Put
<1> QED  BY <1>4, <1>5, <1>6 DEF IInv

LEMMA AttachLockStep ==
  ASSUME IInv, NEW p \in Workers, AttachLock(p)
  PROVE  IInv'
<1>1. req[p].item \in Items
  BY DEF IInv, TypeOK, ReqOK, ReqAt, AttachLock
<1>2. [req[p] EXCEPT !.pc = "locked", !.cur = CurrentHash(req[p].item)] \in Req
  <2>1. CurrentHash(req[p].item) \in 0 .. MaxHashes
    BY <1>1, FilesAssumption DEF IInv, TypeOK, CurrentHash
  <2> QED  BY <2>1 DEF IInv, TypeOK, Req
<1>3. req' \in [Workers -> Req]
  BY <1>2 DEF IInv, TypeOK, AttachLock
<1>4. row' \in [Items -> Workers \cup {None}]
  BY DEF IInv, TypeOK, AttachLock, Lock
<1>5. TypeOK'
  BY <1>1, <1>2, <1>3, <1>4 DEF IInv, TypeOK, AttachLock, tables, Lock
<1>6. RowsOK' /\ MoveOK' /\ PlacesOK' /\ FileHashWasReference'
  BY TablesFrame DEF AttachLock, tables
<1>7. ReqOK'
  BY FilesAssumption DEF IInv, TypeOK, ReqOK, ReqAt, Req, Data, Idle, Request, CurrentHash, AttachLock, tables, Lock
<1> QED  BY <1>5, <1>6, <1>7 DEF IInv

(* What attach writes: the rows of the file and, if there was none, the      *)
(* original hash.  The row lock makes the hash it read the present one.      *)
LEMMA AttachRowsStep ==
  ASSUME IInv, NEW p \in Workers, AttachRows(p)
  PROVE  /\ hashes' \in [Items -> Seq(Contents)]
         /\ \A k \in Items : Len(hashes'[k]) <= MaxHashes
         /\ files' \in [Items -> File \cup {None}]
         /\ places' \in [Items -> Seq(Backends)]
         /\ row' \in [Items -> Workers \cup {None}]
         /\ req' \in [Workers -> Req]
         /\ MoveOK' /\ RowsOK' /\ ReqOK' /\ PlacesOK' /\ FileHashWasReference'
         /\ LET i == req[p].item IN files'[i].sha = hashes'[i][Len(hashes'[i])]
<1> DEFINE i == req[p].item
<1>1. Idle \in Req
  BY FilesAssumption DEF Idle, Request, Req
<1>2. /\ req[p].obj \in Objects /\ req[p].sha \in Contents
      /\ i \in Items /\ i \in registered
      /\ row[i] = p /\ req[p].cur = Len(hashes[i])
  BY DEF IInv, TypeOK, ReqOK, ReqAt, AttachRows
<1>3. /\ files' \in [Items -> File \cup {None}]
      /\ files' = [files EXCEPT ![i] = [obj |-> req[p].obj, sha |-> req[p].sha]]
  BY <1>2 DEF IInv, TypeOK, AttachRows, InsertFileRow, File
<1>4. places' \in [Items -> Seq(Backends)]
  BY Singleton, FilesAssumption DEF IInv, TypeOK, AttachRows, InsertFileRow
<1>5. \/ hashes' = hashes /\ Len(hashes[i]) # 0 /\ hashes[i][Len(hashes[i])] = req[p].sha
      \/ hashes[i] = <<>> /\ hashes' = [hashes EXCEPT ![i] = <<req[p].sha>>]
  BY <1>2 DEF AttachRows
<1>6. hashes' \in [Items -> Seq(Contents)] /\ \A k \in Items : Len(hashes'[k]) <= MaxHashes
  <2>1. CASE hashes' = hashes
    BY <2>1 DEF IInv, TypeOK
  <2>2. CASE hashes' = [hashes EXCEPT ![i] = <<req[p].sha>>]
    BY <2>2, <1>2, Singleton, FilesAssumption DEF IInv, TypeOK
  <2> QED  BY <1>5, <2>1, <2>2
<1>7. row' \in [Items -> Workers \cup {None}]
  BY FilesAssumption DEF IInv, TypeOK, AttachRows, Unlock
<1>8. req' \in [Workers -> Req]
  BY <1>1 DEF IInv, TypeOK, AttachRows, Done
<1>9. MoveOK'
  BY <1>2, <1>3, MoveFrame, FilesAssumption DEF IInv, TypeOK, AttachRows
<1>10. RowsOK'
  BY <1>2, <1>3, <1>5 DEF IInv, TypeOK, RowsOK, AttachRows
<1>11. ReqOK'
  <2> SUFFICES ASSUME NEW q \in Workers PROVE ReqAt(q)'
    BY DEF ReqOK
  <2>1. CASE q = p
    <3>1. req'[q] = Idle
      BY <2>1 DEF IInv, TypeOK, AttachRows, Done
    <3> QED  BY <3>1 DEF ReqAt, Idle, Request
  <2>2. CASE q # p
    <3>1. req'[q] = req[q] /\ registered' = registered
      BY <2>2 DEF IInv, TypeOK, AttachRows, Done
    <3>2. \A k \in Items : k # i => hashes'[k] = hashes[k]
      BY <1>5 DEF IInv, TypeOK
    <3>3. req[q].pc = "registered" /\ req[q].item = i => hashes' = hashes
      BY <1>5 DEF IInv, ReqOK, ReqAt
    <3>4. req[q].pc = "locked" => req[q].item # i /\ row'[req[q].item] = row[req[q].item]
      BY <2>2, <1>2 DEF IInv, TypeOK, ReqOK, ReqAt, AttachRows, Unlock
    <3>5. ReqAt(q) /\ registered \subseteq Items
      BY DEF IInv, TypeOK, ReqOK
    <3>6. req[q].pc \in {"registered", "locked"} => hashes'[req[q].item] = hashes[req[q].item]
      BY <3>2, <3>3, <3>4, <3>5 DEF ReqAt
    <3> QED  BY <3>1, <3>4, <3>5, <3>6 DEF ReqAt
  <2> QED  BY <2>1, <2>2
<1>12. PlacesOK'
  BY <1>2, <1>3, Singleton, FilesAssumption DEF IInv, TypeOK, PlacesOK, AttachRows, InsertFileRow
<1>13. FileHashWasReference'
  <2> SUFFICES ASSUME NEW j \in Items, files'[j] # None
               PROVE  \E k \in 1 .. Len(hashes'[j]) : hashes'[j][k] = files'[j].sha
    BY DEF FileHashWasReference
  <2>1. CASE j # i
    BY <2>1, <1>3, <1>5 DEF IInv, TypeOK, FileHashWasReference
  <2>2. CASE j = i /\ hashes' = hashes /\ Len(hashes[i]) # 0 /\ hashes[i][Len(hashes[i])] = req[p].sha
    <3>1. Len(hashes'[j]) \in 1 .. Len(hashes'[j])
      BY <2>2, <1>2, <1>6
    <3> QED  BY <3>1, <2>2, <1>2, <1>3 DEF IInv, TypeOK
  <2>3. CASE j = i /\ hashes' = [hashes EXCEPT ![i] = <<req[p].sha>>]
    BY <2>3, <1>2, <1>3, Singleton DEF IInv, TypeOK
  <2> QED  BY <2>1, <2>2, <2>3, <1>5
<1>14. files'[i].sha = hashes'[i][Len(hashes'[i])]
  <2>1. files'[i].sha = req[p].sha
    BY <1>2, <1>3 DEF IInv, TypeOK
  <2> QED  BY <2>1, <1>2, <1>5, Singleton DEF IInv, TypeOK
<1> QED  BY <1>3, <1>4, <1>6, <1>7, <1>8, <1>9, <1>10, <1>11, <1>12, <1>13, <1>14

LEMMA AttachCommitStep ==
  ASSUME IInv, NEW p \in Workers, AttachCommit(p)
  PROVE  IInv'
<1>1. AttachRows(p) /\ UNCHANGED <<store, stranded, doubtful>>
  BY DEF AttachCommit
<1> QED  BY <1>1, AttachRowsStep DEF IInv, TypeOK, AttachRows

LEMMA AttachReplyLostStep ==
  ASSUME IInv, NEW p \in Workers, AttachReplyLost(p)
  PROVE  IInv'
<1>1. AttachRows(p) /\ UNCHANGED stranded
  BY DEF AttachReplyLost
<1>2. req[p].obj \in Objects
  BY <1>1 DEF IInv, ReqOK, ReqAt, AttachRows
<1>3. store' \in [Backends -> [Objects -> Data \cup {None}]] /\ doubtful' \subseteq Objects
  BY <1>2, StoreUpdate, FilesAssumption DEF IInv, TypeOK, AttachReplyLost
<1> QED  BY <1>1, <1>3, AttachRowsStep DEF IInv, TypeOK, AttachRows

LEMMA AttachRefusedStep ==
  ASSUME IInv, NEW p \in Workers, AttachRefused(p)
  PROVE  IInv'
<1>1. Idle \in Req
  BY FilesAssumption DEF Idle, Request, Req
<1>2. req[p].obj \in Objects
  BY DEF IInv, ReqOK, ReqAt, AttachRefused
<1>3. store' \in [Backends -> [Objects -> Data \cup {None}]] /\ stranded' \subseteq Objects
  BY <1>2, DiscardType DEF AttachRefused
<1>4. req' \in [Workers -> Req]
  BY <1>1 DEF IInv, TypeOK, AttachRefused, Done
<1>5. row' \in [Items -> Workers \cup {None}]
  BY FilesAssumption DEF IInv, TypeOK, AttachRefused, Unlock
<1>6. TypeOK'
  BY <1>1, <1>2, <1>3, <1>4, <1>5 DEF IInv, TypeOK, AttachRefused, tables, Done, Unlock
<1>7. RowsOK' /\ MoveOK' /\ PlacesOK' /\ FileHashWasReference'
  BY TablesFrame DEF AttachRefused, tables
<1>8. ReqOK'
  BY RequestEnds DEF IInv, TypeOK, AttachRefused, Unlock, tables
<1> QED  BY <1>6, <1>7, <1>8 DEF IInv

LEMMA HashStoredStep ==
  ASSUME IInv, NEW p \in Workers, NEW i \in Items,
         HashStored(p, i)
  PROVE  IInv'
<1>1. store[Backend(i)][files[i].obj] \in Data
  BY DEF IInv, TypeOK, PlacesOK, HashStored, Backend, File, Backends
<1>2. Request("hashed", "verify", i, None, store[Backend(i)][files[i].obj], 0) \in Req
  BY <1>1, FilesAssumption DEF Idle, Request, Req
<1>3. req' \in [Workers -> Req]
  BY <1>2 DEF IInv, TypeOK, HashStored
<1>4. TypeOK'
  BY <1>1, <1>2, <1>3 DEF IInv, TypeOK, HashStored, tables
<1>5. RowsOK' /\ MoveOK' /\ PlacesOK' /\ FileHashWasReference'
  BY TablesFrame DEF HashStored, tables
<1>6. ReqOK'
  <2>1. i \in registered
    BY DEF IInv, RowsOK, HashStored
  <2> QED  BY <1>1, <2>1 DEF IInv, TypeOK, ReqOK, ReqAt, HashStored, tables, Request
<1> QED  BY <1>4, <1>5, <1>6 DEF IInv

LEMMA VerifyLockStep ==
  ASSUME IInv, NEW p \in Workers, VerifyLock(p)
  PROVE  IInv'
<1>1. req[p].item \in Items
  BY DEF IInv, TypeOK, ReqOK, ReqAt, VerifyLock
<1>2. [req[p] EXCEPT !.pc = "locked", !.cur = CurrentHash(req[p].item)] \in Req
  <2>1. CurrentHash(req[p].item) \in 0 .. MaxHashes
    BY <1>1, FilesAssumption DEF IInv, TypeOK, CurrentHash
  <2> QED  BY <2>1 DEF IInv, TypeOK, Req
<1>3. req' \in [Workers -> Req]
  BY <1>2 DEF IInv, TypeOK, VerifyLock
<1>4. row' \in [Items -> Workers \cup {None}]
  BY DEF IInv, TypeOK, VerifyLock, Lock
<1>5. TypeOK'
  BY <1>1, <1>2, <1>3, <1>4 DEF IInv, TypeOK, VerifyLock, tables, Lock
<1>6. RowsOK' /\ MoveOK' /\ PlacesOK' /\ FileHashWasReference'
  BY TablesFrame DEF VerifyLock, tables
<1>7. ReqOK'
  BY FilesAssumption DEF IInv, TypeOK, ReqOK, ReqAt, Req, Data, Idle, Request, CurrentHash, VerifyLock, tables, Lock
<1> QED  BY <1>5, <1>6, <1>7 DEF IInv

LEMMA HashLockStep ==
  ASSUME IInv, NEW p \in Workers, NEW op \in {"record", "verify", "correct"}, NEW i \in Items, NEW c \in Contents,
         HashLock(p, op, i, c)
  PROVE  IInv'
<1>1. Request("locked", op, i, None, c, CurrentHash(i)) \in Req
  BY FilesAssumption DEF IInv, TypeOK, Request, Req, Data, CurrentHash
<1>2. req' \in [Workers -> Req]
  BY <1>1 DEF IInv, TypeOK, HashLock
<1>3. row' \in [Items -> Workers \cup {None}]
  BY DEF IInv, TypeOK, HashLock, Lock
<1>4. TypeOK'
  BY <1>1, <1>2, <1>3 DEF IInv, TypeOK, HashLock, tables, Lock
<1>5. RowsOK' /\ MoveOK' /\ PlacesOK' /\ FileHashWasReference'
  BY TablesFrame DEF HashLock, tables
<1>6. ReqOK'
  BY FilesAssumption DEF IInv, TypeOK, ReqOK, ReqAt, Req, Data, Idle, Request, CurrentHash, HashLock, tables, Lock
<1> QED  BY <1>4, <1>5, <1>6 DEF IInv

LEMMA RecordOriginalStep ==
  ASSUME IInv, NEW p \in Workers, RecordOriginal(p)
  PROVE  IInv'
<1>1. Idle \in Req
  BY FilesAssumption DEF Idle, Request, Req
<1>2. req[p].item \in Items /\ req[p].sha \in Contents
  BY DEF IInv, TypeOK, ReqOK, ReqAt, RecordOriginal
<1>3. hashes' \in [Items -> Seq(Contents)] /\ \A k \in Items : Len(hashes'[k]) <= MaxHashes
  BY <1>2, FilesAssumption DEF IInv, TypeOK, RecordOriginal
<1>4. req' \in [Workers -> Req]
  BY <1>1 DEF IInv, TypeOK, RecordOriginal, Done
<1>5. row' \in [Items -> Workers \cup {None}]
  BY FilesAssumption DEF IInv, TypeOK, RecordOriginal, Unlock
<1>6. TypeOK'
  BY <1>1, <1>2, <1>3, <1>4, <1>5 DEF IInv, TypeOK, RecordOriginal, tables, Unlock, Done
<1>7. MoveOK'
  BY MoveFrame DEF IInv, TypeOK, RecordOriginal, tables, Unlock, Done
<1>8. RowsOK'
  BY FilesAssumption DEF IInv, TypeOK, RowsOK, ReqOK, ReqAt, Req, RecordOriginal, tables, Unlock, Done
<1>9. ReqOK'
  BY FilesAssumption DEF IInv, TypeOK, ReqOK, ReqAt, Req, Data, Idle, Request, RecordOriginal, tables, Unlock, Done
<1>10. PlacesOK'
  BY FilesAssumption DEF IInv, TypeOK, PlacesOK, ReqOK, ReqAt, RecordOriginal, tables, Unlock, Done
<1>11. FileHashWasReference'
  <2>1. files[req[p].item] = None
    BY <1>2 DEF IInv, FileHashWasReference, RecordOriginal
  <2> QED  BY <1>2, <2>1 DEF IInv, TypeOK, FileHashWasReference, RecordOriginal
<1> QED  BY <1>6, <1>7, <1>8, <1>9, <1>10, <1>11 DEF IInv

LEMMA CorrectHashStep ==
  ASSUME IInv, NEW p \in Workers, CorrectHash(p)
  PROVE  IInv'
<1>1. Idle \in Req
  BY FilesAssumption DEF Idle, Request, Req
<1>2. req[p].item \in Items /\ req[p].sha \in Contents
  BY DEF IInv, TypeOK, ReqOK, ReqAt, CorrectHash
<1>3. hashes' \in [Items -> Seq(Contents)] /\ \A k \in Items : Len(hashes'[k]) <= MaxHashes
  BY <1>2, FilesAssumption DEF IInv, TypeOK, CorrectHash
<1>4. req' \in [Workers -> Req]
  BY <1>1 DEF IInv, TypeOK, CorrectHash, Done
<1>5. row' \in [Items -> Workers \cup {None}]
  BY FilesAssumption DEF IInv, TypeOK, CorrectHash, Unlock
<1>6. TypeOK'
  BY <1>1, <1>2, <1>3, <1>4, <1>5 DEF IInv, TypeOK, CorrectHash, tables, Unlock, Done
<1>7. MoveOK'
  BY MoveFrame DEF IInv, TypeOK, CorrectHash, tables, Unlock, Done
<1>8. RowsOK'
  BY FilesAssumption DEF IInv, TypeOK, RowsOK, ReqOK, ReqAt, Req, CorrectHash, tables, Unlock, Done
<1>9. ReqOK'
  <2> SUFFICES ASSUME NEW q \in Workers PROVE ReqAt(q)'
    BY DEF ReqOK
  <2>1. CASE q = p
    <3>1. req'[q] = Idle
      BY <2>1 DEF IInv, TypeOK, CorrectHash, Done
    <3> QED  BY <3>1 DEF ReqAt, Idle, Request
  <2>2. CASE q # p
    <3>1. req'[q] = req[q] /\ registered' = registered /\ ReqAt(q) /\ registered \subseteq Items
      BY <2>2 DEF IInv, TypeOK, ReqOK, CorrectHash, Done
    <3>2. row[req[p].item] = p
      BY DEF IInv, ReqOK, ReqAt, CorrectHash
    <3>3. req[q].pc = "locked" =>
            /\ row'[req[q].item] = row[req[q].item]
            /\ hashes'[req[q].item] = hashes[req[q].item]
      BY <2>2, <3>1, <3>2 DEF IInv, TypeOK, ReqAt, CorrectHash, Unlock
    <3>4. req[q].pc = "registered" =>
            \E k \in 1 .. Len(hashes'[req[q].item]) : hashes'[req[q].item][k] = req[q].sha
      <4> SUFFICES ASSUME req[q].pc = "registered"
                   PROVE  \E k \in 1 .. Len(hashes'[req[q].item]) : hashes'[req[q].item][k] = req[q].sha
        OBVIOUS
      <4>1. PICK j : j = req[q].item
        OBVIOUS
      <4>2. j \in Items
        BY <3>1, <4>1 DEF ReqAt
      <4>3. PICK k \in 1 .. Len(hashes[j]) : hashes[j][k] = req[q].sha
        BY <3>1, <4>1 DEF ReqAt
      <4>4. hashes'[j] = hashes[j] \/ hashes'[j] = Append(hashes[j], req[p].sha)
        BY <1>2, <4>2 DEF IInv, TypeOK, CorrectHash
      <4>5. hashes[j] \in Seq(Contents)
        BY <4>2 DEF IInv, TypeOK
      <4>6. k \in 1 .. Len(hashes'[j]) /\ hashes'[j][k] = hashes[j][k]
        BY <1>2, <4>4, <4>5
      <4> QED  BY <4>1, <4>3, <4>6
    <3> QED  BY <3>1, <3>3, <3>4 DEF ReqAt
  <2> QED  BY <2>1, <2>2
<1>10. PlacesOK'
  BY FilesAssumption DEF IInv, TypeOK, PlacesOK, ReqOK, ReqAt, CorrectHash, tables, Unlock, Done
<1>11. FileHashWasReference'
  <2> SUFFICES ASSUME NEW j \in Items, files'[j] # None
               PROVE  \E k \in 1 .. Len(hashes'[j]) : hashes'[j][k] = files'[j].sha
    BY DEF FileHashWasReference
  <2>1. PICK k \in 1 .. Len(hashes[j]) : hashes[j][k] = files[j].sha
    BY DEF IInv, FileHashWasReference, CorrectHash
  <2>2. hashes'[j] = hashes[j] \/ hashes'[j] = Append(hashes[j], req[p].sha)
    BY <1>2 DEF IInv, TypeOK, CorrectHash
  <2>3. hashes[j] \in Seq(Contents) /\ req[p].sha \in Contents
    BY <1>2 DEF IInv, TypeOK
  <2>4. k \in 1 .. Len(hashes'[j]) /\ hashes'[j][k] = hashes[j][k]
    BY <2>1, <2>2, <2>3
  <2> QED  BY <2>1, <2>4 DEF CorrectHash
<1> QED  BY <1>6, <1>7, <1>8, <1>9, <1>10, <1>11 DEF IInv

LEMMA VerifyStep ==
  ASSUME IInv, NEW p \in Workers, Verify(p)
  PROVE  IInv'
<1>1. Idle \in Req
  BY FilesAssumption DEF Idle, Request, Req
<1>2. req[p].item \in Items /\ req[p].sha \in Data /\ req[p].cur \in 1 .. MaxHashes
  BY FilesAssumption DEF IInv, TypeOK, ReqOK, ReqAt, Req, Verify
<1>3. \A r \in {"Verified", "Failed"} : [hash |-> req[p].cur, computed |-> req[p].sha, result |-> r] \in Check
  BY <1>2 DEF Check
<1>4. checks' \in [Items -> Seq(Check)]
  BY <1>2, <1>3 DEF IInv, TypeOK, Verify, Result
<1>5. req' \in [Workers -> Req]
  BY <1>1 DEF IInv, TypeOK, Verify, Done
<1>6. row' \in [Items -> Workers \cup {None}]
  BY FilesAssumption DEF IInv, TypeOK, Verify, Unlock
<1>7. TypeOK'
  BY <1>1, <1>2, <1>3, <1>4, <1>5, <1>6 DEF IInv, TypeOK, Verify, tables, Unlock, Done
<1>8. RowsOK' /\ MoveOK' /\ PlacesOK' /\ FileHashWasReference'
  BY TablesFrame DEF Verify, tables
<1>9. ReqOK'
  BY RequestEnds DEF IInv, TypeOK, Verify, Unlock
<1> QED  BY <1>7, <1>8, <1>9 DEF IInv

LEMMA HashRefusedStep ==
  ASSUME IInv, NEW p \in Workers, HashRefused(p)
  PROVE  IInv'
<1>1. Idle \in Req
  BY FilesAssumption DEF Idle, Request, Req
<1>2. req' \in [Workers -> Req]
  BY <1>1 DEF IInv, TypeOK, HashRefused, Done
<1>3. row' \in [Items -> Workers \cup {None}]
  BY FilesAssumption DEF IInv, TypeOK, HashRefused, Unlock
<1>4. TypeOK'
  BY <1>1, <1>2, <1>3 DEF IInv, TypeOK, HashRefused, tables, Unlock, Done
<1>5. RowsOK' /\ MoveOK' /\ PlacesOK' /\ FileHashWasReference'
  BY TablesFrame DEF HashRefused, tables
<1>6. ReqOK'
  BY RequestEnds DEF IInv, TypeOK, HashRefused, Unlock, tables
<1> QED  BY <1>4, <1>5, <1>6 DEF IInv

LEMMA CrashStep ==
  ASSUME IInv, NEW p \in Workers, Crash(p)
  PROVE  IInv'
<1>1. Idle \in Req
  BY FilesAssumption DEF Idle, Request, Req
<1>2. req[p].obj \in Objects \cup {None}
  BY DEF IInv, TypeOK, Req
<1>3. stranded' \subseteq Objects
  BY <1>2 DEF IInv, TypeOK, Crash
<1>4. req' \in [Workers -> Req]
  BY <1>1 DEF IInv, TypeOK, Crash, Done
<1>5. row' \in [Items -> Workers \cup {None}]
  BY FilesAssumption DEF IInv, TypeOK, Crash, Unlock
<1>6. TypeOK'
  BY <1>1, <1>2, <1>3, <1>4, <1>5 DEF IInv, TypeOK, Crash, tables, Unlock, Done
<1>7. RowsOK' /\ MoveOK' /\ PlacesOK' /\ FileHashWasReference'
  BY TablesFrame DEF Crash, tables
<1>8. ReqOK'
  BY RequestEnds DEF IInv, TypeOK, Crash, Unlock, tables
<1> QED  BY <1>6, <1>7, <1>8 DEF IInv

LEMMA ListStep ==
  ASSUME IInv, NEW m \in Movers, NEW i \in Items,
         List(m, i)
  PROVE  IInv'
<1>1. Backend(i) \in Backends
  BY DEF IInv, TypeOK, PlacesOK, Backend, List
<1>2. [AtRest EXCEPT !.pc = "listed", !.item = i, !.from = Backend(i)] \in Move
  BY <1>1, FilesAssumption DEF AtRest, Move
<1>3. move' \in [Movers -> Move]
  BY <1>2 DEF IInv, TypeOK, List
<1>4. TypeOK'
  BY <1>1, <1>2, <1>3 DEF IInv, TypeOK, List, tables
<1>5. RowsOK' /\ ReqOK' /\ FileHashWasReference'
  BY RequestFrame DEF List, tables
<1>6. MoveOK'
  BY <1>1 DEF IInv, TypeOK, MoveOK, List, tables, Move
<1>7. PlacesOK'
  BY <1>1 DEF IInv, TypeOK, PlacesOK, List, tables, MoveOK, Move
<1> QED  BY <1>4, <1>5, <1>6, <1>7 DEF IInv

LEMMA CheckSourceStep ==
  ASSUME IInv, NEW m \in Movers, CheckSource(m)
  PROVE  IInv'
<1>1. AtRest \in Move
  BY FilesAssumption DEF AtRest, Move
<1>2. [move[m] EXCEPT !.pc = "checked"] \in Move
  BY DEF IInv, TypeOK, Move
<1>3. move' \in [Movers -> Move]
  BY <1>1, <1>2 DEF IInv, TypeOK, CheckSource, Leave
<1>4. TypeOK'
  BY <1>1, <1>2, <1>3 DEF IInv, TypeOK, CheckSource, tables, Leave, AtRest
<1>5. RowsOK' /\ ReqOK' /\ FileHashWasReference'
  BY RequestFrame DEF CheckSource, tables
<1>6. MoveOK'
  <2>1. move[m].pc # "idle" /\ (Leave(m) \/ move' = [move EXCEPT ![m].pc = "checked"])
    BY DEF CheckSource
  <2>2. \A n \in Movers : move'[n].pc # "idle" =>
          move[n].pc # "idle" /\ move'[n].item = move[n].item
    BY <2>1 DEF IInv, TypeOK, Leave, AtRest, Move
  <2> QED  BY <2>2, SameFile DEF CheckSource, tables
<1>7. PlacesOK'
  BY <1>1 DEF IInv, TypeOK, PlacesOK, CheckSource, tables, Leave, AtRest, MoveOK, Move
<1> QED  BY <1>4, <1>5, <1>6, <1>7 DEF IInv

LEMMA ProbeStep ==
  ASSUME IInv, NEW m \in Movers, Probe(m)
  PROVE  IInv'
<1>1. AtRest \in Move
  BY FilesAssumption DEF AtRest, Move
<1>2. [move[m] EXCEPT !.pc = "copy"] \in Move
  BY DEF IInv, TypeOK, Move
<1>3. [move[m] EXCEPT !.pc = "record"] \in Move
  BY DEF IInv, TypeOK, Move
<1>4. move' \in [Movers -> Move]
  BY <1>1, <1>2, <1>3 DEF IInv, TypeOK, Probe, Leave
<1>5. TypeOK'
  BY <1>1, <1>2, <1>3, <1>4 DEF IInv, TypeOK, Probe, tables, Leave, AtRest
<1>6. RowsOK' /\ ReqOK' /\ FileHashWasReference'
  BY RequestFrame DEF Probe, tables
<1>7. MoveOK'
  <2>1. CASE Leave(m)
    BY <2>1, SameFile DEF IInv, TypeOK, Probe, tables, Leave, AtRest
  <2>2. ASSUME NEW x, move' = [move EXCEPT ![m].pc = x] PROVE MoveOK'
    BY <2>2, SameFile DEF IInv, TypeOK, Move, Probe, tables
  <2> QED  BY <2>1, <2>2 DEF Probe
<1>8. PlacesOK'
  BY <1>1 DEF IInv, TypeOK, PlacesOK, Probe, tables, Leave, AtRest, MoveOK, Move
<1> QED  BY <1>5, <1>6, <1>7, <1>8 DEF IInv

LEMMA CopyStep ==
  ASSUME IInv, NEW m \in Movers, Copy(m)
  PROVE  IInv'
<1>1. AtRest \in Move
  BY FilesAssumption DEF AtRest, Move
<1>2. [move[m] EXCEPT !.pc = "copied", !.copied = TRUE] \in Move
  BY DEF IInv, TypeOK, Move
<1>3. move' \in [Movers -> Move]
  BY <1>1, <1>2 DEF IInv, TypeOK, Copy, Leave
<1>4. Moving(m) \in Objects /\ Target(m) \in Backends /\ Source(m) \in Backends
  BY DEF IInv, TypeOK, MoveOK, Move, File, Moving, Target, Source, Other, Backends, Copy
<1>5. store' \in [Backends -> [Objects -> Data \cup {None}]]
  <2> DEFINE there == store[Target(m)][Moving(m)]
             source == store[Source(m)][Moving(m)]
  <2>1. \/ store' = store
        \/ source # None /\ store' = [store EXCEPT ![Target(m)][Moving(m)] = source]
        \/ store' = [store EXCEPT !["local"][Moving(m)] = None]
    BY DEF Copy
  <2>2. source \in Data \cup {None} /\ "local" \in Backends
    BY <1>4 DEF IInv, TypeOK, Backends
  <2>3. store \in [Backends -> [Objects -> Data \cup {None}]] /\ None \in Data \cup {None}
    BY DEF IInv, TypeOK
  <2>4. [store EXCEPT ![Target(m)][Moving(m)] = source]
          \in [Backends -> [Objects -> Data \cup {None}]]
    BY <1>4, <2>2, <2>3, StoreUpdate
  <2>5. [store EXCEPT !["local"][Moving(m)] = None]
          \in [Backends -> [Objects -> Data \cup {None}]]
    BY <1>4, <2>2, <2>3, StoreUpdate
  <2> QED  BY <2>1, <2>3, <2>4, <2>5
<1>6. TypeOK'
  BY <1>1, <1>2, <1>3, <1>4, <1>5 DEF IInv, TypeOK, Copy, tables, Leave, AtRest
<1>7. RowsOK' /\ ReqOK' /\ FileHashWasReference'
  BY RequestFrame DEF Copy, tables
<1>8. MoveOK'
  <2>1. move[m].pc # "idle" /\ (Leave(m) \/ move' = [move EXCEPT ![m] = [@ EXCEPT !.pc = "copied", !.copied = TRUE]])
    BY DEF Copy
  <2>2. CASE Leave(m)
    BY <2>1, <2>2, SameFile DEF IInv, TypeOK, Copy, tables, Leave, AtRest
  <2>3. CASE ~Leave(m)
    <3>1. \A n \in Movers : move'[n].item = move[n].item /\ (n # m => move'[n] = move[n])
      <4> DEFINE r == [move[m] EXCEPT !.pc = "copied", !.copied = TRUE]
      <4>1. r.item = move[m].item
        BY DEF IInv, TypeOK, Move
      <4>2. move' = [move EXCEPT ![m] = r] /\ move \in [Movers -> Move]
        BY <2>1, <2>3 DEF IInv, TypeOK
      <4> HIDE DEF r
      <4> QED  BY <4>1, <4>2
    <3> QED  BY <2>1, <3>1, SameFile DEF Copy, tables
  <2> QED  BY <2>2, <2>3
<1>9. PlacesOK'
  BY <1>1 DEF IInv, TypeOK, PlacesOK, Copy, tables, Leave, AtRest, MoveOK, Move
<1> QED  BY <1>6, <1>7, <1>8, <1>9 DEF IInv

LEMMA CopyKilledStep ==
  ASSUME IInv, NEW m \in Movers, CopyKilled(m)
  PROVE  IInv'
<1>1. AtRest \in Move
  BY FilesAssumption DEF AtRest, Move
<1>2. move' \in [Movers -> Move]
  BY <1>1 DEF IInv, TypeOK, CopyKilled, Leave
<1>3. store' \in [Backends -> [Objects -> Data \cup {None}]]
  BY FilesAssumption DEF IInv, TypeOK, CopyKilled, Data, Backends
<1>4. TypeOK'
  BY <1>1, <1>2, <1>3 DEF IInv, TypeOK, CopyKilled, tables, Leave, AtRest
<1>5. RowsOK' /\ ReqOK' /\ FileHashWasReference'
  BY RequestFrame DEF CopyKilled, tables
<1>6. MoveOK'
  BY SameFile DEF IInv, TypeOK, CopyKilled, tables, Leave, AtRest
<1>7. PlacesOK'
  BY <1>1 DEF IInv, TypeOK, PlacesOK, CopyKilled, tables, Leave, AtRest, MoveOK, Move
<1> QED  BY <1>4, <1>5, <1>6, <1>7 DEF IInv

LEMMA CheckTargetStep ==
  ASSUME IInv, NEW m \in Movers, CheckTarget(m)
  PROVE  IInv'
<1>1. AtRest \in Move
  BY FilesAssumption DEF AtRest, Move
<1>2. [move[m] EXCEPT !.pc = "record"] \in Move
  BY DEF IInv, TypeOK, Move
<1>3. move' \in [Movers -> Move]
  BY <1>1, <1>2 DEF IInv, TypeOK, CheckTarget, Leave
<1>4. Moving(m) \in Objects /\ Target(m) \in Backends /\ Source(m) \in Backends
  BY DEF IInv, TypeOK, MoveOK, Move, File, Moving, Target, Source, Other, Backends, CheckTarget
<1>5. store' \in [Backends -> [Objects -> Data \cup {None}]]
  <2>1. store' = store \/ store' = [store EXCEPT ![Target(m)][Moving(m)] = None]
    BY DEF CheckTarget
  <2>2. store \in [Backends -> [Objects -> Data \cup {None}]] /\ None \in Data \cup {None}
    BY DEF IInv, TypeOK
  <2>3. [store EXCEPT ![Target(m)][Moving(m)] = None]
          \in [Backends -> [Objects -> Data \cup {None}]]
    BY <1>4, <2>2, StoreUpdate
  <2> QED  BY <2>1, <2>2, <2>3
<1>6. TypeOK'
  BY <1>1, <1>2, <1>3, <1>4, <1>5 DEF IInv, TypeOK, CheckTarget, tables, Leave, AtRest
<1>7. RowsOK' /\ ReqOK' /\ FileHashWasReference'
  BY RequestFrame DEF CheckTarget, tables
<1>8. MoveOK'
  <2>1. move[m].pc # "idle" /\ (Leave(m) \/ move' = [move EXCEPT ![m].pc = "record"])
    BY DEF CheckTarget
  <2>2. \A n \in Movers : move'[n].pc # "idle" =>
          move[n].pc # "idle" /\ move'[n].item = move[n].item
    BY <2>1 DEF IInv, TypeOK, Leave, AtRest, Move
  <2> QED  BY <2>2, SameFile DEF CheckTarget, tables
<1>9. PlacesOK'
  BY <1>1 DEF IInv, TypeOK, PlacesOK, CheckTarget, tables, Leave, AtRest, MoveOK, Move
<1> QED  BY <1>6, <1>7, <1>8, <1>9 DEF IInv

LEMMA RecordMoveStep ==
  ASSUME IInv, NEW m \in Movers, RecordMove(m)
  PROVE  IInv'
<1>1. AtRest \in Move
  BY FilesAssumption DEF AtRest, Move
<1>2. move' \in [Movers -> Move]
  BY <1>1 DEF IInv, TypeOK, RecordMove, Leave
<1>3. Moving(m) \in Objects /\ Target(m) \in Backends /\ Source(m) \in Backends
  BY DEF IInv, TypeOK, MoveOK, Move, File, Moving, Target, Source, Other, Backends, RecordMove
<1>4. places' \in [Items -> Seq(Backends)]
  BY <1>3 DEF IInv, TypeOK, MoveOK, RecordMove, AddPlace
<1>5. TypeOK'
  BY <1>1, <1>2, <1>3, <1>4 DEF IInv, TypeOK, RecordMove, tables, Leave, AtRest, AddPlace
<1>6. RowsOK' /\ ReqOK' /\ FileHashWasReference'
  BY RequestFrame DEF RecordMove, tables
<1>7. MoveOK'
  BY SameFile DEF IInv, TypeOK, RecordMove, tables, Leave, AtRest, AddPlace
<1>8. PlacesOK'
  BY <1>1 DEF IInv, TypeOK, PlacesOK, RecordMove, tables, Leave, AtRest, AddPlace, MoveOK, Move
<1> QED  BY <1>5, <1>6, <1>7, <1>8 DEF IInv

LEMMA RecordMoveFailsStep ==
  ASSUME IInv, NEW m \in Movers, RecordMoveFails(m)
  PROVE  IInv'
<1>1. AtRest \in Move
  BY FilesAssumption DEF AtRest, Move
<1>2. move' \in [Movers -> Move]
  BY <1>1 DEF IInv, TypeOK, RecordMoveFails, Leave
<1>3. Moving(m) \in Objects /\ Target(m) \in Backends /\ Source(m) \in Backends
  BY DEF IInv, TypeOK, MoveOK, Move, File, Moving, Target, Source, Other, Backends, RecordMoveFails
<1>4. store' \in [Backends -> [Objects -> Data \cup {None}]]
  BY <1>3, StoreUpdate DEF IInv, TypeOK, RecordMoveFails
<1>5. TypeOK'
  BY <1>1, <1>2, <1>3, <1>4 DEF IInv, TypeOK, RecordMoveFails, tables, Leave, AtRest
<1>6. RowsOK' /\ ReqOK' /\ FileHashWasReference'
  BY RequestFrame DEF RecordMoveFails, tables
<1>7. MoveOK'
  BY SameFile DEF IInv, TypeOK, RecordMoveFails, tables, Leave, AtRest
<1>8. PlacesOK'
  BY <1>1 DEF IInv, TypeOK, PlacesOK, RecordMoveFails, tables, Leave, AtRest, MoveOK, Move
<1> QED  BY <1>5, <1>6, <1>7, <1>8 DEF IInv

LEMMA RecordMoveReplyLostStep ==
  ASSUME IInv, NEW m \in Movers, RecordMoveReplyLost(m)
  PROVE  IInv'
<1>1. AtRest \in Move
  BY FilesAssumption DEF AtRest, Move
<1>2. move' \in [Movers -> Move]
  BY <1>1 DEF IInv, TypeOK, RecordMoveReplyLost, Leave
<1>3. Moving(m) \in Objects /\ Target(m) \in Backends /\ Source(m) \in Backends
  BY DEF IInv, TypeOK, MoveOK, Move, File, Moving, Target, Source, Other, Backends, RecordMoveReplyLost
<1>4. places' \in [Items -> Seq(Backends)]
  BY <1>3 DEF IInv, TypeOK, MoveOK, RecordMoveReplyLost, AddPlace
<1>5. store' \in [Backends -> [Objects -> Data \cup {None}]]
  BY <1>3, StoreUpdate DEF IInv, TypeOK, RecordMoveReplyLost
<1>6. TypeOK'
  BY <1>1, <1>2, <1>3, <1>4, <1>5 DEF IInv, TypeOK, RecordMoveReplyLost, tables, Leave, AtRest, AddPlace
<1>7. RowsOK' /\ ReqOK' /\ FileHashWasReference'
  BY RequestFrame DEF RecordMoveReplyLost, tables
<1>8. MoveOK'
  BY SameFile DEF IInv, TypeOK, RecordMoveReplyLost, tables, Leave, AtRest, AddPlace
<1>9. PlacesOK'
  BY <1>1 DEF IInv, TypeOK, PlacesOK, RecordMoveReplyLost, tables, Leave, AtRest, AddPlace, MoveOK, Move
<1> QED  BY <1>6, <1>7, <1>8, <1>9 DEF IInv

LEMMA MoveStopsStep ==
  ASSUME IInv, NEW m \in Movers, MoveStops(m)
  PROVE  IInv'
<1>1. AtRest \in Move
  BY FilesAssumption DEF AtRest, Move
<1>2. move' \in [Movers -> Move]
  BY <1>1 DEF IInv, TypeOK, MoveStops, Leave
<1>3. TypeOK'
  BY <1>1, <1>2 DEF IInv, TypeOK, MoveStops, tables, Leave, AtRest
<1>4. RowsOK' /\ ReqOK' /\ FileHashWasReference'
  BY RequestFrame DEF MoveStops, tables
<1>5. MoveOK'
  BY SameFile DEF IInv, TypeOK, MoveStops, tables, Leave, AtRest
<1>6. PlacesOK'
  BY <1>1 DEF IInv, TypeOK, PlacesOK, MoveStops, tables, Leave, AtRest, MoveOK, Move
<1> QED  BY <1>3, <1>4, <1>5, <1>6 DEF IInv

---------------------------------------------------------------------------
(* The remaining steps, and the invariant. *)

LEMMA RegisterPlainStep ==
  ASSUME IInv, NEW i \in Items, NEW h \in {<<>>} \cup {<<c>> : c \in Contents},
         RegisterPlain(i, h)
  PROVE  IInv'
<1>1. h \in Seq(Contents) /\ Len(h) <= MaxHashes
  <2>1. CASE h = <<>>
    BY <2>1, FilesAssumption
  <2>2. ASSUME NEW c \in Contents, h = <<c>>
        PROVE  h \in Seq(Contents) /\ Len(h) <= MaxHashes
    BY <2>2, Singleton, FilesAssumption
  <2> QED  BY <2>1, <2>2
<1>2. TypeOK'
  BY <1>1 DEF IInv, TypeOK, RegisterPlain
<1>3. /\ files[i] = None /\ \A j \in registered : hashes'[j] = hashes[j]
      /\ registered' = registered \cup {i}
      /\ UNCHANGED <<files, places, row, req, move>>
  BY DEF IInv, TypeOK, RowsOK, RegisterPlain
<1>4. RowsOK' /\ MoveOK' /\ PlacesOK'
  BY <1>3 DEF IInv, TypeOK, RowsOK, MoveOK, PlacesOK, RegisterPlain
<1>5. ReqOK'
  <2> SUFFICES ASSUME NEW q \in Workers PROVE ReqAt(q)'
    BY DEF ReqOK
  <2> QED  BY <1>3 DEF IInv, ReqOK, ReqAt
<1>6. FileHashWasReference'
  BY <1>3 DEF IInv, RowsOK, FileHashWasReference
<1> QED  BY <1>2, <1>4, <1>5, <1>6 DEF IInv

LEMMA DamageStep ==
  ASSUME IInv, NEW b \in Backends, NEW o \in Objects, Damage(b, o)
  PROVE  IInv'
<1>1. store' \in [Backends -> [Objects -> Data \cup {None}]]
  BY StoreUpdate DEF IInv, TypeOK, Damage, Data
<1>2. TypeOK'
  BY <1>1 DEF IInv, TypeOK, Damage, tables
<1>3. RowsOK' /\ ReqOK' /\ FileHashWasReference'
  BY RequestFrame DEF Damage, tables
<1>4. MoveOK' /\ PlacesOK'
  BY DEF IInv, MoveOK, PlacesOK, Damage, tables
<1> QED  BY <1>2, <1>3, <1>4 DEF IInv

LEMMA StoreFailsStep ==
  ASSUME IInv, NEW p \in Workers, NEW o \in Objects, NEW d \in Data, StoreFails(p, o, d)
  PROVE  IInv'
<1>1. store' \in [Backends -> [Objects -> Data \cup {None}]] /\ issued' \subseteq Objects
  BY StoreUpdate, FilesAssumption DEF IInv, TypeOK, StoreFails, Put
<1>2. TypeOK'
  BY <1>1 DEF IInv, TypeOK, StoreFails, tables
<1>3. RowsOK' /\ ReqOK' /\ FileHashWasReference'
  BY RequestFrame DEF StoreFails, tables
<1>4. MoveOK' /\ PlacesOK'
  BY DEF IInv, MoveOK, PlacesOK, StoreFails, tables
<1> QED  BY <1>2, <1>3, <1>4 DEF IInv

LEMMA InitIInv == Init => IInv
<1> SUFFICES ASSUME Init PROVE IInv
  OBVIOUS
<1>1. Idle \in Req /\ AtRest \in Move
  BY FilesAssumption DEF Idle, Request, Req, AtRest, Move
<1>2. TypeOK
  BY <1>1, FilesAssumption DEF Init, TypeOK
<1>3. RowsOK /\ MoveOK /\ PlacesOK /\ FileHashWasReference
  BY DEF Init, RowsOK, MoveOK, PlacesOK, FileHashWasReference, AtRest
<1>4. ReqOK
  BY DEF Init, ReqOK, ReqAt, Idle, Request
<1> QED  BY <1>2, <1>3, <1>4 DEF IInv

LEMMA NextIInv == IInv /\ [Next]_vars => IInv'
<1> SUFFICES ASSUME IInv, [Next]_vars PROVE IInv'
  OBVIOUS
<1>1. ASSUME NEW p \in Workers, RegisterStep(p) PROVE IInv'
  BY <1>1, RegisterStoreStep, RegisterRefusedStep, RegisterEvidenceStep,
     RegisterAbortsStep, RecordFileStep, RecordFileFailsStep DEF RegisterStep
<1>2. ASSUME NEW p \in Workers, AttachStep(p) PROVE IInv'
  BY <1>2, AttachStoreStep, AttachLockStep, AttachCommitStep, AttachReplyLostStep,
     AttachRefusedStep DEF AttachStep
<1>3. ASSUME NEW p \in Workers, HashStep(p) PROVE IInv'
  BY <1>3, HashStoredStep, VerifyLockStep, HashLockStep, RecordOriginalStep,
     CorrectHashStep, VerifyStep, HashRefusedStep DEF HashStep
<1>4. ASSUME NEW m \in Movers, MoveStep(m) PROVE IInv'
  BY <1>4, ListStep, CheckSourceStep, ProbeStep, CopyStep, CopyKilledStep,
     CheckTargetStep, RecordMoveStep, RecordMoveFailsStep, RecordMoveReplyLostStep,
     MoveStopsStep DEF MoveStep
<1>5. CASE UNCHANGED vars
  <2>1. TypeOK'
    BY <1>5 DEF IInv, TypeOK, vars, tables
  <2>2. RowsOK' /\ ReqOK' /\ FileHashWasReference'
    BY <1>5, RequestFrame DEF vars, tables
  <2>3. MoveOK' /\ PlacesOK'
    BY <1>5 DEF IInv, MoveOK, PlacesOK, vars, tables
  <2> QED  BY <2>1, <2>2, <2>3 DEF IInv
<1> QED  BY <1>1, <1>2, <1>3, <1>4, <1>5, CrashStep, RegisterPlainStep, DamageStep,
            StoreFailsStep DEF Next

(* The type of the state is kept. *)
THEOREM TypeCorrect == Spec => []TypeOK
<1>1. IInv => TypeOK
  BY DEF IInv
<1> QED  BY <1>1, InitIInv, NextIInv, PTL DEF Spec

(* Every variable keeps its type, and a stored file is one that the item's *)
(* hashes vouch for: for any items, uploads, requests and migrations, with *)
(* corrections between the two transactions of register_with_file.         *)
THEOREM FilesVouchedFor == Spec => [](TypeOK /\ FileHashWasReference)
<1>1. IInv => TypeOK /\ FileHashWasReference
  BY DEF IInv
<1> QED  BY <1>1, InitIInv, NextIInv, PTL DEF Spec

(* attach never records a file that differs from the item's reference hash,*)
(* whoever records or corrects a hash meanwhile: the lock on the item's    *)
(* row makes the hash it compared with the present one.                    *)
THEOREM AttachRespectsReference == Spec => AttachedMatchesReference
<1> DEFINE Matches == \A p \in Workers, i \in Items :
             ( /\ req[p].op = "attach" /\ req[p].item = i /\ req'[p] # req[p]
               /\ files[i] = None /\ files'[i] # None )
             => files'[i].sha = hashes'[i][Len(hashes'[i])]
<1>1. ASSUME IInv, Next PROVE Matches
  <2> SUFFICES ASSUME NEW p \in Workers, NEW i \in Items,
                      req[p].op = "attach", req[p].item = i, req'[p] # req[p],
                      files[i] = None, files'[i] # None
               PROVE  AttachRows(p)
    BY <1>1, AttachRowsStep
  <2>1. ASSUME NEW q \in Workers, RegisterStep(q) PROVE FALSE
    <3>1. CASE RecordFile(q)
      <4>1. q = p
        BY <1>1, <3>1 DEF IInv, TypeOK, RecordFile, Done
      <4> QED  BY <1>1, <3>1, <4>1 DEF IInv, ReqOK, ReqAt, RecordFile
    <3>2. CASE ~RecordFile(q)
      BY <2>1, <3>2 DEF RegisterStep, RegisterStore, RegisterRefused, RegisterEvidence,
                        RegisterAborts, RecordFileFails, tables
    <3> QED  BY <3>1, <3>2
  <2>2. ASSUME NEW q \in Workers, AttachStep(q) PROVE AttachRows(p)
    <3>1. CASE AttachRows(q)
      BY <1>1, <3>1 DEF IInv, TypeOK, AttachRows, Done
    <3>2. CASE ~AttachRows(q)
      BY <2>2, <3>2 DEF AttachStep, AttachStore, AttachLock, AttachCommit,
                        AttachReplyLost, AttachRefused, tables
    <3> QED  BY <3>1, <3>2
  <2>3. ASSUME NEW q \in Workers, HashStep(q) \/ Crash(q) PROVE FALSE
    BY <2>3 DEF HashStep, HashStored, VerifyLock, HashLock, RecordOriginal, CorrectHash,
                Verify, HashRefused, Crash, tables
  <2>4. ASSUME NEW m \in Movers, MoveStep(m) PROVE FALSE
    BY <2>4 DEF MoveStep, List, CheckSource, Probe, Copy, CopyKilled, CheckTarget,
                RecordMove, RecordMoveFails, RecordMoveReplyLost, MoveStops, tables
  <2> QED  BY <1>1, <2>1, <2>2, <2>3, <2>4 DEF Next, RegisterPlain, StoreFails, Damage, tables
<1>2. ASSUME IInv, [Next]_vars PROVE [Matches]_vars
  BY <1>1, <1>2
<1> QED  BY <1>2, InitIInv, NextIInv, PTL DEF Spec, AttachedMatchesReference

---------------------------------------------------------------------------
(* Verifications. *)

(* Every recorded verification says whether its content was that of the     *)
(* hash it names.                                                           *)
ChecksTrue ==
  \A i \in Items : \A k \in 1 .. Len(checks[i]) :
    /\ checks[i][k].hash <= Len(hashes[i])
    /\ checks[i][k].result = "Verified" <=> checks[i][k].computed = hashes[i][checks[i][k].hash]

(* Hashes are only ever appended. *)
LEMMA HashesExtend ==
  ASSUME IInv, Next, NEW i \in Items
  PROVE  /\ Len(hashes[i]) <= Len(hashes'[i])
         /\ \A k \in 1 .. Len(hashes[i]) : hashes'[i][k] = hashes[i][k]
<1>1. hashes[i] \in Seq(Contents) /\ hashes \in [Items -> Seq(Contents)]
  BY DEF IInv, TypeOK
<1>2. CASE UNCHANGED hashes
  BY <1>1, <1>2
<1>3. ASSUME NEW j \in Items, NEW h \in Seq(Contents), hashes[j] = <<>>,
             hashes' = [hashes EXCEPT ![j] = h]
      PROVE  /\ Len(hashes[i]) <= Len(hashes'[i])
             /\ \A k \in 1 .. Len(hashes[i]) : hashes'[i][k] = hashes[i][k]
  BY <1>1, <1>3
<1>4. ASSUME NEW p \in Workers, RegisterEvidence(p, i)
      PROVE  hashes[i] = <<>>
  BY <1>4 DEF IInv, RowsOK, RegisterEvidence
<1>5. ASSUME NEW p \in Workers, RegisterStep(p)
      PROVE  \/ UNCHANGED hashes
             \/ \E j \in Items, h \in Seq(Contents) :
                  hashes[j] = <<>> /\ hashes' = [hashes EXCEPT ![j] = h]
  <2>1. CASE \E j \in Items : RegisterEvidence(p, j)
    <3>1. PICK j \in Items : RegisterEvidence(p, j)
      BY <2>1
    <3>2. hashes[j] = <<>> /\ req[p].sha \in Contents
          /\ hashes' = [hashes EXCEPT ![j] = <<req[p].sha>>]
      BY <3>1 DEF IInv, RowsOK, ReqOK, ReqAt, RegisterEvidence
    <3>3. <<req[p].sha>> \in Seq(Contents)
      BY <3>2, Singleton
    <3> QED  BY <3>2, <3>3
  <2>2. CASE ~ \E j \in Items : RegisterEvidence(p, j)
    BY <1>5, <2>2 DEF RegisterStep, RegisterStore, RegisterRefused, RegisterAborts,
                      RecordFile, RecordFileFails, tables
  <2> QED  BY <2>1, <2>2
<1>6. ASSUME NEW p \in Workers, AttachRows(p) \/ RecordOriginal(p)
      PROVE  \/ UNCHANGED hashes
             \/ \E j \in Items, h \in Seq(Contents) :
                  hashes[j] = <<>> /\ hashes' = [hashes EXCEPT ![j] = h]
  <2>1. req[p].item \in Items /\ req[p].sha \in Contents
    BY <1>6 DEF IInv, TypeOK, ReqOK, ReqAt, AttachRows, RecordOriginal
  <2>2. <<req[p].sha>> \in Seq(Contents)
    BY <2>1, Singleton
  <2> QED  BY <1>6, <2>1, <2>2 DEF AttachRows, RecordOriginal
<1>7. ASSUME NEW p \in Workers, CorrectHash(p)
      PROVE  /\ Len(hashes[i]) <= Len(hashes'[i])
             /\ \A k \in 1 .. Len(hashes[i]) : hashes'[i][k] = hashes[i][k]
  <2>1. /\ req[p].item \in Items /\ req[p].sha \in Contents
        /\ hashes' = [hashes EXCEPT ![req[p].item] = Append(hashes[req[p].item], req[p].sha)]
    BY <1>7 DEF IInv, TypeOK, ReqOK, ReqAt, CorrectHash
  <2> QED  BY <1>1, <2>1
<1>8. ASSUME NEW p \in Workers, AttachStep(p) \/ HashStep(p) \/ Crash(p)
      PROVE  UNCHANGED hashes \/ AttachRows(p) \/ RecordOriginal(p) \/ CorrectHash(p)
  BY <1>8 DEF AttachStep, AttachStore, AttachLock, AttachCommit, AttachReplyLost, AttachRefused,
              HashStep, HashStored, VerifyLock, HashLock, Verify, HashRefused, Crash, tables
<1>9. ASSUME NEW m \in Movers, MoveStep(m)
      PROVE  UNCHANGED hashes
  BY <1>9 DEF MoveStep, List, CheckSource, Probe, Copy, CopyKilled, CheckTarget, RecordMove,
              RecordMoveFails, RecordMoveReplyLost, MoveStops, tables
<1>10. ASSUME NEW j \in Items, NEW h \in {<<>>} \cup {<<c>> : c \in Contents}, RegisterPlain(j, h)
       PROVE  hashes[j] = <<>> /\ h \in Seq(Contents) /\ hashes' = [hashes EXCEPT ![j] = h]
  <2>1. CASE h = <<>>
    BY <1>10, <2>1 DEF IInv, RowsOK, RegisterPlain
  <2>2. ASSUME NEW c \in Contents, h = <<c>> PROVE h \in Seq(Contents)
    BY <2>2, Singleton
  <2> QED  BY <1>10, <2>1, <2>2 DEF IInv, RowsOK, RegisterPlain
<1>11. ASSUME NEW b \in Backends, NEW o \in Objects, Damage(b, o)
       PROVE  UNCHANGED hashes
  BY <1>11 DEF Damage, tables
<1>12. ASSUME NEW p \in Workers, NEW o \in Objects, NEW d \in Data, StoreFails(p, o, d)
       PROVE  UNCHANGED hashes
  BY <1>12 DEF StoreFails, tables
<1> QED  BY <1>2, <1>3, <1>5, <1>6, <1>7, <1>8, <1>9, <1>10, <1>11, <1>12 DEF Next

(* Only a verification adds to the checks. *)
LEMMA OnlyVerifyChecks ==
  ASSUME Next
  PROVE  UNCHANGED checks \/ \E p \in Workers : Verify(p)
BY DEF Next, RegisterStep, RegisterStore, RegisterRefused, RegisterEvidence, RegisterAborts,
       RecordFile, RecordFileFails, RegisterPlain, AttachStep, AttachStore, AttachLock,
       AttachCommit, AttachReplyLost, AttachRows, AttachRefused, HashStep, HashStored,
       VerifyLock, HashLock, RecordOriginal, CorrectHash, HashRefused, Crash, Damage, StoreFails,
       MoveStep, List, CheckSource, Probe, Copy, CopyKilled, CheckTarget, RecordMove, RecordMoveFails,
       RecordMoveReplyLost, MoveStops, tables

LEMMA ChecksTrueStep ==
  ASSUME IInv, ChecksTrue, Next
  PROVE  ChecksTrue'
<1> SUFFICES ASSUME NEW i \in Items, NEW k \in 1 .. Len(checks'[i])
             PROVE  /\ checks'[i][k].hash <= Len(hashes'[i])
                    /\ checks'[i][k].result = "Verified"
                         <=> checks'[i][k].computed = hashes'[i][checks'[i][k].hash]
  BY DEF ChecksTrue
<1>2. /\ checks[i] \in Seq(Check) /\ checks \in [Items -> Seq(Check)]
      /\ Len(hashes[i]) \in Nat /\ Len(hashes'[i]) \in Nat
  BY NextIInv DEF IInv, TypeOK
<1>3. ASSUME k \in 1 .. Len(checks[i]), checks'[i][k] = checks[i][k]
      PROVE  /\ checks'[i][k].hash <= Len(hashes'[i])
             /\ checks'[i][k].result = "Verified"
                  <=> checks'[i][k].computed = hashes'[i][checks'[i][k].hash]
  <2>1. checks[i][k] \in Check
    BY <1>2, <1>3
  <2>2. checks[i][k].hash \in 1 .. Len(hashes[i])
    BY <1>2, <1>3, <2>1, FilesAssumption DEF ChecksTrue, Check
  <2>3. hashes'[i][checks[i][k].hash] = hashes[i][checks[i][k].hash]
        /\ Len(hashes[i]) <= Len(hashes'[i])
    BY <2>2, HashesExtend
  <2>4. checks[i][k].result = "Verified" <=> checks[i][k].computed = hashes[i][checks[i][k].hash]
    BY <1>3 DEF ChecksTrue
  <2>5. checks'[i][k].hash <= Len(hashes'[i])
    BY <1>2, <1>3, <2>2, <2>3
  <2> QED  BY <1>3, <2>3, <2>4, <2>5, Zenon
<1>4. CASE UNCHANGED checks
  BY <1>3, <1>4
<1>5. ASSUME NEW p \in Workers, Verify(p)
      PROVE  /\ checks'[i][k].hash <= Len(hashes'[i])
             /\ checks'[i][k].result = "Verified"
                  <=> checks'[i][k].computed = hashes'[i][checks'[i][k].hash]
  <2>1. PICK c : c = [hash |-> req[p].cur, computed |-> req[p].sha,
                      result |-> Result(req[p].item, req[p].cur, req[p].sha)]
    OBVIOUS
  <2>2. /\ checks' = [checks EXCEPT ![req[p].item] = Append(checks[req[p].item], c)]
        /\ req[p].cur = Len(hashes[req[p].item]) /\ hashes' = hashes
        /\ req[p].item \in Items
    BY <1>5, <2>1 DEF Verify, IInv, TypeOK, ReqOK, ReqAt
  <2>3. c.hash = req[p].cur /\ c.computed = req[p].sha
        /\ (c.result = "Verified" <=> hashes[req[p].item][req[p].cur] = req[p].sha)
    BY <2>1 DEF Result
  <2>4. CASE k \in 1 .. Len(checks[i])
    BY <1>2, <1>3, <2>2, <2>4
  <2>5. CASE k \notin 1 .. Len(checks[i])
    <3>1. i = req[p].item /\ checks'[i][k] = c
      BY <1>2, <2>2, <2>5
    <3>2. checks'[i][k].hash <= Len(hashes'[i])
      BY <1>2, <2>2, <2>3, <3>1
    <3> QED  BY <2>2, <2>3, <3>1, <3>2, Zenon
  <2> QED  BY <2>4, <2>5
<1> QED  BY <1>4, <1>5, OnlyVerifyChecks

(* The integrity status shown for an item is that of the last content       *)
(* compared with its current hash, for any corrections and verifications:   *)
(* a verification is recorded under the lock of the item's row, against the *)
(* hash that is current there, and no hash changes afterwards.              *)
THEOREM StatusIsCurrent == Spec => []StatusIsOfCurrentHash
<1>1. Init => ChecksTrue
  BY DEF Init, ChecksTrue
<1>2. IInv /\ ChecksTrue => StatusIsOfCurrentHash
  <2> SUFFICES ASSUME IInv, ChecksTrue, NEW i \in Items, NEW k \in Latest(i)
               PROVE  IntegrityStatus(i) = "Verified"
                        <=> checks[i][k].computed = hashes[i][CurrentHash(i)]
    BY DEF StatusIsOfCurrentHash
  <2>1. k \in 1 .. Len(checks[i]) /\ checks[i][k].hash = CurrentHash(i)
    BY DEF Latest
  <2>2. checks[i] \in Seq(Check) /\ hashes[i] \in Seq(Contents)
    BY DEF IInv, TypeOK
  <2>3. \A j \in Latest(i) : j = k
    BY <2>2 DEF Latest
  <2>4. (CHOOSE j \in Latest(i) : TRUE) = k
    BY <2>3
  <2>5. hashes[i] # <<>>
    <3>1. checks[i][k] \in Check
      BY <2>1, <2>2
    <3>2. checks[i][k].hash \in 1 .. MaxHashes
      BY <3>1 DEF Check
    <3> QED  BY <2>1, <2>2, <3>2, FilesAssumption DEF CurrentHash
  <2>6. IntegrityStatus(i) = checks[i][k].result
    BY <2>4, <2>5 DEF IntegrityStatus
  <2>7. checks[i][k].result = "Verified" <=> checks[i][k].computed = hashes[i][checks[i][k].hash]
    BY <2>1 DEF ChecksTrue
  <2> QED  BY <2>1, <2>6, <2>7, Zenon
<1>3. IInv /\ ChecksTrue /\ [Next]_vars => ChecksTrue'
  BY ChecksTrueStep DEF ChecksTrue, vars, tables
<1> QED  BY <1>1, <1>2, <1>3, InitIInv, NextIInv, PTL DEF Spec

---------------------------------------------------------------------------
(* Objects: whose they are, and where they are. *)

(* Only a request with an upload that is not recorded yet has an object. *)
EmptyHanded ==
  \A p \in Workers :
    \/ req[p].pc \in {"stored", "registered"}
    \/ req[p].pc = "locked" /\ req[p].op = "attach"
    \/ req[p].obj = None

OnRecord(o) == \E i \in Items : files[i] # None /\ files[i].obj = o

(* An object belongs to one request or to one file. *)
OneOwner ==
  /\ \A p \in Workers : req[p].obj # None => req[p].obj \in issued /\ ~ OnRecord(req[p].obj)
  /\ \A p, q \in Workers : (p # q /\ req[p].obj # None) => req[p].obj # req[q].obj
  /\ \A i \in Items : files[i] # None => files[i].obj \in issued
  /\ \A i, j \in Items :
       (i # j /\ files[i] # None /\ files[j] # None) => files[i].obj # files[j].obj

(* What is not recorded has not been copied anywhere. *)
AtHome == \A o \in Objects : OnRecord(o) \/ store[Other(Home)][o] = None

(* The effects a step can have on objects. *)

(* None at all. *)
Quiet ==
  /\ UNCHANGED <<store, issued, files, doubtful, damaged>>
  /\ stranded \subseteq stranded'
  /\ \A p \in Workers : /\ req'[p].obj = req[p].obj
                        /\ req[p].obj # None => req'[p].sha = req[p].sha

(* An upload. *)
Uploads(p, o, c) ==
  /\ Put(o, c)
  /\ req[p].obj = None /\ req'[p].obj = o /\ req'[p].sha = c
  /\ \A q \in Workers : q # p => req'[q] = req[q]
  /\ UNCHANGED <<files, places, stranded, doubtful, damaged>>

(* A request gives up its object, which is removed or left to nobody. *)
Drops(p) ==
  /\ req[p].obj \in Objects /\ req'[p].obj = None
  /\ \A q \in Workers : q # p => req'[q] = req[q]
  /\ Discard(p)
  /\ UNCHANGED <<issued, files, places, doubtful, damaged>>

(* A request records its object, and may remove it because it does not know. *)
Records(p) ==
  /\ req[p].item \in Items /\ req[p].obj \in Objects /\ req[p].sha \in Contents
  /\ files[req[p].item] = None /\ InsertFileRow(p)
  /\ req'[p].obj = None
  /\ \A q \in Workers : q # p => req'[q] = req[q]
  /\ UNCHANGED <<issued, stranded, damaged>>
  /\ \/ UNCHANGED <<store, doubtful>>
     \/ /\ store' = [store EXCEPT ![Home][req[p].obj] = None]
        /\ doubtful' = doubtful \cup {req[p].obj}

(* A migration: at most the copies of its own file change. *)
Moves(m) ==
  /\ UNCHANGED <<issued, files, req, stranded, damaged>>
  /\ \/ UNCHANGED store
     \/ /\ move[m].pc # "idle"
        /\ \A b \in Backends, o \in Objects : o # Moving(m) => store'[b][o] = store[b][o]

(* The steps of the model have these effects. *)
LEMMA RegisterEffect ==
  ASSUME IInv, EmptyHanded, NEW p \in Workers, RegisterStep(p)
  PROVE  /\ EmptyHanded'
         /\ \/ Quiet /\ UNCHANGED places
            \/ \E o \in Objects, c \in Contents : Uploads(p, o, c)
            \/ Drops(p)
            \/ Records(p)
<1>1. ASSUME NEW o \in Objects, NEW c \in Contents, RegisterStore(p, o, c)
      PROVE  EmptyHanded' /\ Uploads(p, o, c)
  BY <1>1 DEF IInv, TypeOK, EmptyHanded, RegisterStore, Request, Uploads, tables
<1>2. ASSUME RegisterRefused(p) \/ RecordFileFails(p)
      PROVE  EmptyHanded' /\ Drops(p)
  <2>1. req[p].obj \in Objects
    BY <1>2 DEF IInv, ReqOK, ReqAt, RegisterRefused, RecordFileFails
  <2>2. /\ req' = [req EXCEPT ![p] = Idle] /\ Idle.obj = None /\ req \in [Workers -> Req]
        /\ Discard(p) /\ UNCHANGED <<issued, files, places, doubtful, damaged>>
    BY <1>2 DEF IInv, TypeOK, RegisterRefused, RecordFileFails, Done, Idle, Request, tables
  <2> QED  BY <2>1, <2>2 DEF EmptyHanded, Drops
<1>3. ASSUME NEW i \in Items, RegisterEvidence(p, i)
      PROVE  EmptyHanded' /\ Quiet /\ UNCHANGED places
  <2>1. PICK r : r = [req[p] EXCEPT !.pc = "registered", !.item = i]
    OBVIOUS
  <2>2. r.pc = "registered" /\ r.obj = req[p].obj /\ r.sha = req[p].sha
    BY <2>1 DEF IInv, TypeOK, Req
  <2>3. req' = [req EXCEPT ![p] = r] /\ req \in [Workers -> Req]
    BY <1>3, <2>1 DEF IInv, TypeOK, RegisterEvidence
  <2> QED  BY <1>3, <2>2, <2>3 DEF EmptyHanded, RegisterEvidence, Quiet
<1>4. ASSUME RegisterAborts(p)
      PROVE  EmptyHanded' /\ Drops(p)
  <2>1. req[p].obj \in Objects
    BY <1>4 DEF IInv, ReqOK, ReqAt, RegisterAborts
  <2> QED  BY <1>4, <2>1 DEF IInv, TypeOK, EmptyHanded, RegisterAborts,
                             Done, Idle, Request, Drops, Discard, tables
<1>5. ASSUME RecordFile(p)
      PROVE  EmptyHanded' /\ Records(p)
  <2>1. req[p].obj \in Objects /\ req[p].sha \in Contents /\ req[p].item \in Items
    BY <1>5 DEF IInv, TypeOK, ReqOK, ReqAt, RecordFile
  <2> QED  BY <1>5, <2>1 DEF IInv, TypeOK, EmptyHanded, RecordFile, Done, Idle, Request, Records
<1> QED  BY <1>1, <1>2, <1>3, <1>4, <1>5 DEF RegisterStep

LEMMA AttachEffect ==
  ASSUME IInv, EmptyHanded, NEW p \in Workers, AttachStep(p)
  PROVE  /\ EmptyHanded'
         /\ \/ Quiet /\ UNCHANGED places
            \/ \E o \in Objects, c \in Contents : Uploads(p, o, c)
            \/ Drops(p)
            \/ Records(p)
<1>1. ASSUME NEW i \in Items, NEW o \in Objects, NEW c \in Contents, AttachStore(p, i, o, c)
      PROVE  EmptyHanded' /\ Uploads(p, o, c)
  BY <1>1 DEF IInv, TypeOK, EmptyHanded, AttachStore, Request, Uploads, tables
<1>2. ASSUME AttachLock(p)
      PROVE  EmptyHanded' /\ Quiet /\ UNCHANGED places
  <2>1. PICK r : r = [req[p] EXCEPT !.pc = "locked", !.cur = CurrentHash(req[p].item)]
    OBVIOUS
  <2>2. r.pc = "locked" /\ r.op = "attach" /\ r.obj = req[p].obj /\ r.sha = req[p].sha
    BY <1>2, <2>1 DEF IInv, TypeOK, Req, AttachLock
  <2>3. req' = [req EXCEPT ![p] = r] /\ req \in [Workers -> Req]
    BY <1>2, <2>1 DEF IInv, TypeOK, AttachLock
  <2> QED  BY <1>2, <2>2, <2>3 DEF EmptyHanded, AttachLock, Quiet, tables
<1>3. ASSUME AttachCommit(p) \/ AttachReplyLost(p)
      PROVE  EmptyHanded' /\ Records(p)
  <2>1. AttachRows(p)
    BY <1>3 DEF AttachCommit, AttachReplyLost
  <2>2. /\ req[p].obj \in Objects /\ req[p].sha \in Data /\ req[p].item \in Items
        /\ req[p].sha \in Contents
    BY <2>1 DEF IInv, TypeOK, ReqOK, ReqAt, AttachRows
  <2> QED  BY <1>3, <2>1, <2>2 DEF IInv, TypeOK, EmptyHanded, AttachCommit, AttachReplyLost,
                                   AttachRows, Done, Idle, Request, Records
<1>4. ASSUME AttachRefused(p)
      PROVE  EmptyHanded' /\ Drops(p)
  <2>1. req[p].obj \in Objects
    BY <1>4 DEF IInv, ReqOK, ReqAt, AttachRefused
  <2> QED  BY <1>4, <2>1 DEF IInv, TypeOK, EmptyHanded, AttachRefused,
                             Done, Idle, Request, Drops, tables
<1> QED  BY <1>1, <1>2, <1>3, <1>4 DEF AttachStep

LEMMA HashEffect ==
  ASSUME IInv, EmptyHanded, NEW p \in Workers, HashStep(p)
  PROVE  EmptyHanded' /\ Quiet /\ UNCHANGED places
<1>1. ASSUME NEW r, r.obj = None, req[p].obj = None, req' = [req EXCEPT ![p] = r],
             UNCHANGED <<store, issued, files, places, stranded, doubtful, damaged>>
      PROVE  EmptyHanded' /\ Quiet /\ UNCHANGED places
  BY <1>1 DEF IInv, TypeOK, EmptyHanded, Quiet
<1>2. Idle.obj = None
  BY DEF Idle, Request
<1>3. ASSUME NEW i \in Items, HashStored(p, i)
      PROVE  EmptyHanded' /\ Quiet /\ UNCHANGED places
  <2>1. PICK r : r = Request("hashed", "verify", i, None, store[Backend(i)][files[i].obj], 0)
    OBVIOUS
  <2>2. r.obj = None /\ req[p].obj = None
    BY <1>3, <2>1 DEF EmptyHanded, Request, HashStored
  <2> QED  BY <1>1, <1>3, <2>1, <2>2 DEF HashStored, tables
<1>4. CASE VerifyLock(p)
  <2>1. PICK r : r = [req[p] EXCEPT !.pc = "locked", !.cur = CurrentHash(req[p].item)]
    OBVIOUS
  <2>2. r.obj = None /\ req[p].obj = None
    BY <1>4, <2>1 DEF IInv, TypeOK, Req, EmptyHanded, VerifyLock
  <2> QED  BY <1>1, <1>4, <2>1, <2>2 DEF VerifyLock, tables
<1>5. ASSUME NEW op \in {"record", "verify", "correct"}, NEW i \in Items, NEW c \in Contents,
             HashLock(p, op, i, c)
      PROVE  EmptyHanded' /\ Quiet /\ UNCHANGED places
  <2>1. PICK r : r = Request("locked", op, i, None, c, CurrentHash(i))
    OBVIOUS
  <2>2. r.obj = None /\ req[p].obj = None
    BY <1>5, <2>1 DEF EmptyHanded, Request, HashLock
  <2> QED  BY <1>1, <1>5, <2>1, <2>2 DEF HashLock, tables
<1>6. CASE RecordOriginal(p) \/ CorrectHash(p) \/ Verify(p) \/ HashRefused(p)
  <2>1. req[p].obj = None
    BY <1>6 DEF EmptyHanded, RecordOriginal, CorrectHash, Verify, HashRefused
  <2> QED  BY <1>1, <1>2, <1>6, <2>1 DEF RecordOriginal, CorrectHash, Verify, HashRefused, Done, tables
<1> QED  BY <1>3, <1>4, <1>5, <1>6 DEF HashStep

LEMMA CrashEffect ==
  ASSUME IInv, EmptyHanded, NEW p \in Workers, Crash(p)
  PROVE  EmptyHanded' /\ (Drops(p) \/ Quiet) /\ UNCHANGED places
<1>1. /\ req' = [req EXCEPT ![p] = Idle] /\ Idle.obj = None /\ req \in [Workers -> Req]
      /\ req[p].obj \in Objects \cup {None}
  BY DEF Crash, Done, Idle, Request, IInv, TypeOK, Req
<1>2. EmptyHanded'
  BY <1>1 DEF EmptyHanded
<1>3. CASE req[p].obj = None
  BY <1>1, <1>2, <1>3 DEF Quiet, Crash, tables
<1>4. CASE req[p].obj # None
  BY <1>1, <1>2, <1>4 DEF Drops, Discard, Crash, tables
<1> QED  BY <1>3, <1>4

LEMMA MoveEffect ==
  ASSUME IInv, NEW m \in Movers, MoveStep(m)
  PROVE  Moves(m)
<1>1. /\ UNCHANGED <<issued, files, req, stranded, damaged>>
      /\ \/ UNCHANGED store
         \/ /\ move[m].pc # "idle"
            /\ \E b \in Backends, x \in Data \cup {None} :
                 store' = [store EXCEPT ![b][Moving(m)] = x]
  <2>1. CASE Copy(m)
    <3>1. Target(m) \in Backends /\ Moving(m) \in Objects /\ Source(m) \in Backends /\ "local" \in Backends
      BY <2>1 DEF IInv, TypeOK, MoveOK, Move, File, Moving, Target, Source, Other, Backends, Copy
    <3>2. store[Source(m)][Moving(m)] \in Data \cup {None}
      BY <3>1 DEF IInv, TypeOK
    <3> QED  BY <2>1, <3>1, <3>2 DEF Copy, tables
  <2>2. CASE CopyKilled(m) \/ CheckTarget(m) \/ RecordMoveFails(m) \/ RecordMoveReplyLost(m)
    <3>1. Target(m) \in Backends /\ "local" \in Backends /\ Damaged \in Data
      BY DEF IInv, TypeOK, Target, Other, Backends, Data
    <3> QED  BY <2>2, <3>1 DEF CopyKilled, CheckTarget, RecordMoveFails, RecordMoveReplyLost, tables
  <2>3. CASE ~(Copy(m) \/ CopyKilled(m) \/ CheckTarget(m) \/ RecordMoveFails(m) \/ RecordMoveReplyLost(m))
    BY <2>3 DEF MoveStep, List, CheckSource, Probe, RecordMove, MoveStops, tables
  <2> QED  BY <2>1, <2>2, <2>3
<1>2. store \in [Backends -> [Objects -> Data \cup {None}]]
  BY DEF IInv, TypeOK
<1>3. ASSUME NEW b \in Backends, NEW x \in Data \cup {None},
             store' = [store EXCEPT ![b][Moving(m)] = x],
             NEW d \in Backends, NEW o \in Objects, o # Moving(m)
      PROVE  store'[d][o] = store[d][o]
  BY <1>2, <1>3
<1> QED  BY <1>1, <1>3 DEF Moves

(* What each effect keeps. *)

OwnInv == OneOwner /\ AtHome /\ UnrecordedAreRemoved

LEMMA Elsewhere == Other(Home) \in Backends /\ Home \in Backends /\ Other(Home) # Home
BY FilesAssumption DEF Other, Backends

LEMMA QuietKeeps ==
  ASSUME OwnInv, Quiet PROVE OwnInv'
<1>1. OneOwner'
  BY DEF OwnInv, OneOwner, OnRecord, Quiet
<1>2. AtHome' /\ UnrecordedAreRemoved'
  BY DEF OwnInv, AtHome, OnRecord, UnrecordedAreRemoved, Quiet
<1> QED  BY <1>1, <1>2 DEF OwnInv

LEMMA UploadKeeps ==
  ASSUME IInv, OwnInv, NEW p \in Workers, NEW o \in Objects, NEW c \in Contents, Uploads(p, o, c)
  PROVE  OwnInv'
<1>1. /\ o \notin issued /\ issued' = issued \cup {o} /\ files' = files
      /\ store' = [store EXCEPT ![Home][o] = c] /\ stranded' = stranded
      /\ req[p].obj = None /\ req'[p].obj = o /\ \A q \in Workers : q # p => req'[q] = req[q]
  BY DEF Uploads, Put
<1>2. ~ OnRecord(o) /\ \A q \in Workers : req[q].obj # o
  BY <1>1, FilesAssumption DEF OwnInv, OneOwner, OnRecord
<1>3. OneOwner'
  BY <1>1, <1>2 DEF OwnInv, OneOwner, OnRecord
<1>4. \A b \in Backends, x \in Objects :
        store'[b][x] = IF b = Home /\ x = o THEN c ELSE store[b][x]
  BY <1>1, Elsewhere DEF IInv, TypeOK
<1>5. AtHome'
  BY <1>1, <1>4, Elsewhere DEF OwnInv, AtHome, OnRecord
<1>6. UnrecordedAreRemoved'
  <2> SUFFICES ASSUME NEW b \in Backends, NEW x \in Objects, store'[b][x] # None
               PROVE  \/ \E i \in Items : files'[i] # None /\ files'[i].obj = x
                      \/ \E q \in Workers : req'[q].obj = x
                      \/ x \in stranded'
    BY DEF UnrecordedAreRemoved
  <2>1. CASE x = o
    BY <1>1, <2>1
  <2>2. CASE x # o
    <3>1. store[b][x] # None
      BY <1>4, <2>2
    <3>2. CASE \E q \in Workers : req[q].obj = x
      <4>1. PICK q \in Workers : req[q].obj = x
        BY <3>2
      <4>2. q # p
        BY <1>1, <4>1, FilesAssumption
      <4> QED  BY <1>1, <4>1, <4>2
    <3> QED  BY <1>1, <3>1, <3>2 DEF OwnInv, UnrecordedAreRemoved
  <2> QED  BY <2>1, <2>2
<1> QED  BY <1>3, <1>5, <1>6 DEF OwnInv

(* An object left behind by put is new, and noted as stranded. *)
LEMMA LeftEffect ==
  ASSUME IInv, OwnInv, NEW p \in Workers, NEW o \in Objects, NEW d \in Data, StoreFails(p, o, d)
  PROVE  /\ ~ OnRecord(o) /\ \A q \in Workers : req[q].obj # o
         /\ \A b \in Backends, x \in Objects :
              store'[b][x] = IF b = Home /\ x = o THEN d ELSE store[b][x]
<1>1. o \notin issued /\ store' = [store EXCEPT ![Home][o] = d]
  BY DEF StoreFails, Put
<1>2. ~ OnRecord(o) /\ \A q \in Workers : req[q].obj # o
  BY <1>1, FilesAssumption DEF OwnInv, OneOwner, OnRecord
<1>3. \A b \in Backends, x \in Objects :
        store'[b][x] = IF b = Home /\ x = o THEN d ELSE store[b][x]
  BY <1>1, Elsewhere DEF IInv, TypeOK
<1> QED  BY <1>2, <1>3

LEMMA LeftKeeps ==
  ASSUME IInv, OwnInv, NEW p \in Workers, NEW o \in Objects, NEW d \in Data, StoreFails(p, o, d)
  PROVE  OwnInv'
<1>1. /\ issued' = issued \cup {o} /\ stranded' = stranded \cup {o}
      /\ UNCHANGED <<files, req>>
  BY DEF StoreFails, Put, tables
<1>2. \A b \in Backends, x \in Objects :
        store'[b][x] = IF b = Home /\ x = o THEN d ELSE store[b][x]
  BY LeftEffect
<1>3. OneOwner'
  BY <1>1 DEF OwnInv, OneOwner, OnRecord
<1>4. AtHome'
  BY <1>1, <1>2, Elsewhere DEF OwnInv, AtHome, OnRecord
<1>5. UnrecordedAreRemoved'
  BY <1>1, <1>2 DEF OwnInv, UnrecordedAreRemoved
<1> QED  BY <1>3, <1>4, <1>5 DEF OwnInv

LEMMA DropKeeps ==
  ASSUME IInv, OwnInv, NEW p \in Workers, Drops(p)
  PROVE  OwnInv'
<1>1. /\ req[p].obj \in Objects /\ req'[p].obj = None /\ \A q \in Workers : q # p => req'[q] = req[q]
      /\ issued' = issued /\ files' = files
  BY DEF Drops
<1>2. OneOwner'
  BY <1>1 DEF OwnInv, OneOwner, OnRecord
<1>3. /\ stranded \subseteq stranded'
      /\ \A b \in Backends, x \in Objects : store'[b][x] = store[b][x] \/ store'[b][x] = None
      /\ req[p].obj \in stranded' \/ store'[Home][req[p].obj] = None
  <2>1. store \in [Backends -> [Objects -> Data \cup {None}]]
    BY DEF IInv, TypeOK
  <2>2. CASE store' = [store EXCEPT ![Home][req[p].obj] = None] /\ stranded' = stranded
    <3>1. store'[Home][req[p].obj] = None
      BY <1>1, <2>1, <2>2, Elsewhere
    <3>2. \A b \in Backends, x \in Objects : store'[b][x] = store[b][x] \/ store'[b][x] = None
      BY <1>1, <2>1, <2>2, Elsewhere
    <3> QED  BY <2>2, <3>1, <3>2
  <2>3. CASE stranded' = stranded \cup {req[p].obj} /\ store' = store
    BY <2>3
  <2> QED  BY <2>2, <2>3 DEF Drops, Discard
<1>4. AtHome'
  BY <1>1, <1>3, Elsewhere DEF OwnInv, AtHome, OnRecord
<1>5. UnrecordedAreRemoved'
  <2> SUFFICES ASSUME NEW b \in Backends, NEW x \in Objects, store'[b][x] # None,
                      ~ OnRecord(x), x \notin stranded'
               PROVE  \E q \in Workers : req'[q].obj = x
    BY <1>1 DEF UnrecordedAreRemoved, OnRecord
  <2>1. b = Home
    BY <1>3, Elsewhere DEF OwnInv, AtHome, Other, Backends
  <2>2. x # req[p].obj
    BY <1>3, <2>1
  <2>3. \E q \in Workers : req[q].obj = x
    BY <1>3 DEF OwnInv, UnrecordedAreRemoved, OnRecord
  <2> QED  BY <1>1, <2>2, <2>3
<1> QED  BY <1>2, <1>4, <1>5 DEF OwnInv

LEMMA RecordKeeps ==
  ASSUME IInv, OwnInv, NEW p \in Workers, Records(p)
  PROVE  /\ OwnInv'
         /\ \A i \in Items : i # req[p].item => files'[i] = files[i]
         /\ files'[req[p].item] # None
         /\ files'[req[p].item].obj = req[p].obj
         /\ files'[req[p].item].sha = req[p].sha
<1>1. /\ req[p].obj \in Objects /\ req'[p].obj = None /\ \A q \in Workers : q # p => req'[q] = req[q]
      /\ issued' = issued /\ stranded' = stranded /\ files[req[p].item] = None
      /\ req[p].item \in Items
  BY DEF Records
<1>2. PICK f : f = [obj |-> req[p].obj, sha |-> req[p].sha]
  OBVIOUS
<1>3. f \in File /\ f # None /\ f.obj = req[p].obj /\ f.sha = req[p].sha
  BY <1>2, FilesAssumption DEF Records, File
<1>4. files' = [files EXCEPT ![req[p].item] = f] /\ files \in [Items -> File \cup {None}]
  BY <1>2 DEF Records, InsertFileRow, IInv, TypeOK
<1>5. /\ \A i \in Items : i # req[p].item => files'[i] = files[i]
      /\ files'[req[p].item] = f
  BY <1>1, <1>4
<1>6. OneOwner'
  <2>1. req[p].obj \in issued /\ ~ OnRecord(req[p].obj)
    BY <1>1, FilesAssumption DEF OwnInv, OneOwner
  <2>2. ASSUME NEW q \in Workers, req'[q].obj # None
        PROVE  /\ req'[q].obj \in issued
               /\ \A i \in Items : files'[i] # None => files'[i].obj # req'[q].obj
    <3>1. q # p /\ req'[q] = req[q]
      BY <1>1, <2>2
    <3>2. req[q].obj # req[p].obj /\ req[q].obj \in issued /\ ~ OnRecord(req[q].obj)
      BY <2>2, <3>1 DEF OwnInv, OneOwner
    <3>3. \A i \in Items : i # req[p].item /\ files'[i] # None => files'[i].obj # req[q].obj
      BY <1>5, <3>2 DEF OnRecord
    <3> QED  BY <1>3, <1>5, <3>1, <3>2, <3>3
  <2>4. \A q, w \in Workers : (q # w /\ req'[q].obj # None) => req'[q].obj # req'[w].obj
    BY <1>1 DEF OwnInv, OneOwner
  <2>5. \A i \in Items : files'[i] # None => files'[i].obj \in issued
    BY <1>3, <1>5, <2>1 DEF OwnInv, OneOwner
  <2>6. \A i, j \in Items : (i # j /\ files'[i] # None /\ files'[j] # None)
           => files'[i].obj # files'[j].obj
    BY <1>3, <1>5, <2>1 DEF OwnInv, OneOwner, OnRecord
  <2> QED  BY <1>1, <2>2, <2>4, <2>5, <2>6 DEF OneOwner, OnRecord
<1>8. \A b \in Backends, x \in Objects : store'[b][x] = store[b][x] \/ store'[b][x] = None
  <2>1. store \in [Backends -> [Objects -> Data \cup {None}]]
    BY DEF IInv, TypeOK
  <2>2. CASE store' = [store EXCEPT ![Home][req[p].obj] = None]
    BY <1>1, <2>1, <2>2, Elsewhere
  <2> QED  BY <2>2 DEF Records
<1>9. AtHome'
  <2> SUFFICES ASSUME NEW x \in Objects, store'[Other(Home)][x] # None PROVE OnRecord(x)'
    BY DEF AtHome, OnRecord
  <2>1. store[Other(Home)][x] # None
    BY <1>8, Elsewhere
  <2> QED  BY <1>1, <1>3, <1>5, <2>1 DEF OwnInv, AtHome, OnRecord
<1>10. UnrecordedAreRemoved'
  <2> SUFFICES ASSUME NEW b \in Backends, NEW x \in Objects, store'[b][x] # None, x # req[p].obj
               PROVE  \/ \E i \in Items : files'[i] # None /\ files'[i].obj = x
                      \/ \E q \in Workers : req'[q].obj = x
                      \/ x \in stranded'
    BY <1>1, <1>3, <1>5 DEF UnrecordedAreRemoved
  <2>1. store[b][x] # None
    BY <1>8
  <2>2. CASE \E i \in Items : files[i] # None /\ files[i].obj = x
    BY <1>1, <1>5, <2>2
  <2>3. CASE ~ \E i \in Items : files[i] # None /\ files[i].obj = x
    BY <1>1, <2>1, <2>3 DEF OwnInv, UnrecordedAreRemoved
  <2> QED  BY <2>2, <2>3
<1> QED  BY <1>3, <1>5, <1>6, <1>9, <1>10 DEF OwnInv

LEMMA MovesKeep ==
  ASSUME IInv, OwnInv, NEW m \in Movers, Moves(m)
  PROVE  OwnInv'
<1>1. UNCHANGED <<issued, files, req, stranded>>
  BY DEF Moves
<1>2. \A b \in Backends, x \in Objects : store'[b][x] = store[b][x] \/ OnRecord(x)
  BY DEF IInv, MoveOK, Moves, Moving, OnRecord
<1>3. OneOwner'
  BY <1>1 DEF OwnInv, OneOwner, OnRecord
<1>4. AtHome' /\ UnrecordedAreRemoved'
  <2>1. AtHome'
    BY <1>1, <1>2, Elsewhere DEF OwnInv, AtHome, OnRecord
  <2>2. UnrecordedAreRemoved'
    BY <1>1, <1>2 DEF OwnInv, UnrecordedAreRemoved, OnRecord
  <2> QED  BY <2>1, <2>2
<1> QED  BY <1>3, <1>4 DEF OwnInv

(* A step, seen from the objects. *)
LEMMA Effects ==
  ASSUME IInv, EmptyHanded, Next
  PROVE  /\ EmptyHanded'
         /\ \/ Quiet /\ UNCHANGED <<places, move>>
            \/ /\ UNCHANGED move
               /\ \E p \in Workers :
                    \/ \E o \in Objects, c \in Contents : Uploads(p, o, c)
                    \/ Drops(p)
                    \/ Records(p)
            \/ \E m \in Movers : MoveStep(m) /\ Moves(m)
            \/ \E b \in Backends, o \in Objects : Damage(b, o)
            \/ \E p \in Workers, o \in Objects, d \in Data : StoreFails(p, o, d)
<1>1. ASSUME NEW p \in Workers, RegisterStep(p) \/ AttachStep(p) \/ HashStep(p) \/ Crash(p)
      PROVE  UNCHANGED move
  BY <1>1 DEF RegisterStep, RegisterStore, RegisterRefused, RegisterEvidence, RegisterAborts,
       RecordFile, RecordFileFails, AttachStep, AttachStore, AttachLock,
       AttachCommit, AttachReplyLost, AttachRows, AttachRefused, HashStep, HashStored,
       VerifyLock, HashLock, RecordOriginal, CorrectHash, Verify, HashRefused, Crash
<1>2. ASSUME NEW p \in Workers, RegisterStep(p) \/ AttachStep(p) \/ HashStep(p) \/ Crash(p)
      PROVE  /\ EmptyHanded'
             /\ \/ Quiet /\ UNCHANGED places
                \/ \E o \in Objects, c \in Contents : Uploads(p, o, c)
                \/ Drops(p)
                \/ Records(p)
  BY <1>2, RegisterEffect, AttachEffect, HashEffect, CrashEffect
<1>3. ASSUME NEW i \in Items, NEW h \in {<<>>} \cup {<<c>> : c \in Contents}, RegisterPlain(i, h)
      PROVE  EmptyHanded' /\ Quiet /\ UNCHANGED <<places, move>>
  BY <1>3 DEF RegisterPlain, EmptyHanded, Quiet
<1>4. ASSUME NEW m \in Movers, MoveStep(m)
      PROVE  EmptyHanded' /\ Moves(m)
  BY <1>4, MoveEffect DEF EmptyHanded, Moves
<1>5. ASSUME NEW b \in Backends, NEW o \in Objects, Damage(b, o)
      PROVE  EmptyHanded'
  BY <1>5 DEF Damage, EmptyHanded
<1>6. ASSUME NEW p \in Workers, NEW o \in Objects, NEW d \in Data, StoreFails(p, o, d)
      PROVE  EmptyHanded'
  BY <1>6 DEF StoreFails, EmptyHanded
<1> QED  BY <1>1, <1>2, <1>3, <1>4, <1>5, <1>6 DEF Next

LEMMA OwnInvStep ==
  ASSUME IInv, EmptyHanded, OwnInv, Next
  PROVE  EmptyHanded' /\ OwnInv'
<1>1. ASSUME NEW b \in Backends, NEW o \in Objects, Damage(b, o)
      PROVE  OwnInv'
  <2>1. /\ UNCHANGED <<issued, files, req, stranded>>
        /\ \A d \in Backends, x \in Objects : store'[d][x] # None => store[d][x] # None
    BY <1>1, FilesAssumption DEF IInv, TypeOK, Damage, Data, tables
  <2>2. OneOwner'
    BY <2>1 DEF OwnInv, OneOwner, OnRecord
  <2>3. AtHome'
    BY <2>1, Elsewhere DEF OwnInv, AtHome, OnRecord
  <2>4. UnrecordedAreRemoved'
    BY <2>1 DEF OwnInv, UnrecordedAreRemoved
  <2> QED  BY <2>2, <2>3, <2>4 DEF OwnInv
<1> QED  BY <1>1, Effects, QuietKeeps, UploadKeeps, LeftKeeps, DropKeeps, RecordKeeps, MovesKeep

LEMMA InitOwns == Init => EmptyHanded /\ OwnInv
<1> SUFFICES ASSUME Init PROVE EmptyHanded /\ OwnInv
  OBVIOUS
<1>1. \A p \in Workers : req[p].obj = None
  BY DEF Init, Idle, Request
<1>2. \A b \in Backends, o \in Objects : store[b][o] = None
  BY DEF Init
<1> QED  BY <1>1, <1>2, Elsewhere
         DEF Init, EmptyHanded, OwnInv, OneOwner, OnRecord, AtHome, UnrecordedAreRemoved

LEMMA OwnsStutter == EmptyHanded /\ OwnInv /\ UNCHANGED vars => EmptyHanded' /\ OwnInv'
BY DEF EmptyHanded, OwnInv, OneOwner, OnRecord, AtHome, UnrecordedAreRemoved, vars, tables

(* An object that no row names belongs to a request that still runs, or     *)
(* nobody was left to remove it: for any items, uploads, requests and       *)
(* migrations.  A request removes what it could not record, and migrations  *)
(* copy only what is on record.                                             *)
THEOREM NothingLeftBehind == Spec => []UnrecordedAreRemoved
<1>1. IInv /\ EmptyHanded /\ OwnInv /\ [Next]_vars => EmptyHanded' /\ OwnInv'
  BY OwnInvStep, OwnsStutter
<1>2. OwnInv => UnrecordedAreRemoved
  BY DEF OwnInv
<1> QED  BY <1>1, <1>2, InitIInv, NextIInv, InitOwns, PTL DEF Spec

---------------------------------------------------------------------------
(* Copies, with one migration at a time. *)

OneMigration == \A m, n \in Movers : m = n

(* A copy damaged from outside, or removed after a lost COMMIT reply. *)
Excused(b, o) == <<b, o>> \in damaged \/ o \in doubtful

(* The upload that a request has yet to record is as it was stored. *)
UploadsHold ==
  \A p \in Workers : req[p].obj # None =>
    store[Home][req[p].obj] = req[p].sha \/ Excused(Home, req[p].obj)

(* What a migration records is there, and it removes or overwrites a copy   *)
(* on record only if something had happened to that copy.                   *)
MoveHolds ==
  \A m \in Movers : move[m].pc # "idle" =>
    /\ move[m].pc \in {"listed", "checked", "copy"} => move[m].copied = FALSE
    /\ move[m].pc = "record" => \/ store[Target(m)][Moving(m)] = Recorded(m)
                                \/ Excused(Target(m), Moving(m))
    /\ ( /\ move[m].pc \in {"copy", "copied"} \/ (move[m].pc = "record" /\ move[m].copied = TRUE)
         /\ Target(m) \in Places(move[m].item) )
       => Excused(Target(m), Moving(m))

CInv == UploadsHold /\ PlacesHoldTheFile /\ MoveHolds

(* The places of a file, one by one. *)
Holds(i, b) == store[b][files[i].obj] = files[i].sha \/ Excused(b, files[i].obj)

LEMMA MoveFacts ==
  ASSUME IInv, NEW m \in Movers
  PROVE  /\ Target(m) \in Backends /\ Source(m) \in Backends
         /\ move[m].copied \in BOOLEAN
         /\ move[m].pc # "idle" =>
              /\ move[m].item \in Items /\ files[move[m].item] # None
              /\ Moving(m) \in Objects /\ Recorded(m) \in Contents
              /\ Moving(m) = files[move[m].item].obj /\ Recorded(m) = files[move[m].item].sha
BY DEF IInv, TypeOK, MoveOK, Move, File, Moving, Recorded, Target, Source, Other, Backends

LEMMA SameMove ==
  ASSUME IInv, NEW m \in Movers, move'[m].item = move[m].item, move'[m].from = move[m].from,
         files'[move[m].item] = files[move[m].item]
  PROVE  /\ Target(m)' = Target(m) /\ Moving(m)' = Moving(m) /\ Recorded(m)' = Recorded(m)
         /\ places'[move[m].item] = places[move[m].item] =>
              Places(move[m].item)' = Places(move[m].item)
BY DEF Target, Moving, Recorded, Places

(* Steps that leave the copies on record, and the migrations, alone. *)
LEMMA CopiesFrame ==
  ASSUME IInv, UNCHANGED move, MoveHolds,
         \A i \in Items : files[i] # None => files'[i] = files[i] /\ places'[i] = places[i],
         \A b \in Backends, o \in Objects :
           OnRecord(o) => store'[b][o] = store[b][o] \/ Excused(b, o)',
         \A b \in Backends, o \in Objects : Excused(b, o) => Excused(b, o)'
  PROVE  /\ MoveHolds'
         /\ \A i \in Items : \A b \in Places(i) :
              (files[i] # None /\ Holds(i, b)) => Holds(i, b)' /\ files'[i] # None
<1>1. MoveHolds'
  <2> SUFFICES ASSUME NEW m \in Movers, move[m].pc # "idle"
      PROVE  /\ move[m].pc \in {"listed", "checked", "copy"} => move[m].copied = FALSE
             /\ move[m].pc = "record" => \/ store'[Target(m)'][Moving(m)'] = Recorded(m)'
                                         \/ Excused(Target(m), Moving(m))'
             /\ ( /\ move[m].pc \in {"copy", "copied"} \/ (move[m].pc = "record" /\ move[m].copied = TRUE)
                  /\ Target(m)' \in Places(move[m].item)' )
                => Excused(Target(m), Moving(m))'
    BY DEF MoveHolds
  <2>1. /\ Moving(m) \in Objects /\ Target(m) \in Backends /\ OnRecord(Moving(m))
        /\ move[m].item \in Items /\ files[move[m].item] # None
    BY MoveFacts DEF OnRecord
  <2>2. /\ Target(m)' = Target(m) /\ Moving(m)' = Moving(m) /\ Recorded(m)' = Recorded(m)
        /\ Places(move[m].item)' = Places(move[m].item)
    BY <2>1, SameMove
  <2>3. Excused(Target(m), Moving(m)) => Excused(Target(m), Moving(m))'
    <3>1. PICK t, o : t = Target(m) /\ o = Moving(m)
      OBVIOUS
    <3>2. Excused(t, o) => Excused(t, o)'
      BY <2>1, <3>1
    <3> QED  BY <2>2, <3>1, <3>2 DEF Excused
  <2>4. \/ store'[Target(m)][Moving(m)] = store[Target(m)][Moving(m)]
        \/ Excused(Target(m), Moving(m))'
    <3>1. PICK t, o : t = Target(m) /\ o = Moving(m)
      OBVIOUS
    <3>2. store'[t][o] = store[t][o] \/ Excused(t, o)'
      BY <2>1, <3>1
    <3> QED  BY <2>2, <3>1, <3>2 DEF Excused
  <2> QED  BY <2>2, <2>3, <2>4 DEF MoveHolds
<1>2. ASSUME NEW i \in Items, NEW b \in Places(i), files[i] # None, Holds(i, b)
      PROVE  Holds(i, b)' /\ files'[i] # None
  <2>1. b \in Backends /\ files[i].obj \in Objects /\ OnRecord(files[i].obj) /\ files'[i] = files[i]
    BY <1>2 DEF IInv, TypeOK, Places, File, OnRecord
  <2>2. PICK o : o = files[i].obj
    OBVIOUS
  <2>3. store'[b][o] = store[b][o] \/ Excused(b, o)'
    BY <2>1, <2>2
  <2>4. Excused(b, o) => Excused(b, o)'
    BY <2>1, <2>2
  <2> QED  BY <1>2, <2>1, <2>2, <2>3, <2>4 DEF Holds, Excused
<1> QED  BY <1>1, <1>2

(* Requests, and damage. *)
LEMMA RequestCopies ==
  ASSUME IInv, OwnInv, CInv, UNCHANGED move, NEW p \in Workers,
         \/ \E o \in Objects, c \in Contents : Uploads(p, o, c)
         \/ Drops(p)
  PROVE  CInv'
<1>1. PICK x \in Objects :
        /\ \A b \in Backends, o \in Objects : o # x => store'[b][o] = store[b][o]
        /\ ~ OnRecord(x)
        /\ \A q \in Workers : q # p => req[q].obj # x /\ req'[q] = req[q]
        /\ req'[p].obj # None => /\ req'[p].obj = x /\ store'[Home][x] = req'[p].sha
        /\ UNCHANGED <<files, places, doubtful, damaged>>
  <2>1. store \in [Backends -> [Objects -> Data \cup {None}]]
    BY DEF IInv, TypeOK
  <2>2. ASSUME NEW o \in Objects, NEW c \in Contents, Uploads(p, o, c)
        PROVE  /\ \A b \in Backends, x \in Objects : x # o => store'[b][x] = store[b][x]
               /\ ~ OnRecord(o)
               /\ \A q \in Workers : q # p => req[q].obj # o /\ req'[q] = req[q]
               /\ req'[p].obj = o /\ store'[Home][o] = req'[p].sha
               /\ UNCHANGED <<files, places, doubtful, damaged>>
    <3>1. /\ o \notin issued /\ store' = [store EXCEPT ![Home][o] = c]
      BY <2>2 DEF Uploads, Put
    <3>2. store'[Home][o] = c /\ \A b \in Backends, y \in Objects : y # o => store'[b][y] = store[b][y]
      BY <2>1, <3>1, Elsewhere
    <3>3. ~ OnRecord(o) /\ \A q \in Workers : req[q].obj # o
      BY <3>1, FilesAssumption DEF OwnInv, OneOwner, OnRecord
    <3> QED  BY <2>2, <3>2, <3>3 DEF Uploads
  <2>3. ASSUME Drops(p)
        PROVE  /\ \A b \in Backends, x \in Objects : x # req[p].obj => store'[b][x] = store[b][x]
               /\ ~ OnRecord(req[p].obj) /\ req[p].obj \in Objects
               /\ \A q \in Workers : q # p => req[q].obj # req[p].obj /\ req'[q] = req[q]
               /\ req'[p].obj = None
               /\ UNCHANGED <<files, places, doubtful, damaged>>
    <3>1. req[p].obj \in Objects /\ req[p].obj # None
      BY <2>3, FilesAssumption DEF Drops
    <3>2. \A b \in Backends, y \in Objects : y # req[p].obj => store'[b][y] = store[b][y]
      BY <2>1, <2>3, <3>1, Elsewhere DEF Drops, Discard
    <3>3. ~ OnRecord(req[p].obj) /\ \A q \in Workers : q # p => req[q].obj # req[p].obj
      BY <3>1 DEF OwnInv, OneOwner
    <3> QED  BY <2>3, <3>1, <3>2, <3>3 DEF Drops
  <2> QED  BY <2>2, <2>3
<1>2. \A b \in Backends, o \in Objects : OnRecord(o) => store'[b][o] = store[b][o]
  BY <1>1
<1>3. MoveHolds' /\ PlacesHoldTheFile'
  <2>1. MoveHolds' /\ \A i \in Items : \A b \in Places(i) :
                        (files[i] # None /\ Holds(i, b)) => Holds(i, b)' /\ files'[i] # None
    BY <1>1, <1>2, CopiesFrame DEF CInv, Excused
  <2> QED  BY <1>1, <2>1 DEF CInv, PlacesHoldTheFile, Holds, Excused, Places
<1>4. UploadsHold'
  <2> SUFFICES ASSUME NEW q \in Workers, req'[q].obj # None
               PROVE  store'[Home][req'[q].obj] = req'[q].sha \/ Excused(Home, req'[q].obj)
    BY <1>1 DEF UploadsHold, Excused
  <2>1. CASE q = p
    BY <1>1, <2>1
  <2>2. CASE q # p
    <3>1. req'[q] = req[q] /\ req[q].obj # None /\ req[q].obj # x
      BY <1>1, <2>2
    <3>2. req[q].obj \in Objects
      BY <3>1 DEF IInv, TypeOK, Req
    <3>3. store'[Home][req[q].obj] = store[Home][req[q].obj]
      BY <1>1, <2>2, <3>2, Elsewhere
    <3> QED  BY <3>1, <3>3 DEF CInv, UploadsHold
  <2> QED  BY <2>1, <2>2
<1> QED  BY <1>3, <1>4 DEF CInv

LEMMA RecordCopies ==
  ASSUME IInv, OwnInv, CInv, UNCHANGED move, NEW p \in Workers, Records(p)
  PROVE  CInv'
<1>0. PICK x, j : x = req[p].obj /\ j = req[p].item
  OBVIOUS
<1>1. /\ x \in Objects /\ x # None /\ req'[p].obj = None /\ ~ OnRecord(x)
      /\ \A q \in Workers : q # p => req[q].obj # x /\ req'[q] = req[q]
      /\ j \in Items /\ files[j] = None
      /\ places' = [places EXCEPT ![j] = <<Home>>] /\ damaged' = damaged
  BY <1>0, FilesAssumption DEF Records, InsertFileRow, OwnInv, OneOwner
<1>2. /\ \A b \in Backends, o \in Objects : o # x => store'[b][o] = store[b][o]
      /\ \A o : o \in doubtful => o \in doubtful'
      /\ store'[Home][x] = store[Home][x] \/ x \in doubtful'
  <2>1. store \in [Backends -> [Objects -> Data \cup {None}]]
    BY DEF IInv, TypeOK
  <2> QED  BY <1>0, <1>1, <2>1, Elsewhere DEF Records
<1>3. /\ \A i \in Items : i # j => files'[i] = files[i]
      /\ files'[j].obj = x /\ files'[j].sha = req[p].sha
  BY <1>0, RecordKeeps
<1>4. /\ \A i \in Items : i # j => places'[i] = places[i]
      /\ Places(j)' = {Home}
  <2>1. places \in [Items -> Seq(Backends)]
    BY DEF IInv, TypeOK
  <2>2. places'[j] = <<Home>>
    BY <1>1, <2>1
  <2>3. \A s : s = <<Home>> => {s[k] : k \in 1 .. Len(s)} = {Home}
    OBVIOUS
  <2>4. Places(j)' = {Home}
    BY <2>2, <2>3 DEF Places
  <2> QED  BY <1>1, <2>1, <2>4
<1>5. MoveHolds' /\ \A i \in Items : \A b \in Places(i) :
                      (files[i] # None /\ Holds(i, b)) => Holds(i, b)' /\ files'[i] # None
  <2>1. \A i \in Items : files[i] # None => files'[i] = files[i] /\ places'[i] = places[i]
    BY <1>1, <1>3, <1>4
  <2>2. \A b \in Backends, o \in Objects :
           OnRecord(o) => store'[b][o] = store[b][o] \/ Excused(b, o)'
    BY <1>1, <1>2
  <2>3. \A b \in Backends, o \in Objects : Excused(b, o) => Excused(b, o)'
    BY <1>1, <1>2 DEF Excused
  <2> QED  BY <2>1, <2>2, <2>3, CopiesFrame DEF CInv
<1>6. PlacesHoldTheFile'
  <2> SUFFICES ASSUME NEW i \in Items, files'[i] # None, NEW b \in Places(i)'
               PROVE  Holds(i, b)'
    BY DEF PlacesHoldTheFile, Holds, Excused
  <2>1. CASE i = j
    <3>1. b = Home
      BY <1>4, <2>1
    <3>2. store[Home][x] = req[p].sha \/ Excused(Home, x)
      BY <1>0, <1>1 DEF CInv, UploadsHold
    <3> QED  BY <1>1, <1>2, <1>3, <2>1, <3>1, <3>2 DEF Holds, Excused
  <2>2. CASE i # j
    <3>1. files[i] # None /\ b \in Places(i)
      BY <1>3, <1>4, <2>2 DEF Places
    <3>2. Holds(i, b)
      BY <3>1 DEF CInv, PlacesHoldTheFile, Holds, Excused
    <3> QED  BY <1>5, <3>1, <3>2
  <2> QED  BY <2>1, <2>2
<1>7. UploadsHold'
  <2> SUFFICES ASSUME NEW q \in Workers, req'[q].obj # None
               PROVE  \/ store'[Home][req'[q].obj] = req'[q].sha
                        \/ <<Home, req'[q].obj>> \in damaged'
                        \/ req'[q].obj \in doubtful'
    BY DEF UploadsHold, Excused
  <2>1. q # p /\ req'[q] = req[q] /\ req[q].obj # x
    BY <1>1
  <2>2. req[q].obj \in Objects
    BY <2>1 DEF IInv, TypeOK, Req
  <2>3. store'[Home][req[q].obj] = store[Home][req[q].obj]
    BY <1>2, <2>1, <2>2, Elsewhere
  <2> QED  BY <1>1, <1>2, <2>1, <2>3 DEF CInv, UploadsHold, Excused
<1> QED  BY <1>5, <1>6, <1>7 DEF CInv

LEMMA DamageCopies ==
  ASSUME IInv, OwnInv, CInv, NEW d \in Backends, NEW x \in Objects, Damage(d, x)
  PROVE  CInv'
<1>1. /\ UNCHANGED <<files, places, req, move, doubtful>>
      /\ damaged' = damaged \cup {<<d, x>>}
      /\ \A b \in Backends, o \in Objects : store'[b][o] = store[b][o] \/ <<b, o>> \in damaged'
  BY DEF Damage, tables, IInv, TypeOK
<1>2. \A b \in Backends, o \in Objects :
        /\ store'[b][o] = store[b][o] \/ Excused(b, o)'
        /\ Excused(b, o) => Excused(b, o)'
  BY <1>1 DEF Excused
<1>3. MoveHolds' /\ \A i \in Items : \A b \in Places(i) :
                      (files[i] # None /\ Holds(i, b)) => Holds(i, b)' /\ files'[i] # None
  BY <1>1, <1>2, CopiesFrame DEF CInv
<1>4. PlacesHoldTheFile'
  BY <1>1, <1>3 DEF CInv, PlacesHoldTheFile, Holds, Excused, Places
<1>5. UploadsHold'
  <2> SUFFICES ASSUME NEW q \in Workers, req[q].obj # None
               PROVE  store'[Home][req[q].obj] = req[q].sha \/ Excused(Home, req[q].obj)'
    BY <1>1 DEF UploadsHold, Excused
  <2>1. req[q].obj \in Objects
    BY DEF IInv, TypeOK, Req
  <2> QED  BY <1>1, <2>1, Elsewhere DEF CInv, UploadsHold, Excused
<1> QED  BY <1>3, <1>4, <1>5 DEF CInv

LEMMA LeftCopies ==
  ASSUME IInv, OwnInv, CInv, NEW p \in Workers, NEW x \in Objects, NEW d \in Data,
         StoreFails(p, x, d)
  PROVE  CInv'
<1>1. UNCHANGED <<files, places, req, move, doubtful, damaged>>
  BY DEF StoreFails, tables
<1>2. \A b \in Backends, o \in Objects :
        OnRecord(o) \/ (\E q \in Workers : req[q].obj = o) => store'[b][o] = store[b][o]
  BY LeftEffect
<1>3. MoveHolds' /\ \A i \in Items : \A b \in Places(i) :
                      (files[i] # None /\ Holds(i, b)) => Holds(i, b)' /\ files'[i] # None
  BY <1>1, <1>2, CopiesFrame DEF CInv, Excused
<1>4. PlacesHoldTheFile'
  BY <1>1, <1>3 DEF CInv, PlacesHoldTheFile, Holds, Excused, Places
<1>5. UploadsHold'
  <2> SUFFICES ASSUME NEW q \in Workers, req[q].obj # None
               PROVE  store'[Home][req[q].obj] = req[q].sha \/ Excused(Home, req[q].obj)
    BY <1>1 DEF UploadsHold, Excused
  <2>1. req[q].obj \in Objects
    BY DEF IInv, TypeOK, Req
  <2> QED  BY <1>2, <2>1, Elsewhere DEF CInv, UploadsHold
<1> QED  BY <1>3, <1>4, <1>5 DEF CInv

(* What is asked of a migration's step: after it, the places of its file    *)
(* hold that file.  It touches no other file and no upload.                 *)
LEMMA MoverKeeps ==
  ASSUME IInv, OwnInv, CInv, NEW m \in Movers, Moves(m), move[m].pc # "idle",
         \A j \in Items : j # move[m].item => places'[j] = places[j],
         doubtful \subseteq doubtful',
         \A k \in 1 .. Len(places'[move[m].item]) :
           \/ store'[places'[move[m].item][k]][Moving(m)] = Recorded(m)
           \/ <<places'[move[m].item][k], Moving(m)>> \in damaged'
           \/ Moving(m) \in doubtful'
  PROVE  UploadsHold' /\ PlacesHoldTheFile'
<1>1. PICK i, o : i = move[m].item /\ o = Moving(m)
  OBVIOUS
<1>2. /\ i \in Items /\ files[i] # None /\ o \in Objects /\ o = files[i].obj
      /\ Recorded(m) = files[i].sha
  BY <1>1, MoveFacts
<1>3. /\ UNCHANGED <<files, req, damaged>>
      /\ \A b \in Backends, y \in Objects : y # o => store'[b][y] = store[b][y]
  BY <1>1, <1>2 DEF Moves
<1>4. UploadsHold'
  <2> SUFFICES ASSUME NEW q \in Workers, req[q].obj # None
               PROVE  \/ store'[Home][req[q].obj] = req[q].sha
                      \/ <<Home, req[q].obj>> \in damaged
                      \/ req[q].obj \in doubtful'
    BY <1>3 DEF UploadsHold, Excused
  <2>1. req[q].obj \in Objects /\ req[q].obj # o
    BY <1>2 DEF IInv, TypeOK, Req, OwnInv, OneOwner, OnRecord
  <2>2. store'[Home][req[q].obj] = store[Home][req[q].obj]
    BY <1>3, <2>1, Elsewhere
  <2> QED  BY <2>2 DEF CInv, UploadsHold, Excused
<1>5. PlacesHoldTheFile'
  <2> SUFFICES ASSUME NEW j \in Items, files[j] # None, NEW k \in 1 .. Len(places'[j])
               PROVE  \/ store'[places'[j][k]][files[j].obj] = files[j].sha
                      \/ <<places'[j][k], files[j].obj>> \in damaged'
                      \/ files[j].obj \in doubtful'
    BY <1>3 DEF PlacesHoldTheFile, Places
  <2>1. CASE j = i
    BY <1>1, <1>2, <2>1
  <2>2. CASE j # i
    <3>1. files[j].obj # o /\ files[j].obj \in Objects
      BY <1>2, <2>2 DEF OwnInv, OneOwner, IInv, TypeOK, File
    <3>2. places'[j] = places[j] /\ places[j][k] \in Backends
      BY <1>1, <2>2 DEF IInv, TypeOK
    <3>3. store'[places'[j][k]][files[j].obj] = store[places[j][k]][files[j].obj]
      BY <1>3, <3>1, <3>2
    <3>4. places[j][k] \in Places(j)
      BY <3>2 DEF Places
    <3>5. \/ store[places[j][k]][files[j].obj] = files[j].sha
          \/ <<places[j][k], files[j].obj>> \in damaged
          \/ files[j].obj \in doubtful
      BY <3>4 DEF CInv, PlacesHoldTheFile
    <3> QED  BY <1>3, <3>2, <3>3, <3>5
  <2> QED  BY <2>1, <2>2
<1> QED  BY <1>4, <1>5

(* The migration is over. *)
LEMMA LeaveHolds ==
  ASSUME IInv, OneMigration, NEW m \in Movers, Leave(m)
  PROVE  MoveHolds'
BY DEF IInv, TypeOK, OneMigration, Leave, AtRest, MoveHolds

(* Before the step, for a place of the file. *)
LEMMA PlaceBefore ==
  ASSUME IInv, CInv, NEW m \in Movers, move[m].pc # "idle",
         NEW k \in 1 .. Len(places[move[m].item])
  PROVE  LET b == places[move[m].item][k] IN
         /\ b \in Backends
         /\ store[b][Moving(m)] = Recorded(m) \/ Excused(b, Moving(m))
         /\ (b = Target(m) /\ ( \/ move[m].pc \in {"copy", "copied"}
                                \/ move[m].pc = "record" /\ move[m].copied = TRUE ))
              => Excused(b, Moving(m))
<1>1. PICK i : i = move[m].item
  OBVIOUS
<1>2. i \in Items /\ files[i] # None /\ Moving(m) = files[i].obj /\ Recorded(m) = files[i].sha
  BY <1>1, MoveFacts
<1>3. places[i][k] \in Backends /\ places[i][k] \in Places(i)
  BY <1>1, <1>2 DEF IInv, TypeOK, Places
<1>4. store[places[i][k]][files[i].obj] = files[i].sha \/ Excused(places[i][k], files[i].obj)
  BY <1>2, <1>3 DEF CInv, PlacesHoldTheFile, Excused
<1> QED  BY <1>1, <1>2, <1>3, <1>4 DEF CInv, MoveHolds

(* Steps that only read. *)
LEMMA ReadingKeeps ==
  ASSUME IInv, OwnInv, CInv, OneMigration, NEW m \in Movers,
         List(m, move'[m].item) \/ CheckSource(m) \/ Probe(m) \/ MoveStops(m)
  PROVE  CInv'
<1>1. /\ UNCHANGED <<store, files, places, req, doubtful, damaged>>
  BY DEF List, CheckSource, Probe, MoveStops, tables
<1>2. UploadsHold' /\ PlacesHoldTheFile'
  BY <1>1 DEF CInv, UploadsHold, PlacesHoldTheFile, Excused, Places
<1>3. CASE Leave(m)
  BY <1>2, <1>3, LeaveHolds DEF CInv
<1>4. ASSUME ~ Leave(m)
      PROVE  /\ move'[m].pc \in {"listed", "checked", "copy"} => move'[m].copied = FALSE
             /\ move'[m].pc \in {"listed", "checked", "copy", "record"}
             /\ move'[m].pc \in {"copy", "record"} =>
                  /\ Probe(m) /\ move[m].pc = "checked" /\ move[m].copied = FALSE
                  /\ move'[m].copied = FALSE
                  /\ move'[m].item = move[m].item /\ move'[m].from = move[m].from
                  /\ move'[m].pc = "copy" => store[Target(m)][Moving(m)] = None
                  /\ move'[m].pc = "record" => store[Target(m)][Moving(m)] = Recorded(m)
  <2>1. move \in [Movers -> Move] /\ move[m] \in Move
    BY DEF IInv, TypeOK
  <2>2. ASSUME List(m, move'[m].item)
        PROVE  move'[m].pc = "listed" /\ move'[m].copied = FALSE
    BY <2>1, <2>2 DEF List, AtRest
  <2>3. ASSUME NEW c, move' = [move EXCEPT ![m].pc = c]
        PROVE  /\ move'[m].pc = c /\ move'[m].copied = move[m].copied
               /\ move'[m].item = move[m].item /\ move'[m].from = move[m].from
    <3>1. PICK r : r = [move[m] EXCEPT !.pc = c]
      OBVIOUS
    <3>2. r.pc = c /\ r.copied = move[m].copied /\ r.item = move[m].item /\ r.from = move[m].from
      BY <2>1, <3>1 DEF Move
    <3>3. move'[m] = r
      BY <2>1, <2>3, <3>1
    <3> QED  BY <3>2, <3>3
  <2>4. CASE CheckSource(m)
    <3>1. move' = [move EXCEPT ![m].pc = "checked"] /\ move[m].pc = "listed"
      BY <1>4, <2>4 DEF CheckSource
    <3>2. move'[m].pc = "checked" /\ move'[m].copied = move[m].copied
      BY <2>3, <3>1
    <3>3. move[m].copied = FALSE
      BY <3>1 DEF CInv, MoveHolds
    <3> QED  BY <3>2, <3>3
  <2>5. CASE Probe(m)
    <3>1. /\ move[m].pc = "checked"
          /\ \/ /\ move' = [move EXCEPT ![m].pc = "copy"]
                /\ store[Target(m)][Moving(m)] = None
             \/ /\ move' = [move EXCEPT ![m].pc = "record"]
                /\ store[Target(m)][Moving(m)] = Recorded(m)
      BY <1>4, <2>5 DEF Probe
    <3>2. move[m].copied = FALSE
      BY <3>1 DEF CInv, MoveHolds
    <3>3. CASE move' = [move EXCEPT ![m].pc = "copy"] /\ store[Target(m)][Moving(m)] = None
      <4>1. /\ move'[m].pc = "copy" /\ move'[m].copied = move[m].copied
            /\ move'[m].item = move[m].item /\ move'[m].from = move[m].from
        BY <2>3, <3>3
      <4> QED  BY <2>5, <3>1, <3>2, <3>3, <4>1
    <3>4. CASE move' = [move EXCEPT ![m].pc = "record"] /\ store[Target(m)][Moving(m)] = Recorded(m)
      <4>1. /\ move'[m].pc = "record" /\ move'[m].copied = move[m].copied
            /\ move'[m].item = move[m].item /\ move'[m].from = move[m].from
        BY <2>3, <3>4
      <4> QED  BY <2>5, <3>1, <3>2, <3>4, <4>1
    <3> QED  BY <3>1, <3>3, <3>4
  <2> QED  BY <1>4, <2>2, <2>4, <2>5 DEF MoveStops
<1>5. ASSUME ~ Leave(m), move'[m].pc \in {"copy", "record"}
      PROVE  /\ move'[m].pc = "record" => store'[Target(m)'][Moving(m)'] = Recorded(m)'
             /\ (move'[m].pc = "copy" /\ Target(m)' \in Places(move[m].item)')
                  => Excused(Target(m)', Moving(m)')
  <2>1. /\ Target(m)' = Target(m) /\ Moving(m)' = Moving(m) /\ Recorded(m)' = Recorded(m)
        /\ move[m].pc = "checked" /\ move'[m].item = move[m].item
    BY <1>1, <1>4, <1>5, SameMove
  <2>2. CASE move'[m].pc = "record"
    BY <1>1, <1>4, <1>5, <2>1, <2>2
  <2>3. ASSUME move'[m].pc = "copy", Target(m)' \in Places(move[m].item)'
        PROVE  Excused(Target(m), Moving(m))
    <3>1. Target(m) \in Places(move[m].item)
      BY <1>1, <2>1, <2>3 DEF Places
    <3>2. PICK k \in 1 .. Len(places[move[m].item]) : Target(m) = places[move[m].item][k]
      BY <3>1 DEF Places
    <3>3. store[Target(m)][Moving(m)] = Recorded(m) \/ Excused(Target(m), Moving(m))
      BY <2>1, <3>2, PlaceBefore
    <3>4. store[Target(m)][Moving(m)] # Recorded(m)
      BY <1>4, <1>5, <2>1, <2>3, MoveFacts, FilesAssumption DEF Data
    <3> QED  BY <3>3, <3>4
  <2> QED  BY <2>1, <2>2, <2>3
<1>6. CASE ~ Leave(m)
  <2> SUFFICES MoveHolds'
    BY <1>2 DEF CInv
  <2> SUFFICES /\ move'[m].pc \in {"listed", "checked", "copy"} => move'[m].copied = FALSE
               /\ move'[m].pc = "record" => store'[Target(m)'][Moving(m)'] = Recorded(m)'
               /\ ( /\ move'[m].pc \in {"copy", "copied"} \/ (move'[m].pc = "record" /\ move'[m].copied = TRUE)
                    /\ Target(m)' \in Places(move[m].item)' )
                  => Excused(Target(m)', Moving(m)')
    BY <1>1 DEF MoveHolds, OneMigration, Excused
  <2>1. move'[m].pc \in {"listed", "checked", "copy", "record"}
    BY <1>4, <1>6
  <2>2. move'[m].pc = "record" => move'[m].copied = FALSE
    BY <1>4, <1>6
  <2> QED  BY <1>4, <1>5, <1>6, <2>1, <2>2
<1> QED  BY <1>3, <1>6

LEMMA StoreAt ==
  ASSUME IInv, NEW t \in Backends, NEW o \in Objects, NEW x,
         store' = [store EXCEPT ![t][o] = x]
  PROVE  store'[t][o] = x /\ \A b \in Backends : b # t => store'[b][o] = store[b][o]
BY DEF IInv, TypeOK

(* A step that changes no copy of its file but the one it moves to, and     *)
(* that one only before it is recorded.                                     *)
LEMMA TargetKeeps ==
  ASSUME IInv, OwnInv, CInv, NEW m \in Movers, Moves(m), UNCHANGED <<places, doubtful>>,
         \A b \in Backends : b # Target(m) => store'[b][Moving(m)] = store[b][Moving(m)],
         \/ move[m].pc \in {"copy", "copied"}
         \/ move[m].pc = "record" /\ (move[m].copied = TRUE \/ UNCHANGED store)
  PROVE  UploadsHold' /\ PlacesHoldTheFile'
<1>1. ASSUME NEW k \in 1 .. Len(places[move[m].item])
      PROVE  \/ store'[places[move[m].item][k]][Moving(m)] = Recorded(m)
             \/ <<places[move[m].item][k], Moving(m)>> \in damaged'
             \/ Moving(m) \in doubtful'
  <2>1. PICK b : b = places[move[m].item][k]
    OBVIOUS
  <2>2. /\ b \in Backends
        /\ store[b][Moving(m)] = Recorded(m) \/ Excused(b, Moving(m))
        /\ (b = Target(m) /\ ( \/ move[m].pc \in {"copy", "copied"}
                               \/ move[m].pc = "record" /\ move[m].copied = TRUE ))
             => Excused(b, Moving(m))
    BY <2>1, PlaceBefore
  <2> QED  BY <2>1, <2>2 DEF Moves, Excused
<1>2. /\ move[m].pc # "idle" /\ doubtful \subseteq doubtful' /\ places' = places
  OBVIOUS
<1> QED  BY <1>1, <1>2, MoverKeeps

LEMMA CopyKeeps ==
  ASSUME IInv, OwnInv, CInv, OneMigration, NEW m \in Movers, Moves(m),
         Copy(m) \/ CopyKilled(m)
  PROVE  CInv'
<1>1. move[m].pc = "copy" /\ UNCHANGED <<files, places, doubtful, damaged>>
  BY DEF Copy, CopyKilled, tables
<1>2. Moving(m) \in Objects /\ Target(m) \in Backends /\ "local" \in Backends
  BY <1>1, MoveFacts DEF Backends
<1>3. \A b \in Backends : b # Target(m) => store'[b][Moving(m)] = store[b][Moving(m)]
  <2>1. \/ UNCHANGED store
        \/ \E x : store' = [store EXCEPT ![Target(m)][Moving(m)] = x]
    BY DEF Copy, CopyKilled
  <2> QED  BY <1>2, <2>1, StoreAt
<1>4. UploadsHold' /\ PlacesHoldTheFile'
  BY <1>1, <1>3, TargetKeeps
<1>5. CASE Leave(m)
  BY <1>4, <1>5, LeaveHolds DEF CInv
<1>6. CASE ~ Leave(m)
  <2>1. PICK r : r = [move[m] EXCEPT !.pc = "copied", !.copied = TRUE]
    OBVIOUS
  <2>2. move' = [move EXCEPT ![m] = r] /\ move \in [Movers -> Move]
    BY <1>6, <2>1 DEF Copy, CopyKilled, IInv, TypeOK
  <2>3. r.pc = "copied" /\ r.item = move[m].item /\ r.from = move[m].from
    BY <2>1, <2>2 DEF Move
  <2>4. /\ Target(m)' = Target(m) /\ Moving(m)' = Moving(m)
        /\ Places(move[m].item)' = Places(move[m].item)
    BY <1>1, <2>2, <2>3, SameMove DEF Places
  <2>5. Target(m) \in Places(move[m].item) => Excused(Target(m), Moving(m))
    BY <1>1 DEF CInv, MoveHolds
  <2>6. MoveHolds'
    <3>1. move'[m].pc = "copied"
      BY <2>2, <2>3
    <3>2. Target(m)' \in Places(move[m].item)' => Excused(Target(m)', Moving(m)')
      BY <2>4, <2>5
    <3> QED  BY <1>1, <3>1, <3>2 DEF MoveHolds, OneMigration, Excused
  <2> QED  BY <1>4, <2>6 DEF CInv
<1> QED  BY <1>5, <1>6

LEMMA CheckTargetKeeps ==
  ASSUME IInv, OwnInv, CInv, OneMigration, NEW m \in Movers, Moves(m), CheckTarget(m)
  PROVE  CInv'
<1>1. move[m].pc = "copied" /\ UNCHANGED <<files, places, doubtful, damaged>>
  BY DEF CheckTarget, tables
<1>2. Moving(m) \in Objects /\ Target(m) \in Backends
  BY <1>1, MoveFacts
<1>3. \A b \in Backends : b # Target(m) => store'[b][Moving(m)] = store[b][Moving(m)]
  <2>1. UNCHANGED store \/ store' = [store EXCEPT ![Target(m)][Moving(m)] = None]
    BY DEF CheckTarget
  <2> QED  BY <1>2, <2>1, StoreAt
<1>4. UploadsHold' /\ PlacesHoldTheFile'
  BY <1>1, <1>3, TargetKeeps
<1>5. CASE Leave(m)
  BY <1>4, <1>5, LeaveHolds DEF CInv
<1>6. CASE ~ Leave(m)
  <2>1. PICK r : r = [move[m] EXCEPT !.pc = "record"]
    OBVIOUS
  <2>2. /\ move' = [move EXCEPT ![m] = r] /\ move \in [Movers -> Move]
        /\ store' = store /\ store[Target(m)][Moving(m)] = Recorded(m)
    BY <1>6, <2>1 DEF CheckTarget, IInv, TypeOK
  <2>3. r.pc = "record" /\ r.item = move[m].item /\ r.from = move[m].from
    BY <2>1, <2>2 DEF Move
  <2>4. /\ Target(m)' = Target(m) /\ Moving(m)' = Moving(m) /\ Recorded(m)' = Recorded(m)
        /\ Places(move[m].item)' = Places(move[m].item)
    BY <1>1, <2>2, <2>3, SameMove DEF Places
  <2>5. Target(m) \in Places(move[m].item) => Excused(Target(m), Moving(m))
    BY <1>1 DEF CInv, MoveHolds
  <2>6. MoveHolds'
    <3>1. move'[m].pc = "record"
      BY <2>2, <2>3
    <3>2. Target(m)' \in Places(move[m].item)' => Excused(Target(m)', Moving(m)')
      BY <2>4, <2>5
    <3>3. store'[Target(m)'][Moving(m)'] = Recorded(m)'
      BY <2>2, <2>4
    <3> QED  BY <1>1, <3>1, <3>2, <3>3 DEF MoveHolds, OneMigration, Excused
  <2> QED  BY <1>4, <2>6 DEF CInv
<1> QED  BY <1>5, <1>6

LEMMA RecordMoveFailsKeeps ==
  ASSUME IInv, OwnInv, CInv, OneMigration, NEW m \in Movers, Moves(m), RecordMoveFails(m)
  PROVE  CInv'
<1>1. move[m].pc = "record" /\ Leave(m) /\ UNCHANGED <<places, doubtful>>
  BY DEF RecordMoveFails, tables
<1>2. Moving(m) \in Objects /\ Target(m) \in Backends /\ move[m].copied \in BOOLEAN
  BY <1>1, MoveFacts
<1>3. /\ UNCHANGED store \/ store' = [store EXCEPT ![Target(m)][Moving(m)] = None]
      /\ move[m].copied = TRUE \/ UNCHANGED store
  BY <1>2 DEF RecordMoveFails
<1>4. \A b \in Backends : b # Target(m) => store'[b][Moving(m)] = store[b][Moving(m)]
  BY <1>2, <1>3, StoreAt
<1> QED  BY <1>1, <1>3, <1>4, TargetKeeps, LeaveHolds DEF CInv

(* A new place is recorded: what is there was just compared. *)
LEMMA RecordMoveKeeps ==
  ASSUME IInv, OwnInv, CInv, OneMigration, NEW m \in Movers, Moves(m),
         RecordMove(m) \/ RecordMoveReplyLost(m)
  PROVE  CInv'
<1>1. /\ move[m].pc = "record" /\ Leave(m)
      /\ places' = [places EXCEPT ![move[m].item] = Append(places[move[m].item], Target(m))]
      /\ doubtful \subseteq doubtful' /\ damaged' = damaged
      /\ UNCHANGED store \/ Moving(m) \in doubtful'
  BY DEF RecordMove, RecordMoveReplyLost, AddPlace
<1>2. Moving(m) \in Objects /\ Target(m) \in Backends /\ move[m].item \in Items
  BY <1>1, MoveFacts
<1>3. places \in [Items -> Seq(Backends)]
  BY DEF IInv, TypeOK
<1>4. /\ \A j \in Items : j # move[m].item => places'[j] = places[j]
      /\ places'[move[m].item] = Append(places[move[m].item], Target(m))
  BY <1>1, <1>2, <1>3
<1>5. ASSUME NEW k \in 1 .. Len(places'[move[m].item])
      PROVE  \/ store'[places'[move[m].item][k]][Moving(m)] = Recorded(m)
             \/ <<places'[move[m].item][k], Moving(m)>> \in damaged'
             \/ Moving(m) \in doubtful'
  <2>1. CASE k \in 1 .. Len(places[move[m].item])
    <3>1. PICK b : b = places[move[m].item][k]
      OBVIOUS
    <3>2. store[b][Moving(m)] = Recorded(m) \/ Excused(b, Moving(m))
      BY <1>1, <2>1, <3>1, PlaceBefore
    <3>3. places'[move[m].item][k] = b
      BY <1>2, <1>3, <1>4, <2>1, <3>1
    <3> QED  BY <1>1, <3>2, <3>3 DEF Excused
  <2>2. CASE k \notin 1 .. Len(places[move[m].item])
    <3>1. places'[move[m].item][k] = Target(m)
      BY <1>2, <1>3, <1>4, <2>2
    <3>2. store[Target(m)][Moving(m)] = Recorded(m) \/ Excused(Target(m), Moving(m))
      BY <1>1 DEF CInv, MoveHolds
    <3> QED  BY <1>1, <3>1, <3>2 DEF Excused
  <2> QED  BY <2>1, <2>2
<1>6. UploadsHold' /\ PlacesHoldTheFile'
  BY <1>1, <1>4, <1>5, MoverKeeps
<1> QED  BY <1>1, <1>6, LeaveHolds DEF CInv

LEMMA CInvStep ==
  ASSUME IInv, EmptyHanded, OwnInv, CInv, OneMigration, Next
  PROVE  CInv'
<1>1. ASSUME Quiet, UNCHANGED <<places, move>>
      PROVE  CInv'
  <2>1. UploadsHold'
    BY <1>1 DEF CInv, UploadsHold, Quiet, Excused
  <2>2. PlacesHoldTheFile'
    BY <1>1 DEF CInv, PlacesHoldTheFile, Places, Quiet
  <2>3. MoveHolds'
    BY <1>1 DEF CInv, MoveHolds, Places, Excused, Target, Moving, Recorded, Quiet
  <2> QED  BY <2>1, <2>2, <2>3 DEF CInv
<1>2. ASSUME NEW p \in Workers, UNCHANGED move,
             \/ \E o \in Objects, c \in Contents : Uploads(p, o, c)
             \/ Drops(p)
             \/ Records(p)
      PROVE  CInv'
  BY <1>2, RequestCopies, RecordCopies
<1>3. ASSUME NEW m \in Movers, MoveStep(m), Moves(m)
      PROVE  CInv'
  <2>1. ASSUME NEW i \in Items, List(m, i) PROVE List(m, move'[m].item)
    <3>1. PICK r : r = [AtRest EXCEPT !.pc = "listed", !.item = i, !.from = Backend(i)]
      OBVIOUS
    <3>2. r.item = i /\ move'[m] = r
      BY <2>1, <3>1 DEF List, AtRest, IInv, TypeOK
    <3> QED  BY <2>1, <3>2
  <2> QED  BY <1>3, <2>1, ReadingKeeps, CopyKeeps, CheckTargetKeeps, RecordMoveKeeps,
              RecordMoveFailsKeeps DEF MoveStep
<1> QED  BY <1>1, <1>2, <1>3, Effects, DamageCopies, LeftCopies

(* Every place on record for a file holds the recorded content, but for     *)
(* damage from outside and lost COMMIT replies: for any items, uploads and  *)
(* requests, as long as one migration runs at a time.  With two it does not *)
(* hold (run files_two_migrations).                                         *)
THEOREM PlacesAreTrue ==
  ASSUME OneMigration
  PROVE  Spec => []PlacesHoldTheFile
<1>1. Init => EmptyHanded /\ OwnInv /\ CInv
  <2> SUFFICES ASSUME Init PROVE CInv
    BY InitOwns
  <2>1. \A p \in Workers : req[p].obj = None
    BY DEF Init, Idle, Request
  <2> QED  BY <2>1 DEF Init, CInv, UploadsHold, PlacesHoldTheFile, MoveHolds, AtRest
<1>2. EmptyHanded /\ OwnInv /\ CInv /\ UNCHANGED vars => EmptyHanded' /\ OwnInv' /\ CInv'
  <2>1. CInv /\ UNCHANGED vars => CInv'
    BY DEF CInv, UploadsHold, PlacesHoldTheFile, MoveHolds, Excused, Places, Target, Moving,
           Recorded, vars, tables
  <2> QED  BY <2>1, OwnsStutter
<1>3. IInv /\ EmptyHanded /\ OwnInv /\ CInv /\ [Next]_vars => EmptyHanded' /\ OwnInv' /\ CInv'
  BY <1>2, OwnInvStep, CInvStep
<1>4. CInv => PlacesHoldTheFile
  BY DEF CInv
<1> QED  BY <1>1, <1>3, <1>4, InitIInv, NextIInv, PTL DEF Spec

=============================================================================
