--------------------------- MODULE CustodyProofs ---------------------------
(***************************************************************************)
(* Proofs about Custody for every set of users, locations and sessions.    *)
(***************************************************************************)
EXTENDS Custody, TLAPS

\* The empty request and the empty locals are values of their types.
LEMMA NoRequestType == NoRequest \in Request /\ NoLocals \in Evidence
  BY DEF Request, NoRequest, Places, Actions, NoTime, Evidence, NoLocals, Statuses

\* A sequence of one element.
LEMMA Singleton ==
  ASSUME NEW S, NEW e \in S
  PROVE  /\ <<e>> \in Seq(S)
         /\ Len(<<e>>) = 1
         /\ <<e>>[1] = e
         /\ DOMAIN <<e>> = {1}
  OBVIOUS

\* A change of what the database says of people and places.
RightsStep ==
  \/ \E x \in Leavers : SetActive(x)
  \/ \E u \in Movers : ChangeRole(u) \/ ChangeTeam(u)

\* It changes nothing else, and keeps the types.
LEMMA RightsOnly ==
  ASSUME RightsStep, TypeOK
  PROVE  /\ UNCHANGED <<chain, evidence, clock, lock, pc, req, local, moves>>
         /\ inactive' \subseteq Users \cup Locations
         /\ staff' \subseteq Users /\ investigators' \subseteq Users /\ team' \subseteq Users
  <1>1. CASE \E x \in Leavers : SetActive(x)
    BY <1>1, ConstantsAssumption DEF SetActive, Toggle, TypeOK
  <1>2. ASSUME NEW u \in Movers, ChangeRole(u) \/ ChangeTeam(u)
        PROVE  /\ UNCHANGED <<chain, evidence, clock, lock, pc, req, local, moves>>
               /\ inactive' \subseteq Users \cup Locations
               /\ staff' \subseteq Users /\ investigators' \subseteq Users /\ team' \subseteq Users
    <2>1. \A S \in SUBSET Users : Toggle(S, u) \subseteq Users
      BY ConstantsAssumption DEF Toggle
    <2>2. staff' \subseteq Users /\ investigators' \subseteq Users /\ team' \subseteq Users
      BY <1>2, <2>1 DEF ChangeRole, ChangeTeam, TypeOK
    <2> QED
      BY <1>2, <2>2 DEF ChangeRole, ChangeTeam, TypeOK
  <1> QED
    BY <1>1, <1>2 DEF RightsStep

\* The inductive invariant.
IInv == TypeOK /\ LockProtocol /\ HandoverUnbroken

\* The registered item, with no request under way, satisfies the invariant.
LEMMA InitIInv == Init => IInv
  <1> SUFFICES ASSUME Init PROVE IInv
    OBVIOUS
  <1>0. PICK u \in Users, t \in Times :
        /\ chain = <<Collected(u, t)>>
        /\ evidence = [status |-> "In Transit", custodian |-> u, location |-> NoLocation]
    BY DEF Init, LedgerInit
  <1>1. Collected(u, t) \in Entry
    BY DEF Collected, Entry, Actions, Places
  <1>2. TypeOK
    <2>1. chain \in Seq(Entry) /\ moves \in Seq(Nat)
      <3>1. chain \in Seq(Entry)
        BY <1>0, <1>1, Singleton
      <3>2. 1 \in Nat /\ moves = <<1>>
        BY DEF Init
      <3> QED
        BY <3>1, <3>2, Singleton
    <2>2. evidence \in Evidence /\ evidence.custodian \in Users
      BY <1>0 DEF Evidence, Statuses, Places
    <2>3. pc \in [Sessions -> Phases]
      BY DEF Init, Phases
    <2> QED
      BY <2>1, <2>2, <2>3, NoRequestType, ConstantsAssumption DEF Init, TypeOK
  <1>3. LockProtocol
    BY ConstantsAssumption DEF Init, LockProtocol, Locked
  <1>4. HandoverUnbroken
    <2>1. /\ Len(moves) = 1 /\ moves[1] = 1 /\ DOMAIN moves = {1}
      BY Singleton DEF Init
    <2>2. /\ DOMAIN chain = {1} /\ chain[1] = Collected(u, t)
      BY <1>0, <1>1, Singleton
    <2>3. /\ evidence.custodian = chain[1].to /\ evidence.location = chain[1].loc
      BY <1>0, <2>2 DEF Collected
    <2> QED
      BY <2>1, <2>2, <2>3 DEF HandoverUnbroken
  <1> QED
    BY <1>2, <1>3, <1>4 DEF IInv

---------------------------------------------------------------------------
\* What Append does to a sequence.
LEMMA AppendFacts ==
  ASSUME NEW S, NEW q \in Seq(S), NEW e \in S
  PROVE  /\ Append(q, e) \in Seq(S)
         /\ Len(q) \in Nat
         /\ Len(Append(q, e)) = Len(q) + 1
         /\ DOMAIN q = 1 .. Len(q)
         /\ DOMAIN Append(q, e) = 1 .. Len(q) + 1
         /\ \A i \in 1 .. Len(q) : q[i] \in S /\ Append(q, e)[i] = q[i]
         /\ Append(q, e)[Len(q) + 1] = e
  OBVIOUS

\* A step that changes neither the log nor the item keeps the handovers.
LEMMA QuietStep ==
  ASSUME HandoverUnbroken, UNCHANGED <<chain, evidence, moves>>
  PROVE  HandoverUnbroken'
  BY DEF HandoverUnbroken

\* A session that only prepares a request: pages, forms and first reads.
LEMMA UserStepIInv ==
  ASSUME IInv, NEW s \in Sessions, UserStep(s)
  PROVE  IInv'
  <1> USE DEF IInv
  <1>1. /\ UNCHANGED <<chain, evidence, rights, clock, lock, local, moves>>
        /\ pc[s] \in {"idle", "form"}
        /\ \E p \in {"idle", "form", "transfer", "correct", "export"} :
             pc' = [pc EXCEPT ![s] = p]
        /\ \E r \in Request :
             /\ req' = [req EXCEPT ![s] = r]
             /\ pc'[s] = "correct" =>
                  /\ r.to \in Users
                  /\ r.corrects \in DOMAIN chain
                  /\ chain[r.corrects].action # "Exported"
                  /\ r.snap <= Len(chain)
    <2>0. pc \in [Sessions -> Phases] /\ req \in [Sessions -> Request] /\ Len(chain) \in Nat
          /\ Len(moves) \in Nat /\ evidence.custodian \in Users /\ DOMAIN chain \subseteq Nat
      BY DEF TypeOK
    <2>1. CASE \E u \in Users : OpenTransferForm(s, u)
      <3> PICK u \in Users : OpenTransferForm(s, u)
        BY <2>1
      <3> DEFINE r == [NoRequest EXCEPT !.by = u, !.expected = evidence.custodian,
                                        !.seen = Len(moves)]
      <3>1. r \in Request
        BY <2>0, NoRequestType DEF Request
      <3> QED
        BY <3>1, <2>0 DEF OpenTransferForm
    <2>2. CASE \E u \in Users : BeginExport(s, u)
      <3> PICK u \in Users : BeginExport(s, u)
        BY <2>2
      <3> DEFINE r == [NoRequest EXCEPT !.by = u]
      <3>1. r \in Request
        BY NoRequestType DEF Request
      <3> QED
        BY <3>1, <2>0 DEF BeginExport
    <2>3. CASE \E a \in TransferActions, u \in Users, l \in Places, t \in HandoverTimes \cup {NoTime} :
                 SubmitTransfer(s, a, u, l, t)
      <3> PICK a \in TransferActions, u \in Users, l \in Places, t \in HandoverTimes \cup {NoTime} :
                 SubmitTransfer(s, a, u, l, t)
        BY <2>3
      <3> DEFINE r == [req[s] EXCEPT !.action = a, !.to = u, !.loc = l, !.at = t]
      <3>1. r \in Request
        BY <2>0, ConstantsAssumption DEF Request, Actions
      <3>2. req' = [req EXCEPT ![s] = r]
        BY DEF SubmitTransfer
      <3> QED
        BY <3>1, <3>2, <2>0 DEF SubmitTransfer
    <2>4. CASE \E u \in Correctors, k \in DOMAIN chain, to \in Users, l \in Places :
                 BeginCorrection(s, u, k, to, l)
      <3> PICK u \in Correctors, k \in DOMAIN chain, to \in Users, l \in Places :
                 BeginCorrection(s, u, k, to, l)
        BY <2>4
      <3> DEFINE r == [NoRequest EXCEPT !.by = u, !.corrects = k, !.to = to,
                                        !.loc = l, !.snap = Len(chain)]
      <3>1. r \in Request
        BY <2>0, NoRequestType, ConstantsAssumption DEF Request
      <3>2. r.to = to /\ r.corrects = k /\ r.snap = Len(chain)
        BY DEF NoRequest
      <3>3. req' = [req EXCEPT ![s] = r]
        BY DEF BeginCorrection
      <3>4. /\ UNCHANGED <<chain, evidence, rights, clock, lock, local, moves>>
            /\ pc[s] = "idle"
            /\ pc' = [pc EXCEPT ![s] = "correct"]
            /\ chain[k].action # "Exported"
        BY DEF BeginCorrection
      <3>5. /\ r.to \in Users /\ r.corrects \in DOMAIN chain
            /\ chain[r.corrects].action # "Exported" /\ r.snap <= Len(chain)
        BY <3>2, <3>4, <2>0
      <3> HIDE DEF r
      <3>6. \E q \in Request :
             /\ req' = [req EXCEPT ![s] = q]
             /\ pc'[s] = "correct" =>
                  /\ q.to \in Users
                  /\ q.corrects \in DOMAIN chain
                  /\ chain[q.corrects].action # "Exported"
                  /\ q.snap <= Len(chain)
        BY <3>1, <3>3, <3>5
      <3> QED
        BY <3>4, <3>6
    <2>5. CASE LeaveForm(s)
      BY <2>5, <2>0, NoRequestType DEF LeaveForm
    <2> QED
      BY <2>1, <2>2, <2>3, <2>4, <2>5 DEF UserStep
  <1> PICK p \in {"idle", "form", "transfer", "correct", "export"} : pc' = [pc EXCEPT ![s] = p]
    BY <1>1
  <1>2. TypeOK'
    <2>1. p \in Phases
      BY DEF Phases, Waiting
    <2> QED
      BY <1>1, <2>1 DEF TypeOK, rights
  <1>3. LockProtocol'
    <2>1. lock # s
      BY <1>1 DEF LockProtocol, Locked
    <2>2. \A x \in Sessions : pc'[x] \in Locked <=> lock' = x
      BY <1>1, <2>1 DEF LockProtocol, Locked, TypeOK
    <2>3. \A x \in Sessions : lock' = x => local'[x] = evidence'
      BY <1>1 DEF LockProtocol
    <2>4. ASSUME NEW x \in Sessions, pc'[x] \in {"correct", "correcting"}
          PROVE  /\ req'[x].to \in Users
                 /\ req'[x].corrects \in DOMAIN chain
                 /\ chain[req'[x].corrects].action # "Exported"
                 /\ req'[x].snap <= Len(chain)
      <3>1. CASE x = s
        BY <1>1, <2>4, <3>1 DEF TypeOK
      <3>2. CASE x # s
        BY <1>1, <2>4, <3>2 DEF TypeOK, LockProtocol
      <3> QED
        BY <3>1, <3>2
    <2> QED
      BY <1>1, <2>2, <2>3, <2>4 DEF LockProtocol
  <1>4. HandoverUnbroken'
    BY <1>1, QuietStep
  <1> QED
    BY <1>2, <1>3, <1>4

---------------------------------------------------------------------------
(* The row lock is taken and given back.                                   *)

\* Taking the row lock preserves the invariant.
LEMMA LockEvidenceIInv ==
  ASSUME IInv, NEW s \in Sessions, LockEvidence(s)
  PROVE  IInv'
  <1> USE DEF IInv
  <1>1. /\ UNCHANGED <<chain, evidence, rights, clock, req, moves>>
        /\ lock = NoSession /\ lock' = s
        /\ local' = [local EXCEPT ![s] = evidence]
        /\ pc[s] \in Waiting
    BY DEF LockEvidence
  <1>2. PICK p \in Locked : /\ pc' = [pc EXCEPT ![s] = p]
                            /\ p = "correcting" => pc[s] = "correct"
    <2>1. pc' = [pc EXCEPT ![s] = IF pc[s] = "transfer" THEN "transferring"
                                  ELSE IF pc[s] = "correct" THEN "correcting"
                                  ELSE "exporting"]
      BY DEF LockEvidence
    <2> QED
      BY <2>1 DEF Locked
  <1>3. TypeOK'
    BY <1>1, <1>2 DEF TypeOK, rights, Phases
  <1>4. LockProtocol'
    <2>1. \A x \in Sessions : pc[x] \notin Locked
      BY <1>1, ConstantsAssumption DEF LockProtocol
    <2>2. \A x \in Sessions : pc'[x] \in Locked <=> lock' = x
      BY <1>1, <1>2, <2>1 DEF TypeOK
    <2>3. \A x \in Sessions : lock' = x => local'[x] = evidence'
      BY <1>1 DEF TypeOK
    <2>4. \A x \in Sessions : pc'[x] \in {"correct", "correcting"}
                               => pc[x] \in {"correct", "correcting"}
      BY <1>1, <1>2 DEF TypeOK, Locked
    <2> QED
      BY <1>1, <2>2, <2>3, <2>4 DEF LockProtocol
  <1>5. HandoverUnbroken'
    BY <1>1, QuietStep
  <1> QED
    BY <1>3, <1>4, <1>5

\* The end of a transaction restores the lock protocol when the log has only
\* grown and, if the session did not hold the row, the item is untouched.
LEMMA EndOfTransaction ==
  ASSUME IInv, NEW s \in Sessions, NEW p \in {"idle", "form"}, NEW r \in Request,
         pc' = [pc EXCEPT ![s] = p],
         req' = [req EXCEPT ![s] = r],
         local' = [local EXCEPT ![s] = NoLocals],
         lock' = IF lock = s THEN NoSession ELSE lock,
         lock # s => UNCHANGED evidence,
         chain' \in Seq(Entry),
         Len(chain) <= Len(chain'),
         \A i \in DOMAIN chain : chain'[i] = chain[i]
  PROVE  /\ LockProtocol'
         /\ pc' \in [Sessions -> Phases]
         /\ req' \in [Sessions -> Request]
         /\ local' \in [Sessions -> Evidence]
         /\ lock' \in Sessions \cup {NoSession}
  <1> USE DEF IInv
  <1>1. p \in Phases /\ p \notin Locked
    BY DEF Phases, Locked
  <1>2. \A x \in Sessions : pc'[x] \in Locked <=> lock' = x
    BY <1>1, ConstantsAssumption DEF LockProtocol, TypeOK
  <1>3. \A x \in Sessions : lock' = x => local'[x] = evidence'
    BY ConstantsAssumption DEF LockProtocol, TypeOK
  <1>4. /\ DOMAIN chain = 1 .. Len(chain) /\ DOMAIN chain' = 1 .. Len(chain')
        /\ Len(chain) \in Nat /\ Len(chain') \in Nat
    BY DEF TypeOK
  <1>5. ASSUME NEW x \in Sessions, pc'[x] \in {"correct", "correcting"}
        PROVE  /\ req'[x].to \in Users
               /\ req'[x].corrects \in DOMAIN chain'
               /\ chain'[req'[x].corrects].action # "Exported"
               /\ req'[x].snap <= Len(chain')
    <2>1. x # s /\ pc[x] \in {"correct", "correcting"} /\ req'[x] = req[x]
      BY <1>5 DEF TypeOK
    <2>2. req[x].snap \in Nat
      BY DEF TypeOK, Request
    <2>3. /\ req[x].to \in Users /\ req[x].corrects \in DOMAIN chain
          /\ chain[req[x].corrects].action # "Exported" /\ req[x].snap <= Len(chain)
      BY <2>1 DEF LockProtocol
    <2> QED
      BY <2>1, <2>2, <2>3, <1>4
  <1> QED
    BY <1>1, <1>2, <1>3, <1>5, NoRequestType DEF LockProtocol, TypeOK

\* A rollback, whatever its cause, changes nothing but the session.
LEMMA RollbackIInv ==
  ASSUME IInv, NEW s \in Sessions, ConnectionLost(s) \/ TransferRefuse(s)
  PROVE  IInv'
  <1> USE DEF IInv
  <1>1. /\ UNCHANGED <<chain, evidence, rights, clock, moves>>
        /\ lock' = IF lock = s THEN NoSession ELSE lock
        /\ local' = [local EXCEPT ![s] = NoLocals]
        /\ \E p \in {"idle", "form"} : pc' = [pc EXCEPT ![s] = p]
        /\ \E r \in Request : req' = [req EXCEPT ![s] = r]
    <2>1. CASE ConnectionLost(s)
      BY <2>1, NoRequestType DEF ConnectionLost
    <2>2. CASE TransferRefuse(s)
      <3> DEFINE r == [NoRequest EXCEPT !.by = req[s].by, !.expected = req[s].expected,
                                        !.seen = req[s].seen]
      <3>1. r \in Request
        BY NoRequestType DEF TypeOK, Request
      <3>2. lock = s
        BY <2>2 DEF TransferRefuse, LockProtocol, Locked
      <3> QED
        BY <2>2, <3>1, <3>2 DEF TransferRefuse, EndTransaction
    <2> QED
      BY <2>1, <2>2
  <1>2. /\ LockProtocol' /\ pc' \in [Sessions -> Phases] /\ req' \in [Sessions -> Request]
        /\ local' \in [Sessions -> Evidence] /\ lock' \in Sessions \cup {NoSession}
    <2>1. chain' \in Seq(Entry) /\ Len(chain) <= Len(chain') /\ \A i \in DOMAIN chain : chain'[i] = chain[i]
      BY <1>1 DEF TypeOK
    <2> QED
      BY <1>1, <2>1, EndOfTransaction
  <1>3. TypeOK'
    BY <1>1, <1>2 DEF TypeOK, rights
  <1> QED
    BY <1>1, <1>2, <1>3, QuietStep

---------------------------------------------------------------------------
(* The three commits.                                                      *)

\* Appending an entry keeps the handovers if the item stays where it is, or
\* if it goes where the entry says and a handover came from its holder.
LEMMA AppendKeepsHandovers ==
  ASSUME TypeOK, HandoverUnbroken, NEW e \in Entry,
         chain' = Append(chain, e),
         \/ UNCHANGED <<moves, evidence.custodian, evidence.location>>
         \/ /\ moves' = Append(moves, Len(chain) + 1)
            /\ evidence'.custodian = e.to
            /\ evidence'.location = e.loc
            /\ e.corrects = 0 => e.from = evidence.custodian
  PROVE  /\ HandoverUnbroken'
         /\ moves' \in Seq(Nat)
  <1> DEFINE n == Len(chain) + 1
             m == Len(moves) + 1
  <1>1. /\ chain' \in Seq(Entry) /\ Len(chain) \in Nat
        /\ DOMAIN chain = 1 .. Len(chain) /\ DOMAIN chain' = 1 .. n
        /\ \A i \in 1 .. Len(chain) : chain'[i] = chain[i]
        /\ chain'[n] = e
    BY AppendFacts DEF TypeOK
  <1>2. /\ Len(moves) \in Nat /\ Len(moves) > 0 /\ DOMAIN moves = 1 .. Len(moves)
        /\ \A i \in 1 .. Len(moves) : /\ moves[i] \in 1 .. Len(chain)
                                      /\ chain'[moves[i]] = chain[moves[i]]
    BY <1>1 DEF TypeOK, HandoverUnbroken
  <1>3. CASE UNCHANGED <<moves, evidence.custodian, evidence.location>>
    BY <1>1, <1>2, <1>3 DEF HandoverUnbroken, TypeOK
  <1>4. CASE /\ moves' = Append(moves, Len(chain) + 1)
             /\ evidence'.custodian = e.to
             /\ evidence'.location = e.loc
             /\ e.corrects = 0 => e.from = evidence.custodian
    <2>1. /\ moves' \in Seq(Nat) /\ Len(moves') = m /\ DOMAIN moves' = 1 .. m
          /\ \A i \in 1 .. Len(moves) : moves'[i] = moves[i]
          /\ moves'[m] = n
      BY <1>1, <1>4, AppendFacts DEF TypeOK
    <2>2. \A i \in DOMAIN moves' : moves'[i] \in DOMAIN chain'
      BY <1>1, <1>2, <2>1
    <2>3. /\ evidence'.custodian = chain'[moves'[Len(moves')]].to
          /\ evidence'.location = chain'[moves'[Len(moves')]].loc
      BY <1>1, <1>4, <2>1
    <2>4. ASSUME NEW i \in DOMAIN moves', i > 1, chain'[moves'[i]].corrects = 0
          PROVE  chain'[moves'[i]].from = chain'[moves'[i - 1]].to
      <3>1. CASE i = m
        <4>1. moves'[i - 1] = moves[Len(moves)] /\ chain'[moves'[i]] = e
          BY <1>1, <1>2, <2>1, <3>1
        <4>2. chain'[moves'[i - 1]] = chain[moves[Len(moves)]]
          BY <4>1, <1>2
        <4> QED
          BY <4>1, <4>2, <2>4, <1>4 DEF HandoverUnbroken
      <3>2. CASE i # m
        <4>1. /\ i \in DOMAIN moves /\ i - 1 \in DOMAIN moves
              /\ moves'[i] = moves[i] /\ moves'[i - 1] = moves[i - 1]
          BY <1>2, <2>1, <2>4, <3>2
        <4>2. chain'[moves'[i]] = chain[moves[i]] /\ chain'[moves'[i - 1]] = chain[moves[i - 1]]
          BY <4>1, <1>2
        <4> QED
          BY <4>1, <4>2, <2>4 DEF HandoverUnbroken
      <3> QED
        BY <3>1, <3>2
    <2> QED
      BY <2>1, <2>2, <2>3, <2>4, <1>2 DEF HandoverUnbroken
  <1> QED
    BY <1>3, <1>4

\* A commit by the holder of the row: one entry more, the item and the moves
\* changed together, and the session back to idle.
LEMMA CommitIInv ==
  ASSUME IInv, NEW s \in Sessions, lock = s, NEW e \in Entry,
         chain' = Append(chain, e),
         evidence' \in Evidence, evidence'.custodian \in Users,
         \/ UNCHANGED <<moves, evidence.custodian, evidence.location>>
         \/ /\ moves' = Append(moves, Len(chain) + 1)
            /\ evidence'.custodian = e.to
            /\ evidence'.location = e.loc
            /\ e.corrects = 0 => e.from = evidence.custodian,
         EndTransaction(s, "idle", NoRequest),
         UNCHANGED <<rights, clock>>
  PROVE  IInv'
  <1> USE DEF IInv
  <1>1. HandoverUnbroken' /\ moves' \in Seq(Nat)
    BY AppendKeepsHandovers
  <1>2. /\ chain' \in Seq(Entry) /\ Len(chain) <= Len(chain')
        /\ \A i \in DOMAIN chain : chain'[i] = chain[i]
    BY AppendFacts DEF TypeOK
  <1>3. /\ LockProtocol' /\ pc' \in [Sessions -> Phases] /\ req' \in [Sessions -> Request]
        /\ local' \in [Sessions -> Evidence] /\ lock' \in Sessions \cup {NoSession}
    BY <1>2, NoRequestType, EndOfTransaction DEF EndTransaction
  <1>4. TypeOK'
    BY <1>1, <1>2, <1>3 DEF TypeOK, rights
  <1> QED
    BY <1>1, <1>3, <1>4

\* Under the lock the locals are the row, so what sp_transfer_evidence records
\* is a handover from the current holder.
LEMMA TransferFacts ==
  ASSUME IInv, NEW s \in Sessions, TransferCommit(s)
  PROVE  /\ lock = s /\ local[s] = evidence
         /\ TransferEntry(s) \in Entry
         /\ TransferEntry(s).from = evidence.custodian
         /\ TransferEntry(s).to = req[s].to
         /\ TransferEntry(s).loc = req[s].loc
         /\ evidence' \in Evidence
         /\ evidence'.custodian \in Users
  <1> USE DEF IInv
  <1>1. lock = s /\ local[s] = evidence
    BY DEF TransferCommit, LockProtocol, Locked
  <1>2. req[s] \in Request /\ evidence \in Evidence /\ evidence.custodian \in Users /\ clock \in Times
    BY DEF TypeOK
  <1>3. req[s].to \in Users /\ req[s].loc \in Places
    BY <1>2 DEF TransferCommit, TransferAccepted, ActiveUsers, OpenPlaces
  <1>4. TransferEntry(s) \in Entry
    <2>1. (IF req[s].at = NoTime THEN clock ELSE req[s].at) \in Times
      BY <1>2 DEF Request
    <2> QED
      BY <1>1, <1>2, <1>3, <2>1 DEF TransferEntry, Entry, Request, Evidence
  <1>5. v_new_status(req[s].action, local[s].status) \in Statuses
    BY <1>1, <1>2 DEF v_new_status, Statuses, Evidence
  <1>6. evidence' \in Evidence /\ evidence'.custodian \in Users
    BY <1>3, <1>5 DEF TransferCommit, Evidence
  <1> QED
    BY <1>1, <1>4, <1>6 DEF TransferEntry

\* A committed handover preserves the invariant.
LEMMA TransferCommitIInv ==
  ASSUME IInv, NEW s \in Sessions, TransferCommit(s)
  PROVE  IInv'
  <1>1. /\ chain' = Append(chain, TransferEntry(s))
        /\ moves' = Append(moves, Len(chain) + 1)
        /\ evidence'.custodian = TransferEntry(s).to
        /\ evidence'.location = TransferEntry(s).loc
        /\ EndTransaction(s, "idle", NoRequest)
        /\ UNCHANGED <<rights, clock>>
    BY TransferFacts DEF TransferCommit
  <1> QED
    BY <1>1, TransferFacts, CommitIInv

\* What a correction records: the entry it names, with another destination.
LEMMA CorrectionFacts ==
  ASSUME IInv, NEW s \in Sessions, CorrectionCommit(s)
  PROVE  /\ lock = s
         /\ req[s].corrects \in DOMAIN chain
         /\ chain[req[s].corrects].action # "Exported"
         /\ req[s].to \in Users /\ req[s].loc \in Places
         /\ CorrectionEntry(s) \in Entry
         /\ CorrectionEntry(s).to = req[s].to
         /\ CorrectionEntry(s).loc = req[s].loc
         /\ CorrectionEntry(s).corrects # 0
         /\ evidence' \in Evidence
         /\ evidence'.custodian \in Users
  <1> USE DEF IInv
  <1>1. /\ lock = s /\ req[s].corrects \in DOMAIN chain
        /\ chain[req[s].corrects].action # "Exported" /\ req[s].to \in Users
    BY DEF CorrectionCommit, LockProtocol, Locked
  <1>2. req[s] \in Request /\ evidence \in Evidence /\ evidence.custodian \in Users
    BY DEF TypeOK
  <1>3. req[s].loc \in Places
    BY <1>2 DEF Request
  <1>4. chain[req[s].corrects] \in Entry /\ req[s].corrects \in Nat /\ req[s].corrects # 0
    BY <1>1 DEF TypeOK
  <1>5. /\ CorrectionEntry(s) \in Entry /\ CorrectionEntry(s).to = req[s].to
        /\ CorrectionEntry(s).loc = req[s].loc
        /\ CorrectionEntry(s).corrects = req[s].corrects
    BY <1>1, <1>3, <1>4 DEF CorrectionEntry, Entry
  <1>6. evidence' \in Evidence /\ evidence'.custodian \in Users
    <2>1. \/ UNCHANGED evidence
          \/ evidence' = [evidence EXCEPT !.custodian = req[s].to, !.location = req[s].loc]
      BY DEF CorrectionCommit
    <2> QED
      BY <1>1, <1>2, <1>3, <2>1 DEF Evidence
  <1> QED
    BY <1>1, <1>3, <1>4, <1>5, <1>6

\* A committed correction preserves the invariant.
LEMMA CorrectionCommitIInv ==
  ASSUME IInv, NEW s \in Sessions, CorrectionCommit(s)
  PROVE  IInv'
  <1> DEFINE e == CorrectionEntry(s)
  <1>1. /\ chain' = Append(chain, e)
        /\ EndTransaction(s, "idle", NoRequest)
        /\ UNCHANGED <<rights, clock>>
    BY DEF CorrectionCommit
  <1>2. \/ UNCHANGED <<moves, evidence.custodian, evidence.location>>
        \/ /\ moves' = Append(moves, Len(chain) + 1)
           /\ evidence'.custodian = e.to
           /\ evidence'.location = e.loc
    <2>1. \/ UNCHANGED <<evidence, moves>>
          \/ /\ evidence' = [evidence EXCEPT !.custodian = req[s].to, !.location = req[s].loc]
             /\ moves' = Append(moves, Len(chain) + 1)
      BY DEF CorrectionCommit
    <2>2. evidence \in Evidence
      BY DEF IInv, TypeOK
    <2> QED
      BY <2>1, <2>2, CorrectionFacts DEF Evidence
  <1> HIDE DEF e
  <1>3. e \in Entry /\ e.corrects # 0 /\ lock = s /\ evidence' \in Evidence /\ evidence'.custodian \in Users
    BY CorrectionFacts DEF e
  <1> QED
    BY <1>1, <1>2, <1>3, CommitIInv

\* A committed download entry preserves the invariant.
LEMMA ExportCommitIInv ==
  ASSUME IInv, NEW s \in Sessions, ExportCommit(s)
  PROVE  IInv'
  <1> DEFINE e == [action |-> "Exported", from |-> local[s].custodian,
                   to |-> local[s].custodian, loc |-> local[s].location,
                   at |-> clock, corrects |-> 0]
  <1>1. /\ chain' = Append(chain, e)
        /\ EndTransaction(s, "idle", NoRequest)
        /\ UNCHANGED <<evidence, rights, clock, moves>>
    BY DEF ExportCommit
  <1>2. /\ lock = s /\ local[s] = evidence
        /\ evidence \in Evidence /\ evidence.custodian \in Users /\ clock \in Times
    BY DEF ExportCommit, IInv, LockProtocol, Locked, TypeOK
  <1>3. e \in Entry
    BY <1>2 DEF Entry, Evidence, Actions
  <1> HIDE DEF e
  <1> QED
    BY <1>1, <1>2, <1>3, CommitIInv

---------------------------------------------------------------------------
(* The theorems.                                                           *)

\* Every step keeps the inductive invariant.
LEMMA NextIInv == IInv /\ [Next]_vars => IInv'
  <1> SUFFICES ASSUME IInv, [Next]_vars PROVE IInv'
    OBVIOUS
  <1>1. CASE \E s \in Sessions : UserStep(s) \/ LockEvidence(s) \/ ConnectionLost(s)
    BY <1>1, UserStepIInv, LockEvidenceIInv, RollbackIInv
  <1>2. CASE \E s \in Sessions : Finish(s)
    BY <1>2, RollbackIInv, TransferCommitIInv, CorrectionCommitIInv, ExportCommitIInv
       DEF Finish, Transfer
  <1>3. CASE RightsStep
    <2>1. UNCHANGED <<chain, evidence, clock, lock, pc, req, local, moves>>
      BY <1>3, RightsOnly DEF IInv
    <2>2. TypeOK'
      BY <1>3, <2>1, RightsOnly DEF IInv, TypeOK
    <2>3. LockProtocol'
      BY <2>1 DEF IInv, LockProtocol
    <2> QED
      BY <2>1, <2>2, <2>3, QuietStep DEF IInv
  <1>4. CASE Tick
    <2>1. clock' \in Times
      BY <1>4, ConstantsAssumption DEF Tick, IInv, TypeOK, Times
    <2> QED
      BY <1>4, <2>1, QuietStep DEF Tick, rights, IInv, TypeOK, LockProtocol
  <1>5. CASE UNCHANGED vars
    BY <1>5, QuietStep DEF vars, IInv, TypeOK, LockProtocol
  <1> QED
    BY <1>1, <1>2, <1>3, <1>4, <1>5 DEF Next, RightsStep

\* Every state of the system satisfies the inductive invariant.
THEOREM Invariance == Spec => []IInv
  <1> QED
    BY InitIInv, NextIInv, PTL DEF Spec

\* Every variable keeps its type: sp_transfer_evidence, the correction
\* procedure and the download never store a value outside its column's type.
THEOREM TypeCorrect == Spec => []TypeOK
  <1>1. IInv => TypeOK
    BY DEF IInv
  <1> QED
    BY <1>1, Invariance, PTL

\* At most one transaction is past its FOR UPDATE, and what it read is the row.
THEOREM LockWorks == Spec => []LockProtocol
  <1>1. IInv => LockProtocol
    BY DEF IInv
  <1> QED
    BY <1>1, Invariance, PTL

\* The record of who held the item is unbroken, for any number of concurrent
\* requests, users and locations.
THEOREM ChainUnbroken == Spec => []HandoverUnbroken
  <1>1. IInv => HandoverUnbroken
    BY DEF IInv
  <1> QED
    BY <1>1, Invariance, PTL

\* The two copies of the rules agree for every status and action, so the form
\* offers exactly what sp_transfer_evidence accepts.
LEMMA TablesAgree ==
  \A status \in Statuses, action \in Actions :
    /\ action \in ALLOWED_FROM[status] <=> v_allowed(action, status)
    /\ resulting_status(action, status) = v_new_status(action, status)
  <1> SUFFICES ASSUME NEW status \in Statuses, NEW action \in Actions
               PROVE  /\ action \in ALLOWED_FROM[status] <=> v_allowed(action, status)
                      /\ resulting_status(action, status) = v_new_status(action, status)
    OBVIOUS
  <1>1. action \in ALLOWED_FROM[status] <=> v_allowed(action, status)
    BY DEF ALLOWED_FROM, v_allowed, Statuses, Actions, TransferActions
  <1>2. resulting_status(action, status) = v_new_status(action, status)
    BY DEF resulting_status, v_new_status, NEEDS_STORAGE_LOCATION, Actions, TransferActions
  <1> QED
    BY <1>1, <1>2

\* Only a commit changes the log, and it is the commit of the lock's holder.
LEMMA OnlyCommitsWrite ==
  ASSUME IInv, [Next]_vars, chain' # chain \/ evidence' # evidence
  PROVE  \E s \in Sessions : /\ lock = s
                             /\ TransferCommit(s) \/ CorrectionCommit(s) \/ ExportCommit(s)
  <1>1. \E s \in Sessions : TransferCommit(s) \/ CorrectionCommit(s) \/ ExportCommit(s)
    <2>1. ~ UNCHANGED <<chain, evidence>>
      OBVIOUS
    <2>2. ASSUME NEW s \in Sessions, UserStep(s) \/ LockEvidence(s) \/ ConnectionLost(s) \/ TransferRefuse(s)
          PROVE  FALSE
      BY <2>1, <2>2 DEF UserStep, OpenTransferForm, BeginExport, SubmitTransfer, BeginCorrection,
                        LeaveForm, LockEvidence, ConnectionLost, TransferRefuse
    <2>3. ASSUME RightsStep \/ Tick \/ UNCHANGED vars
          PROVE  FALSE
      BY <2>1, <2>3, RightsOnly DEF Tick, vars, IInv
    <2> QED
      BY <2>2, <2>3 DEF Next, Finish, Transfer, RightsStep
  <1> QED
    BY <1>1 DEF TransferCommit, CorrectionCommit, ExportCommit, IInv, LockProtocol, Locked

\* A handover is only ever recorded as coming from the custodian its user was
\* shown, whatever other requests did after the form was opened.
THEOREM ShownCustodian == Spec => HandoverFromShownCustodian
  <1> DEFINE P(s) == pc[s] = "transferring" /\ chain' # chain /\ lock = s
                       => /\ chain'[Len(chain')].from = req[s].expected
                          /\ evidence.custodian = req[s].expected
  <1>1. ASSUME IInv, [Next]_vars
        PROVE  [\A s \in Sessions : P(s)]_vars
    <2> SUFFICES ASSUME NEW s \in Sessions, pc[s] = "transferring", chain' # chain, lock = s
                 PROVE  /\ chain'[Len(chain')].from = req[s].expected
                        /\ evidence.custodian = req[s].expected
      OBVIOUS
    <2>1. TransferCommit(s)
      BY <1>1, OnlyCommitsWrite DEF CorrectionCommit, ExportCommit
    <2>2. evidence.custodian = req[s].expected
      BY <1>1, <2>1, TransferFacts DEF TransferCommit, TransferAccepted
    <2>3. chain' = Append(chain, TransferEntry(s)) /\ chain \in Seq(Entry)
      BY <1>1, <2>1 DEF TransferCommit, IInv, TypeOK
    <2>4. chain'[Len(chain')] = TransferEntry(s)
      BY <1>1, <2>1, <2>3, TransferFacts, AppendFacts
    <2> QED
      BY <1>1, <2>1, <2>2, <2>4, TransferFacts
  <1> QED
    BY <1>1, Invariance, PTL DEF Spec, HandoverFromShownCustodian

\* The requests, locks and transactions implement the ledger: whatever
\* commits is one whole step of it.
THEOREM ImplementsLedger == Spec => LedgerSpec
  <1>1. Init => LedgerInit
    BY DEF Init
  <1>2. ASSUME IInv, [Next]_vars
        PROVE  [LedgerNext]_ledgerVars
    <2> SUFFICES ASSUME chain' # chain \/ evidence' # evidence
                 PROVE  LedgerNext
      BY DEF ledgerVars
    <2>0. PICK s \in Sessions : /\ lock = s
                                /\ TransferCommit(s) \/ CorrectionCommit(s) \/ ExportCommit(s)
      BY <1>2, OnlyCommitsWrite
    <2>1. CASE TransferCommit(s)
      <3> DEFINE a == req[s].action
                 u == req[s].to
                 l == req[s].loc
                 t == IF req[s].at = NoTime THEN clock ELSE req[s].at
      <3>0. /\ local[s] = evidence /\ TransferEntry(s) \in Entry /\ a \in Actions
            /\ evidence.status \in Statuses
        BY <1>2, <2>1, TransferFacts DEF IInv, TypeOK, Request, Evidence
      <3>1. u \in Users /\ l \in Places /\ t \in Times
        BY <3>0 DEF TransferEntry, Entry
      <3>2. v_allowed(a, evidence.status)
        BY <2>1, <3>0 DEF TransferCommit, TransferAccepted
      <3>3. a \in ALLOWED_FROM[evidence.status] /\ a \in TransferActions
        <4>1. a \in ALLOWED_FROM[evidence.status]
          BY <3>0, <3>2, TablesAgree
        <4>2. a # "Collected" /\ a # "Exported"
          BY <3>2 DEF v_allowed
        <4> QED
          BY <3>0, <4>1, <4>2 DEF Actions
      <3>4. resulting_status(a, evidence.status) = v_new_status(a, evidence.status)
        BY <3>0, TablesAgree
      <3>5. resulting_status(a, evidence.status) = "In Storage" => l # NoLocation
        BY <2>1, <3>0, <3>4 DEF TransferCommit, TransferAccepted
      <3>6. chain' = Append(chain, [action |-> a, from |-> evidence.custodian, to |-> u,
                                    loc |-> l, at |-> t, corrects |-> 0])
        BY <2>1, <3>0 DEF TransferCommit, TransferEntry
      <3>7. evidence' = [status |-> resulting_status(a, evidence.status),
                         custodian |-> u, location |-> l]
        BY <2>1, <3>0, <3>4 DEF TransferCommit
      <3>8. Handover(a, u, l, t)
        BY <3>3, <3>5, <3>6, <3>7 DEF Handover
      <3> QED
        BY <3>1, <3>3, <3>8 DEF LedgerNext
    <2>2. CASE CorrectionCommit(s)
      <3> DEFINE k == req[s].corrects
                 u == req[s].to
                 l == req[s].loc
      <3>1. k \in DOMAIN chain /\ u \in Users /\ l \in Places /\ chain[k].action # "Exported"
        BY <1>2, <2>2, CorrectionFacts
      <3>2. /\ chain' = Append(chain, [chain[k] EXCEPT !.to = u, !.loc = l, !.corrects = k])
            /\ \/ UNCHANGED evidence
               \/ evidence' = [evidence EXCEPT !.custodian = u, !.location = l]
        BY <2>2 DEF CorrectionCommit, CorrectionEntry
      <3> QED
        BY <3>1, <3>2 DEF LedgerNext, Correct
    <2>3. CASE ExportCommit(s)
      <3>1. local[s] = evidence /\ clock \in Times
        BY <1>2, <2>0 DEF IInv, LockProtocol, TypeOK
      <3>2. Export(clock)
        BY <2>3, <3>1 DEF ExportCommit, Export
      <3> QED
        BY <3>1, <3>2 DEF LedgerNext
    <2> QED
      BY <2>0, <2>1, <2>2, <2>3
  <1> QED
    BY <1>1, <1>2, Invariance, PTL DEF Spec, LedgerSpec

---------------------------------------------------------------------------
(* Without typed times and corrections the latest entry is the last one.   *)

\* Nobody types a time or corrects; every entry was made at NOW(), so none is
\* later than the last, which says where the item is.
NowInv ==
  /\ IInv
  /\ \A s \in Sessions : req[s].at = NoTime /\ pc[s] \notin {"correct", "correcting"}
  /\ \A j \in DOMAIN chain : chain[j].at <= chain[Len(chain)].at /\ chain[j].at <= clock
  /\ Len(chain) > 0
  /\ evidence.custodian = chain[Len(chain)].to
  /\ evidence.location = chain[Len(chain)].loc
  /\ StoredHasLocation

\* Times are numbers.
LEMMA TimesAreNumbers ==
  ASSUME TypeOK
  PROVE  clock \in Nat /\ \A j \in DOMAIN chain : chain[j].at \in Nat
  <1>1. \A j \in DOMAIN chain : chain[j] \in Entry
    BY DEF TypeOK
  <1>2. \A e \in Entry : e.at \in Nat
    BY DEF Entry, Times
  <1> QED
    BY <1>1, <1>2 DEF TypeOK, Times

\* The registered item satisfies NowInv.
LEMMA InitNowInv == Init => NowInv
  <1> SUFFICES ASSUME Init PROVE NowInv
    OBVIOUS
  <1>0. PICK u \in Users, t \in Times :
        /\ chain = <<Collected(u, t)>>
        /\ evidence = [status |-> "In Transit", custodian |-> u, location |-> NoLocation]
    BY DEF Init, LedgerInit
  <1>1. Len(chain) = 1 /\ DOMAIN chain = {1} /\ chain[1] = Collected(u, t)
    BY <1>0, Singleton
  <1>2. t \in Nat /\ clock \in Nat /\ chain[1].at = t /\ t <= clock
    <2>1. chain[1].at = t
      BY <1>1 DEF Collected
    <2> QED
      BY <2>1 DEF Init, Times
  <1>3. evidence.custodian = chain[1].to /\ evidence.location = chain[1].loc
    BY <1>0, <1>1 DEF Collected
  <1>4. StoredHasLocation
    BY <1>0 DEF StoredHasLocation
  <1>5. \A s \in Sessions : req[s].at = NoTime /\ pc[s] \notin {"correct", "correcting"}
    BY DEF Init, NoRequest
  <1> QED
    BY InitIInv, <1>1, <1>2, <1>3, <1>4, <1>5 DEF NowInv

\* A step that leaves the log and the item alone and keeps the requests plain.
LEMMA QuietNow ==
  ASSUME NowInv, IInv', UNCHANGED <<chain, evidence>>, clock <= clock',
         \A s \in Sessions : req'[s].at = NoTime /\ pc'[s] \notin {"correct", "correcting"}
  PROVE  NowInv'
  <1>1. clock \in Nat /\ clock' \in Nat /\ \A j \in DOMAIN chain : chain[j].at \in Nat
    BY TimesAreNumbers DEF NowInv, IInv, TypeOK, Times
  <1>2. StoredHasLocation'
    BY DEF NowInv, StoredHasLocation
  <1> QED
    BY <1>1, <1>2 DEF NowInv

\* An entry made now, which says where the item is from now on.
LEMMA AppendNow ==
  ASSUME NowInv, IInv', StoredHasLocation', UNCHANGED clock, NEW e \in Entry,
         chain' = Append(chain, e), e.at = clock,
         evidence'.custodian = e.to, evidence'.location = e.loc,
         \A s \in Sessions : req'[s].at = NoTime /\ pc'[s] \notin {"correct", "correcting"}
  PROVE  NowInv'
  <1>1. /\ Len(chain) \in Nat /\ Len(chain') = Len(chain) + 1
        /\ DOMAIN chain = 1 .. Len(chain) /\ DOMAIN chain' = 1 .. Len(chain) + 1
        /\ \A i \in 1 .. Len(chain) : chain'[i] = chain[i]
        /\ chain'[Len(chain) + 1] = e
    BY AppendFacts DEF NowInv, IInv, TypeOK
  <1>2. clock \in Nat /\ \A j \in DOMAIN chain : chain[j].at <= clock
    BY DEF NowInv, IInv, TypeOK, Times
  <1>3. \A j \in DOMAIN chain' : chain'[j].at <= clock
    BY <1>1, <1>2
  <1> QED
    BY <1>1, <1>2, <1>3 DEF NowInv

\* Every step preserves NowInv when no time is typed and nothing is corrected.
LEMMA NextNowInv ==
  ASSUME HandoverTimes = {}, Correctors = {}, NowInv, [Next]_vars
  PROVE  NowInv'
  <1>0. IInv /\ IInv'
    BY NextIInv DEF NowInv
  <1>1. req \in [Sessions -> Request] /\ pc \in [Sessions -> Phases] /\ clock \in Nat
    BY <1>0 DEF IInv, TypeOK, Times
  <1>2. \A s \in Sessions : req[s].at = NoTime /\ pc[s] \notin {"correct", "correcting"}
    BY DEF NowInv
  <1>3. NoRequest.at = NoTime
    BY DEF NoRequest
  <1>4. ASSUME NEW s \in Sessions, UserStep(s)
        PROVE  NowInv'
    <2>1. /\ UNCHANGED <<chain, evidence, clock>>
          /\ \E p \in {"idle", "form", "transfer", "export"} : pc' = [pc EXCEPT ![s] = p]
      BY <1>4 DEF UserStep, OpenTransferForm, BeginExport, SubmitTransfer, BeginCorrection,
                  LeaveForm
    <2>2. \E r : r.at = NoTime /\ req' = [req EXCEPT ![s] = r]
      <3>1. CASE \E u \in Users : OpenTransferForm(s, u)
        <4> PICK u \in Users : OpenTransferForm(s, u)
          BY <3>1
        <4> DEFINE r == [NoRequest EXCEPT !.by = u, !.expected = evidence.custodian,
                                          !.seen = Len(moves)]
        <4>1. r.at = NoTime
          BY DEF NoRequest
        <4> QED
          BY <4>1 DEF OpenTransferForm
      <3>2. CASE \E u \in Users : BeginExport(s, u)
        <4> PICK u \in Users : BeginExport(s, u)
          BY <3>2
        <4> DEFINE r == [NoRequest EXCEPT !.by = u]
        <4>1. r.at = NoTime
          BY DEF NoRequest
        <4> QED
          BY <4>1 DEF BeginExport
      <3>3. CASE \E a \in TransferActions, u \in Users, l \in Places :
                   SubmitTransfer(s, a, u, l, NoTime)
        <4> PICK a \in TransferActions, u \in Users, l \in Places :
                   SubmitTransfer(s, a, u, l, NoTime)
          BY <3>3
        <4> DEFINE r == [req[s] EXCEPT !.action = a, !.to = u, !.loc = l, !.at = NoTime]
        <4>1. r.at = NoTime
          BY <1>1 DEF Request
        <4> QED
          BY <4>1 DEF SubmitTransfer
      <3>4. CASE LeaveForm(s)
        BY <1>3, <3>4 DEF LeaveForm
      <3> QED
        BY <1>4, <3>1, <3>2, <3>3, <3>4 DEF UserStep
    <2>3. \A x \in Sessions : req'[x].at = NoTime /\ pc'[x] \notin {"correct", "correcting"}
      BY <1>1, <1>2, <2>1, <2>2
    <2> QED
      BY <1>0, <1>1, <2>1, <2>3, QuietNow
  <1>5. ASSUME NEW s \in Sessions, LockEvidence(s)
        PROVE  NowInv'
    <2>1. pc' = [pc EXCEPT ![s] = IF pc[s] = "transfer" THEN "transferring"
                                  ELSE IF pc[s] = "correct" THEN "correcting"
                                  ELSE "exporting"]
      BY <1>5 DEF LockEvidence
    <2>2. UNCHANGED <<chain, evidence, clock, req>>
      BY <1>5 DEF LockEvidence
    <2>3. \A x \in Sessions : req'[x].at = NoTime /\ pc'[x] \notin {"correct", "correcting"}
      BY <1>1, <1>2, <2>1, <2>2
    <2> QED
      BY <1>0, <1>1, <2>2, <2>3, QuietNow
  <1>6. ASSUME NEW s \in Sessions, ConnectionLost(s) \/ TransferRefuse(s)
        PROVE  NowInv'
    <2>1. /\ UNCHANGED <<chain, evidence, clock>>
          /\ \E p \in {"idle", "form"} : pc' = [pc EXCEPT ![s] = p]
      BY <1>6 DEF ConnectionLost, TransferRefuse, EndTransaction
    <2>2. \E r : r.at = NoTime /\ req' = [req EXCEPT ![s] = r]
      <3> DEFINE r == [NoRequest EXCEPT !.by = req[s].by, !.expected = req[s].expected,
                                        !.seen = req[s].seen]
      <3>1. r.at = NoTime
        BY DEF NoRequest
      <3>2. req' = [req EXCEPT ![s] = NoRequest] \/ req' = [req EXCEPT ![s] = r]
        BY <1>6 DEF ConnectionLost, TransferRefuse, EndTransaction
      <3> HIDE DEF r
      <3> QED
        BY <1>3, <3>1, <3>2
    <2>3. \A x \in Sessions : req'[x].at = NoTime /\ pc'[x] \notin {"correct", "correcting"}
      BY <1>1, <1>2, <2>1, <2>2
    <2> QED
      BY <1>0, <1>1, <2>1, <2>3, QuietNow
  <1>7. ASSUME NEW s \in Sessions, EndTransaction(s, "idle", NoRequest)
        PROVE  \A x \in Sessions : req'[x].at = NoTime /\ pc'[x] \notin {"correct", "correcting"}
    BY <1>1, <1>2, <1>3, <1>7 DEF EndTransaction
  <1>8. ASSUME NEW s \in Sessions, TransferCommit(s)
        PROVE  NowInv'
    <2>1. /\ chain' = Append(chain, TransferEntry(s)) /\ TransferEntry(s) \in Entry
          /\ TransferEntry(s).at = clock
          /\ evidence'.custodian = TransferEntry(s).to
          /\ evidence'.location = TransferEntry(s).loc
          /\ UNCHANGED clock
      BY <1>0, <1>2, <1>8, TransferFacts DEF TransferCommit, TransferEntry
    <2>2. StoredHasLocation'
      BY <1>8 DEF TransferCommit, TransferAccepted, StoredHasLocation
    <2>3. EndTransaction(s, "idle", NoRequest)
      BY <1>8 DEF TransferCommit
    <2> QED
      BY <1>0, <1>7, <2>1, <2>2, <2>3, AppendNow
  <1>9. ASSUME NEW s \in Sessions, ExportCommit(s)
        PROVE  NowInv'
    <2> DEFINE e == [action |-> "Exported", from |-> local[s].custodian,
                     to |-> local[s].custodian, loc |-> local[s].location,
                     at |-> clock, corrects |-> 0]
    <2>1. /\ chain' = Append(chain, e) /\ EndTransaction(s, "idle", NoRequest)
          /\ UNCHANGED <<evidence, clock>>
      BY <1>9 DEF ExportCommit
    <2>2. /\ local[s] = evidence /\ evidence \in Evidence /\ evidence.custodian \in Users
          /\ clock \in Times
      BY <1>0, <1>9 DEF ExportCommit, IInv, LockProtocol, Locked, TypeOK
    <2>3. /\ e \in Entry /\ e.at = clock
          /\ evidence'.custodian = e.to /\ evidence'.location = e.loc
      BY <2>1, <2>2 DEF Entry, Evidence, Actions
    <2>4. StoredHasLocation'
      BY <2>1 DEF NowInv, StoredHasLocation
    <2> HIDE DEF e
    <2> QED
      BY <1>0, <1>7, <2>1, <2>3, <2>4, AppendNow
  <1>10. CASE RightsStep \/ Tick \/ UNCHANGED vars
    BY <1>0, <1>1, <1>2, <1>10, QuietNow, RightsOnly DEF Tick, vars, IInv
  <1>11. ASSUME NEW s \in Sessions, CorrectionCommit(s)
         PROVE  FALSE
    BY <1>2, <1>11 DEF CorrectionCommit
  <1> QED
    BY <1>4, <1>5, <1>6, <1>8, <1>9, <1>10, <1>11 DEF Next, Finish, Transfer, RightsStep

\* As long as no correction is recorded and nobody types a time, the item is
\* where its latest entry says, and in storage means at a location, for any
\* number of concurrent handovers and downloads.  The runs with corrections
\* and typed times show that both conditions are needed.
THEOREM CurrentIsLatestAtNow ==
  ASSUME HandoverTimes = {}, Correctors = {}
  PROVE  Spec => [](CurrentMatchesLatest /\ StoredHasLocation)
  <1>1. NowInv => CurrentMatchesLatest /\ StoredHasLocation
    <2> SUFFICES ASSUME NowInv, NEW k \in DOMAIN chain, IsLatest(k)
                 PROVE  k = Len(chain)
      BY DEF NowInv, CurrentMatchesLatest
    <2>1. /\ DOMAIN chain = 1 .. Len(chain) /\ Len(chain) \in Nat /\ Len(chain) > 0
          /\ \A j \in DOMAIN chain : chain[j].at \in Nat
      BY TimesAreNumbers DEF NowInv, IInv, TypeOK
    <2>2. chain[k].at <= chain[Len(chain)].at
      BY DEF NowInv
    <2>3. chain[Len(chain)].at < chain[k].at
          \/ (chain[Len(chain)].at = chain[k].at /\ Len(chain) <= k)
      BY <2>1 DEF IsLatest
    <2> QED
      BY <2>1, <2>2, <2>3
  <1>2. NowInv /\ [Next]_vars => NowInv'
    BY NextNowInv
  <1> QED
    BY <1>1, <1>2, InitNowInv, PTL DEF Spec

---------------------------------------------------------------------------
(* What the form let through is refused only for news.                     *)

FormPhases == {"form", "transfer", "transferring"}

\* As long as nothing moved the item since the form was opened, what the form
\* checked still holds of it.
NewsInv ==
  \A s \in Sessions :
    pc[s] \in FormPhases =>
      /\ req[s].seen <= Len(moves)
      /\ req[s].seen = Len(moves) =>
           /\ evidence.custodian = req[s].expected
           /\ pc[s] # "form" =>
                /\ req[s].action \in ALLOWED_FROM[evidence.status]
                /\ req[s].to \in Users
                /\ req[s].action \in NEEDS_STORAGE_LOCATION => req[s].loc # NoLocation

\* A step that moves the item makes every open form old.
LEMMA MovedNews ==
  ASSUME IInv, NewsInv, NEW s \in Sessions, EndTransaction(s, "idle", NoRequest),
         NEW k \in Nat, moves' = Append(moves, k)
  PROVE  NewsInv'
  <1>1. /\ moves \in Seq(Nat) /\ req \in [Sessions -> Request] /\ pc \in [Sessions -> Phases]
    BY DEF IInv, TypeOK
  <1>2. Len(moves) \in Nat /\ Len(moves') = Len(moves) + 1
    BY <1>1
  <1>3. \A x \in Sessions : req[x].seen \in Nat
    BY <1>1 DEF Request
  <1>4. /\ pc' = [pc EXCEPT ![s] = "idle"]
        /\ req' = [req EXCEPT ![s] = NoRequest]
    BY DEF EndTransaction
  <1> SUFFICES ASSUME NEW x \in Sessions, pc'[x] \in FormPhases
               PROVE  req'[x].seen <= Len(moves') /\ req'[x].seen # Len(moves')
    BY DEF NewsInv
  <1>5. x # s /\ pc'[x] = pc[x] /\ req'[x] = req[x]
    BY <1>1, <1>4 DEF FormPhases
  <1>6. req[x].seen <= Len(moves)
    BY <1>5 DEF NewsInv
  <1> QED
    BY <1>2, <1>3, <1>5, <1>6

\* Every step preserves NewsInv.
LEMMA NextNewsInv ==
  ASSUME IInv, NewsInv, [Next]_vars
  PROVE  NewsInv'
  <1>1. /\ moves \in Seq(Nat) /\ req \in [Sessions -> Request] /\ pc \in [Sessions -> Phases]
        /\ Len(moves) \in Nat /\ Len(chain) + 1 \in Nat
    BY DEF IInv, TypeOK
  <1>2. ASSUME NEW s \in Sessions, NEW u \in Users, OpenTransferForm(s, u)
        PROVE  NewsInv'
    <2> DEFINE r == [NoRequest EXCEPT !.by = u, !.expected = evidence.custodian,
                                      !.seen = Len(moves)]
    <2>1. r.seen = Len(moves) /\ r.expected = evidence.custodian
      BY DEF NoRequest
    <2>2. /\ pc' = [pc EXCEPT ![s] = "form"] /\ req' = [req EXCEPT ![s] = r]
          /\ UNCHANGED <<evidence, moves>>
      BY <1>2 DEF OpenTransferForm
    <2> HIDE DEF r
    <2> QED
      BY <1>1, <2>1, <2>2 DEF NewsInv
  <1>3. ASSUME NEW s \in Sessions, NEW a \in TransferActions, NEW u \in Users,
               NEW l \in Places, NEW t \in HandoverTimes \cup {NoTime},
               SubmitTransfer(s, a, u, l, t)
        PROVE  NewsInv'
    <2> DEFINE r == [req[s] EXCEPT !.action = a, !.to = u, !.loc = l, !.at = t]
    <2>1. /\ r.seen = req[s].seen /\ r.expected = req[s].expected /\ r.by = req[s].by
          /\ r.action = a /\ r.to = u /\ r.loc = l
      BY <1>1 DEF Request
    <2>2. /\ pc' = [pc EXCEPT ![s] = "transfer"] /\ req' = [req EXCEPT ![s] = r]
          /\ UNCHANGED <<evidence, moves>>
      BY <1>3 DEF SubmitTransfer
    <2>3. /\ pc[s] = "form"
          /\ a \in ALLOWED_FROM[evidence.status]
          /\ a \in NEEDS_STORAGE_LOCATION => l # NoLocation
      BY <1>3 DEF SubmitTransfer
    <2> HIDE DEF r
    <2> QED
      BY <1>1, <2>1, <2>2, <2>3 DEF NewsInv, FormPhases
  <1>4. ASSUME NEW s \in Sessions, NEW p \in Phases \ FormPhases, NEW r,
               pc' = [pc EXCEPT ![s] = p], req' = [req EXCEPT ![s] = r],
               UNCHANGED <<evidence, moves>>
        PROVE  NewsInv'
    BY <1>1, <1>4 DEF NewsInv
  <1>5. ASSUME NEW s \in Sessions, (\E u \in Users : BeginExport(s, u)) \/ LeaveForm(s)
               \/ (\E u \in Correctors, k \in DOMAIN chain, to \in Users, l \in Places :
                     BeginCorrection(s, u, k, to, l))
               \/ ConnectionLost(s) \/ ExportCommit(s)
        PROVE  NewsInv'
    BY <1>4, <1>5 DEF BeginExport, LeaveForm, BeginCorrection, ConnectionLost, ExportCommit,
                      EndTransaction, Phases, FormPhases, Waiting, Locked
  <1>6. ASSUME NEW s \in Sessions, LockEvidence(s)
        PROVE  NewsInv'
    <2>1. /\ pc' = [pc EXCEPT ![s] = IF pc[s] = "transfer" THEN "transferring"
                                     ELSE IF pc[s] = "correct" THEN "correcting"
                                     ELSE "exporting"]
          /\ UNCHANGED <<evidence, moves, req>>
      BY <1>6 DEF LockEvidence
    <2> QED
      BY <1>1, <2>1 DEF NewsInv, FormPhases
  <1>7. ASSUME NEW s \in Sessions, TransferRefuse(s)
        PROVE  NewsInv'
    <2> DEFINE r == [NoRequest EXCEPT !.by = req[s].by, !.expected = req[s].expected,
                                      !.seen = req[s].seen]
    <2>1. r.seen = req[s].seen /\ r.expected = req[s].expected
      BY DEF NoRequest
    <2>2. /\ pc[s] = "transferring"
          /\ pc' = [pc EXCEPT ![s] = "form"] /\ req' = [req EXCEPT ![s] = r]
          /\ UNCHANGED <<evidence, moves>>
      BY <1>7 DEF TransferRefuse, EndTransaction
    <2> HIDE DEF r
    <2> QED
      BY <1>1, <2>1, <2>2 DEF NewsInv, FormPhases
  <1>8. ASSUME NEW s \in Sessions, TransferCommit(s)
        PROVE  NewsInv'
    BY <1>1, <1>8, MovedNews DEF TransferCommit
  <1>9. ASSUME NEW s \in Sessions, CorrectionCommit(s)
        PROVE  NewsInv'
    <2>1. CASE moves' = Append(moves, Len(chain) + 1)
      BY <1>1, <1>9, <2>1, MovedNews DEF CorrectionCommit
    <2>2. CASE UNCHANGED <<evidence, moves>>
      BY <1>4, <1>9, <2>2 DEF CorrectionCommit, EndTransaction, Phases, FormPhases
    <2> QED
      BY <1>9, <2>1, <2>2 DEF CorrectionCommit
  <1>10. CASE RightsStep \/ Tick \/ UNCHANGED vars
    <2>1. UNCHANGED <<evidence, pc, req, moves>>
      BY <1>10, RightsOnly DEF Tick, vars, IInv
    <2> QED
      BY <2>1 DEF NewsInv
  <1> QED
    BY <1>2, <1>3, <1>5, <1>6, <1>7, <1>8, <1>9, <1>10
       DEF Next, UserStep, Finish, Transfer, RightsStep

\* The procedure refuses what the form let through only because the item moved,
\* somebody or some place was deactivated or the user lost the role or the place
\* on the case meanwhile, or for a transfer of an item in storage without a
\* location: the two copies of the rules agree on everything else.
THEOREM RefusalsAreNews == Spec => []RefusedOnlyForNews
  <1>1. Init => NewsInv
    BY DEF Init, NewsInv, FormPhases
  <1>2. IInv /\ NewsInv /\ [Next]_vars => NewsInv'
    BY NextNewsInv
  <1>3. IInv /\ NewsInv => RefusedOnlyForNews
    <2> SUFFICES ASSUME IInv, NewsInv, NEW s \in Sessions, pc[s] = "transferring",
                        req[s].seen = Len(moves),
                        {req[s].by, req[s].to, req[s].loc} \cap inactive = {},
                        req[s].action \in custody_actions_for(req[s].by),
                        ~ (req[s].action = "Transferred" /\ evidence.status = "In Storage"
                             /\ req[s].loc = NoLocation)
                 PROVE  TransferAccepted(s)
      BY DEF RefusedOnlyForNews
    <2>1. /\ local[s] = evidence /\ evidence.status \in Statuses /\ req[s].loc \in Places
          /\ evidence.custodian = req[s].expected
          /\ req[s].action \in ALLOWED_FROM[evidence.status]
          /\ req[s].to \in Users
          /\ req[s].action \in NEEDS_STORAGE_LOCATION => req[s].loc # NoLocation
          /\ req[s].action \in Actions
      BY DEF IInv, TypeOK, LockProtocol, Locked, NewsInv, FormPhases, Evidence, Request
    <2>2. MayRecord(req[s].by, req[s].action)
      BY <2>1 DEF MayRecord, custody_actions_for
    <2>3. v_allowed(req[s].action, evidence.status)
      BY <2>1, TablesAgree
    <2>4. v_new_status(req[s].action, evidence.status) = "In Storage" => req[s].loc # NoLocation
      BY <2>1, <2>3 DEF v_new_status, v_allowed, NEEDS_STORAGE_LOCATION
    <2> QED
      BY <2>1, <2>2, <2>3, <2>4 DEF TransferAccepted, ActiveUsers, OpenPlaces
  <1> QED
    BY <1>1, <1>2, <1>3, Invariance, PTL DEF Spec


---------------------------------------------------------------------------
(* The history of an item replays.                                         *)

\* What an entry does to the status, and the replay of entries q as a set of
\* equations: f[n] is the status after n entries.  Nothing is said of how many
\* such f there are, so no induction is needed: a replay of a longer history
\* contains one of the shorter history.
Moved(e) == e.action \in TransferActions /\ e.corrects = 0
After(e, status) == IF Moved(e) THEN resulting_status(e.action, status) ELSE status

IsReplay(q, f) ==
  f = [n \in 0 .. Len(q) |-> IF n = 0 THEN "In Transit" ELSE After(q[n], f[n - 1])]

\* Every replay is legal and ends in the item's status.
ReplayInv ==
  /\ \E f : IsReplay(chain, f)
  /\ \A f : IsReplay(chain, f) =>
       /\ \A n \in 1 .. Len(chain) : Moved(chain[n]) => chain[n].action \in ALLOWED_FROM[f[n - 1]]
       /\ evidence.status = f[Len(chain)]

\* 1 .. 1 has one element.
LEMMA One == 1 - 1 = 0 /\ \A n : n \in 1 .. 1 <=> n = 1
  OBVIOUS

\* A replay point by point.
LEMMA ReplayPoints ==
  ASSUME NEW q \in Seq(Entry), NEW f
  PROVE  IsReplay(q, f) <=>
           /\ f = [n \in 0 .. Len(q) |-> f[n]]
           /\ f[0] = "In Transit"
           /\ \A n \in 1 .. Len(q) : f[n] = After(q[n], f[n - 1])
  <1>0. Len(q) \in Nat
    OBVIOUS
  <1>1. ASSUME IsReplay(q, f)
        PROVE  /\ f = [n \in 0 .. Len(q) |-> f[n]]
               /\ f[0] = "In Transit"
               /\ \A n \in 1 .. Len(q) : f[n] = After(q[n], f[n - 1])
    <2>1. \A n \in 0 .. Len(q) : f[n] = IF n = 0 THEN "In Transit" ELSE After(q[n], f[n - 1])
      BY <1>1, Zenon DEF IsReplay
    <2>2. f = [n \in 0 .. Len(q) |-> f[n]]
      BY <1>1, <2>1, Zenon DEF IsReplay
    <2>3. f[0] = "In Transit"
      <3>1. 0 \in 0 .. Len(q)
        BY <1>0
      <3> QED  BY <2>1, <3>1, Zenon
    <2>4. ASSUME NEW n \in 1 .. Len(q) PROVE f[n] = After(q[n], f[n - 1])
      <3>1. n \in 0 .. Len(q) /\ n # 0
        BY <1>0
      <3> QED  BY <2>1, <3>1, Zenon
    <2> QED  BY <2>2, <2>3, <2>4, Zenon
  <1>2. ASSUME f = [n \in 0 .. Len(q) |-> f[n]], f[0] = "In Transit",
               \A n \in 1 .. Len(q) : f[n] = After(q[n], f[n - 1])
        PROVE  IsReplay(q, f)
    <2>1. ASSUME NEW n \in 0 .. Len(q)
          PROVE  f[n] = IF n = 0 THEN "In Transit" ELSE After(q[n], f[n - 1])
      <3>1. n # 0 => n \in 1 .. Len(q)
        BY <1>0
      <3> QED  BY <1>2, <3>1, Zenon
    <2> QED  BY <1>2, <2>1, Zenon DEF IsReplay
  <1> QED
    BY <1>1, <1>2

\* A replay of a history is the beginning of one with an entry more ...
LEMMA ReplayAppend ==
  ASSUME NEW q \in Seq(Entry), NEW e \in Entry, NEW r, r = Append(q, e), NEW f, IsReplay(q, f)
  PROVE  \E g : IsReplay(r, g)
  <1>1. /\ Len(q) \in Nat /\ Len(r) = Len(q) + 1 /\ r \in Seq(Entry)
        /\ \A n \in 1 .. Len(q) : r[n] = q[n]
        /\ r[Len(q) + 1] = e
    BY AppendFacts
  <1>2. /\ f[0] = "In Transit" /\ \A n \in 1 .. Len(q) : f[n] = After(q[n], f[n - 1])
    BY ReplayPoints
  <1>3. PICK g : g = [n \in 0 .. Len(q) + 1 |-> IF n = Len(q) + 1 THEN After(e, f[Len(q)]) ELSE f[n]]
    OBVIOUS
  <1>4. /\ \A n \in 0 .. Len(q) : g[n] = f[n]
        /\ g[Len(q) + 1] = After(e, f[Len(q)])
    BY <1>1, <1>3
  <1>5. g = [n \in 0 .. Len(r) |-> g[n]]
    BY <1>1, <1>3
  <1>6. \A n \in 1 .. Len(r) : g[n] = After(r[n], g[n - 1])
    <2> SUFFICES ASSUME NEW n \in 1 .. Len(q) + 1 PROVE g[n] = After(r[n], g[n - 1])
      BY <1>1
    <2>1. CASE n = Len(q) + 1
      BY <1>1, <1>4, <2>1
    <2>2. CASE n # Len(q) + 1
      <3>1. n \in 1 .. Len(q) /\ n - 1 \in 0 .. Len(q) /\ n \in 0 .. Len(q)
        BY <1>1, <2>2
      <3> QED  BY <1>1, <1>2, <1>4, <3>1
    <2> QED  BY <2>1, <2>2
  <1>7. g[0] = "In Transit"
    <2>1. 0 \in 0 .. Len(q)
      BY <1>1
    <2> QED  BY <1>2, <1>4, <2>1, Zenon
  <1>8. IsReplay(r, g)
    BY <1>1, <1>5, <1>6, <1>7, ReplayPoints, Zenon
  <1> QED  BY <1>8

\* ... and the other way about.
LEMMA ReplayShorten ==
  ASSUME NEW q \in Seq(Entry), NEW e \in Entry, NEW r, r = Append(q, e), NEW g, IsReplay(r, g)
  PROVE  /\ g[Len(q) + 1] = After(e, g[Len(q)])
         /\ \A f : f = [n \in 0 .. Len(q) |-> g[n]] => IsReplay(q, f)
  <1>1. /\ Len(q) \in Nat /\ Len(r) = Len(q) + 1 /\ r \in Seq(Entry)
        /\ \A n \in 1 .. Len(q) : r[n] = q[n]
        /\ r[Len(q) + 1] = e
    BY AppendFacts
  <1>2. /\ g[0] = "In Transit"
        /\ \A n \in 1 .. Len(q) + 1 : g[n] = After(r[n], g[n - 1])
    <2>1. /\ g[0] = "In Transit"
          /\ \A n \in 1 .. Len(r) : g[n] = After(r[n], g[n - 1])
      BY <1>1, ReplayPoints, Zenon
    <2> QED  BY <1>1, <2>1
  <1>3. SUFFICES ASSUME NEW f, f = [n \in 0 .. Len(q) |-> g[n]]
                PROVE  g[Len(q) + 1] = After(e, g[Len(q)]) /\ IsReplay(q, f)
    BY Zenon
  <1>4. \A n \in 0 .. Len(q) : f[n] = g[n]
    BY <1>3
  <1>5. f = [n \in 0 .. Len(q) |-> f[n]] /\ f[0] = "In Transit"
    <2>1. 0 \in 0 .. Len(q)
      BY <1>1
    <2>2. f = [n \in 0 .. Len(q) |-> f[n]]
      BY <1>3, <1>4, Zenon
    <2> QED  BY <1>2, <1>4, <2>1, <2>2, Zenon
  <1>6. \A n \in 1 .. Len(q) : f[n] = After(q[n], f[n - 1])
    <2> SUFFICES ASSUME NEW n \in 1 .. Len(q) PROVE f[n] = After(q[n], f[n - 1])
      OBVIOUS
    <2>1. n \in 0 .. Len(q) /\ n - 1 \in 0 .. Len(q) /\ n \in 1 .. Len(q) + 1
      BY <1>1
    <2> QED  BY <1>1, <1>2, <1>4, <2>1
  <1>7. Len(q) + 1 \in 1 .. Len(q) + 1 /\ (Len(q) + 1) - 1 = Len(q)
    BY <1>1
  <1>8. g[Len(q) + 1] = After(e, g[Len(q)])
    BY <1>1, <1>2, <1>7
  <1>9. IsReplay(q, f)
    BY <1>5, <1>6, ReplayPoints, Zenon
  <1> QED  BY <1>8, <1>9

\* A step of the ledger keeps every replay legal.
LEMMA ReplayStep ==
  ASSUME IInv, IInv', ReplayInv, [LedgerNext]_ledgerVars
  PROVE  ReplayInv'
  <1>1. chain \in Seq(Entry) /\ evidence.status \in Statuses
    BY DEF IInv, TypeOK, Evidence
  <1>2. CASE UNCHANGED <<chain, evidence>>
    BY <1>2 DEF ReplayInv
  <1>3. ASSUME NEW e \in Entry, chain' = Append(chain, e),
               evidence'.status = After(e, evidence.status),
               Moved(e) => e.action \in ALLOWED_FROM[evidence.status]
        PROVE  ReplayInv'
    <2>1. \E f : IsReplay(chain', f)
      <3>1. PICK f : IsReplay(chain, f)
        BY DEF ReplayInv
      <3> QED  BY <1>1, <1>3, <3>1, ReplayAppend
    <2>2. ASSUME NEW g, IsReplay(chain', g)
          PROVE  /\ \A n \in 1 .. Len(chain') :
                      Moved(chain'[n]) => chain'[n].action \in ALLOWED_FROM[g[n - 1]]
                 /\ evidence'.status = g[Len(chain')]
      <3>1. PICK f : IsReplay(chain, f) /\ \A n \in 0 .. Len(chain) : f[n] = g[n]
        <4>1. PICK f : f = [n \in 0 .. Len(chain) |-> g[n]]
          OBVIOUS
        <4>2. IsReplay(chain, f)
          BY <1>1, <1>3, <2>2, <4>1, ReplayShorten
        <4> QED  BY <4>1, <4>2, Zenon
      <3>2. g[Len(chain) + 1] = After(e, g[Len(chain)])
        BY <1>1, <1>3, <2>2, ReplayShorten
      <3>3. /\ \A n \in 1 .. Len(chain) :
                 Moved(chain[n]) => chain[n].action \in ALLOWED_FROM[f[n - 1]]
            /\ evidence.status = f[Len(chain)]
        BY <3>1 DEF ReplayInv
      <3>4. /\ Len(chain) \in Nat /\ Len(chain') = Len(chain) + 1
            /\ \A n \in 1 .. Len(chain) : chain'[n] = chain[n]
            /\ chain'[Len(chain) + 1] = e
        BY <1>1, <1>3, AppendFacts
      <3>5. evidence.status = g[Len(chain)]
        BY <3>1, <3>3, <3>4
      <3>6. evidence'.status = g[Len(chain')]
        BY <1>3, <3>2, <3>4, <3>5
      <3>7. ASSUME NEW n \in 1 .. Len(chain'), Moved(chain'[n])
            PROVE  chain'[n].action \in ALLOWED_FROM[g[n - 1]]
        <4>1. CASE n = Len(chain) + 1
          BY <1>3, <3>4, <3>5, <3>7, <4>1
        <4>2. CASE n # Len(chain) + 1
          <5>1. n \in 1 .. Len(chain) /\ n - 1 \in 0 .. Len(chain)
            BY <3>4, <4>2
          <5> QED  BY <3>1, <3>3, <3>4, <3>7, <5>1
        <4> QED  BY <4>1, <4>2
      <3> QED  BY <3>6, <3>7
    <2> QED  BY <2>1, <2>2 DEF ReplayInv
  <1>4. ASSUME NEW e, chain' = Append(chain, e)
        PROVE  e \in Entry
    <2>1. chain' \in Seq(Entry) /\ Len(chain') = Len(chain) + 1 /\ chain'[Len(chain) + 1] = e
      BY <1>1, <1>4 DEF IInv, TypeOK
    <2> QED  BY <1>1, <2>1
  <1>5. ASSUME NEW a \in TransferActions, NEW u \in Users, NEW l \in Places, NEW t \in Times,
               Handover(a, u, l, t)
        PROVE  ReplayInv'
    <2>1. PICK e : e = [action |-> a, from |-> evidence.custodian, to |-> u,
                        loc |-> l, at |-> t, corrects |-> 0]
      OBVIOUS
    <2>2. e.action = a /\ e.corrects = 0 /\ chain' = Append(chain, e)
      BY <1>5, <2>1 DEF Handover
    <2>3. evidence'.status = resulting_status(a, evidence.status)
      BY <1>5 DEF Handover
    <2>4. e \in Entry
      BY <1>4, <2>2
    <2> QED  BY <1>3, <1>5, <2>2, <2>3, <2>4 DEF Handover, After, Moved
  <1>6. ASSUME NEW t \in Times, Export(t)
        PROVE  ReplayInv'
    <2>1. PICK e : e = [action |-> "Exported", from |-> evidence.custodian,
                        to |-> evidence.custodian, loc |-> evidence.location,
                        at |-> t, corrects |-> 0]
      OBVIOUS
    <2>2. e.action = "Exported" /\ chain' = Append(chain, e) /\ evidence' = evidence
      BY <1>6, <2>1 DEF Export
    <2>3. e \in Entry /\ ~ Moved(e)
      BY <1>4, <2>2 DEF Moved, TransferActions
    <2> QED  BY <1>3, <2>2, <2>3 DEF After
  <1>7. ASSUME NEW k \in DOMAIN chain, NEW u \in Users, NEW l \in Places, Correct(k, u, l)
        PROVE  ReplayInv'
    <2>1. PICK e : e = [chain[k] EXCEPT !.to = u, !.loc = l, !.corrects = k]
      OBVIOUS
    <2>2. chain' = Append(chain, e) /\ evidence'.status = evidence.status
      <3>1. evidence \in Evidence
        BY DEF IInv, TypeOK
      <3> QED  BY <1>7, <2>1, <3>1 DEF Correct, Evidence
    <2>3. e \in Entry /\ chain[k] \in Entry /\ k # 0
      BY <1>1, <1>4, <2>2
    <2>4. e.corrects = k
      BY <2>1, <2>3 DEF Entry
    <2> QED  BY <1>3, <2>2, <2>3, <2>4 DEF After, Moved
  <1> QED
    BY <1>2, <1>5, <1>6, <1>7 DEF LedgerNext, ledgerVars

\* The recorded history replays, however requests interleave: every handover
\* was allowed at its place in the chain, and the handovers lead to the item's
\* status.  It follows from the ledger's steps, which Custody implements.
THEOREM HistoryReplays == Spec => []LifecycleReplays
  <1>1. LedgerInit => ReplayInv
    <2> SUFFICES ASSUME LedgerInit PROVE ReplayInv
      OBVIOUS
    <2>1. PICK u \in Users, t \in Times :
            /\ chain = <<Collected(u, t)>>
            /\ evidence = [status |-> "In Transit", custodian |-> u, location |-> NoLocation]
      BY DEF LedgerInit
    <2>2. Len(chain) = 1 /\ chain[1] = Collected(u, t) /\ evidence.status = "In Transit"
      BY <2>1
    <2>3. ~ Moved(chain[1])
      <3>1. PICK e : e = Collected(u, t)
        OBVIOUS
      <3>2. e.action = "Collected"
        BY <3>1 DEF Collected
      <3>3. ~ Moved(e)
        BY <3>2 DEF Moved, TransferActions
      <3> QED  BY <2>2, <3>1, <3>3, Zenon
    <2>4. chain \in Seq(Entry)
      <3>1. Collected(u, t) \in Entry
        BY DEF Collected, Entry, Actions, Places
      <3> QED  BY <2>1, <3>1, Singleton, Zenon
    <2>5. \E f : IsReplay(chain, f)
      <3>1. PICK f : f = [n \in 0 .. 1 |-> "In Transit"]
        OBVIOUS
      <3>2. f[0] = "In Transit" /\ f[1] = "In Transit"
        <4>1. 0 \in 0 .. 1 /\ 1 \in 0 .. 1
          OBVIOUS
        <4> QED  BY <3>1, <4>1, Zenon
      <3>3. f = [n \in 0 .. 1 |-> f[n]]
        BY <3>1, Zenon
      <3>4. \A n \in 1 .. 1 : f[n] = After(chain[n], f[n - 1])
        BY <2>3, <3>2, One DEF After
      <3>5. IsReplay(chain, f)
        BY <2>2, <2>4, <3>2, <3>3, <3>4, ReplayPoints, Zenon
      <3> QED  BY <3>5
    <2>6. \A f : IsReplay(chain, f) => f[0] = "In Transit" /\ f[1] = "In Transit"
      <3> SUFFICES ASSUME NEW f, IsReplay(chain, f) PROVE f[0] = "In Transit" /\ f[1] = "In Transit"
        OBVIOUS
      <3>1. f[0] = "In Transit" /\ \A n \in 1 .. 1 : f[n] = After(chain[n], f[n - 1])
        BY <2>2, <2>4, ReplayPoints, Zenon
      <3> QED  BY <2>3, <3>1, One, Zenon DEF After
    <2>7. \A n \in 1 .. Len(chain) : ~ Moved(chain[n])
      BY <2>2, <2>3, One, Zenon
    <2> QED  BY <2>2, <2>5, <2>6, <2>7, Zenon DEF ReplayInv
  <1>2. IInv /\ IInv' /\ ReplayInv /\ [LedgerNext]_ledgerVars => ReplayInv'
    BY ReplayStep
  <1>3. IInv /\ ReplayInv => LifecycleReplays
    <2> SUFFICES ASSUME IInv, ReplayInv PROVE LifecycleReplays
      OBVIOUS
    <2>1. IsReplay(chain, Replayed)
      <3>1. Replayed = CHOOSE f : IsReplay(chain, f)
        BY Zenon DEF Replayed, IsReplay, After, Moved, IsHandover
      <3> QED  BY <3>1, Zenon DEF ReplayInv
    <2>2. DOMAIN chain = 1 .. Len(chain)
      BY DEF IInv, TypeOK
    <2> QED  BY <2>1, <2>2 DEF ReplayInv, LifecycleReplays, IsHandover, Moved
  <1> QED
    BY <1>1, <1>2, <1>3, Invariance, ImplementsLedger, PTL DEF LedgerSpec

\* An item in storage has a storage location, as long as nobody corrects an
\* entry or types a time: a correction does not ask for one.
THEOREM StoredMeansPlaced ==
  ASSUME HandoverTimes = {}, Correctors = {}
  PROVE  Spec => []StoredHasLocation
  <1>1. CurrentMatchesLatest /\ StoredHasLocation => StoredHasLocation
    OBVIOUS
  <1> QED
    BY <1>1, CurrentIsLatestAtNow, PTL

=============================================================================
