---------------------- MODULE OneTimeCredentialsProofs ----------------------
(***************************************************************************)
(* Proofs about OneTimeCredentials: the types, that a credential answered  *)
(* for good is never used again, that the claimed kinds implement the      *)
(* abstract single-use credential, and the two bounds on what races can    *)
(* leave behind, for any number of requests, users and credentials.        *)
(*                                                                         *)
(* The proofs first describe a step by what it does to each row and to the *)
(* one request that takes it (RowFacts, ReqFacts); everything else follows *)
(* from that description.                                                  *)
(***************************************************************************)
EXTENDS OneTimeCredentials, FiniteSetTheorems, TLAPS

RowType == [kind : Kinds, user : Users \cup {NoUser},
            status : {"none", "live", "done", "cancelled", "expired", "denied", "deleted"},
            createdAt : Nat, expiresAt : Nat, approvedBy : Users \cup {NoUser},
            polledAt : Nat, interval : Nat]

Holding == {"apply", "restore"}

-----------------------------------------------------------------------------
(* The inductive invariant. *)

(* A row: ids are handed out in order, a settled row is not live, only the  *)
(* statements of its own kind change its status, and a claimed kind is used *)
(* at most once and never while its row is there.                           *)
RowInv(i) ==
    /\ row[i].status = "none" <=> i > nRow
    /\ row[i].status = "none" => uses[i] = 0
    /\ i \in closed => row[i].status \notin {"none", "live"}
    /\ row[i].kind \in Tokens \cup {"consent"} => row[i].status \in {"none", "live", "deleted"}
    /\ row[i].kind = "device" => row[i].status \in {"none", "live", "denied", "deleted"}
    /\ row[i].kind \in Claimed => uses[i] <= 1 /\ (row[i].status # "deleted" => uses[i] = 0)

\* A request works on a row that exists and is of the kind its handler serves.
ReqInv(x) ==
    /\ x.pc \in {"create", "cancel"} => x.user \in Users /\ x.kind \in Tokens \cup {"magic"}
    /\ x.pc = "cancel" => x.kind = "magic"
    /\ x.pc \notin {"idle", "create", "cancel"} => x.id \in Rows /\ row[x.id].status # "none"
    /\ x.pc \in {"change", "change_end"} => row[x.id].kind = "change"
    /\ x.pc \in {"expire", "complete"} => row[x.id].kind = "magic"
    /\ x.pc \in {"approve", "deny", "slow", "polled"} => row[x.id].kind = "device"
    /\ x.pc = "accept" => row[x.id].kind = "invite"
    /\ x.pc \in {"claim", "apply", "restore"} => row[x.id].kind \in Claimed
    /\ x.late => x.pc \notin {"claim", "apply", "restore", "change", "change_end",
                              "polled", "complete", "accept"}

(* A request between its DELETE and the effect: the row is gone, nobody has *)
(* used it, and no other request is there with it.                          *)
HoldInv ==
    /\ \A r \in Reqs : req[r].pc \in Holding =>
         row[req[r].id].status = "deleted" /\ uses[req[r].id] = 0
    /\ \A r, q \in Reqs :
         req[r].pc \in Holding /\ req[q].pc \in Holding /\ req[r].id = req[q].id => r = q

Inv ==
    /\ TypeOK
    /\ \A i \in Rows : RowInv(i)
    /\ \A r \in Reqs : ReqInv(req[r])
    /\ HoldInv

-----------------------------------------------------------------------------
(* What a step does to a row. *)

\* nothing that matters; the matter may be closed when it is settled anyway
Kept(i) ==
    /\ row'[i].kind = row[i].kind /\ row'[i].status = row[i].status
    /\ row'[i].user = row[i].user /\ row'[i].createdAt = row[i].createdAt
    /\ i \in closed' => i \in closed \/ row[i].status \notin {"none", "live"}

Born(i) ==
    /\ i = nRow + 1 /\ nRow' = nRow + 1
    /\ row'[i].status = "live" /\ row'[i].createdAt = now
    /\ closed' = closed

Died(i) ==
    /\ row[i].status # "none"
    /\ row'[i].kind = row[i].kind /\ row'[i].status = "deleted" /\ row'[i].user = NoUser

\* a statement of the row's own kind sets its status
Marked(i) ==
    /\ row[i].status # "none"
    /\ row'[i].kind = row[i].kind /\ row'[i].user = row[i].user
    /\ row'[i].createdAt = row[i].createdAt
    /\ \/ row[i].kind = "magic" /\ row'[i].status \in {"cancelled", "expired", "done"}
       \/ row[i].kind = "invite" /\ row'[i].status = "done"
       \/ row[i].kind = "device" /\ Present(i) /\ row'[i].status = "denied"

RowMove(i) == Kept(i) \/ Born(i) \/ Died(i) \/ Marked(i)

RowFacts ==
    /\ row' \in [Rows -> RowType] /\ nRow' \in 0..NRows /\ closed' \in SUBSET Rows
    /\ \A i \in Rows : RowMove(i)
    /\ nRow' = nRow \/ (nRow + 1 \in Rows /\ Born(nRow + 1))

\* What a step does to the request that takes it, and to the use counts.
ReqFacts(r) ==
    \E y \in ReqType :
        /\ req' = [req EXCEPT ![r] = y] /\ ReqInv(y)
        /\ y.pc \in Holding =>
             /\ req[r].pc = "claim" /\ y.id = req[r].id
             /\ Present(y.id) /\ row'[y.id].status = "deleted" /\ uses' = uses
        /\ \/ uses' = uses
           \/ /\ req[r].pc \in {"apply", "restore", "change", "complete", "accept"}
              /\ CountUse(req[r].id)

-----------------------------------------------------------------------------
(* Rows under the statements. *)

\* The types the steps below keep asking for, in one place.
LEMMA TypeFacts ==
    ASSUME Inv
    PROVE  /\ row \in [Rows -> RowType] /\ req \in [Reqs -> ReqType]
           /\ uses \in [Rows -> 0..MaxUses] /\ closed \in SUBSET Rows
           /\ now \in Nat /\ nRow \in 0..NRows /\ NRows \in Nat /\ TTL \in Nat
           /\ PollInterval \in Nat
  BY OneTimeAssumption DEF Inv, TypeOK, RowType

\* A statement that touches no row, or only columns of a device code.
LEMMA RowsKept ==
    ASSUME Inv, UNCHANGED <<nRow, closed>>, row' \in [Rows -> RowType],
           \A i \in Rows : /\ row'[i].kind = row[i].kind /\ row'[i].status = row[i].status
                           /\ row'[i].user = row[i].user
                           /\ row'[i].createdAt = row[i].createdAt
    PROVE  RowFacts
  BY TypeFacts DEF RowFacts, RowMove, Kept

\* A step that leaves the rows alone is a legal step of every row.
LEMMA RowsSame ==
    ASSUME Inv, UNCHANGED <<row, nRow, closed>>
    PROVE  RowFacts
  BY TypeFacts, RowsKept

\* What is left of a deleted row.
LEMMA GoneFacts ==
    ASSUME Inv, NEW i \in Rows
    PROVE  /\ Gone(i) \in RowType /\ Gone(i).kind = row[i].kind
           /\ Gone(i).status = "deleted" /\ Gone(i).user = NoUser
  <1>1. row[i] \in RowType /\ PollInterval \in Nat
    BY TypeFacts
  <1> QED
    BY <1>1 DEF Gone, NoRow, RowType, None

\* deleteMany and delete
LEMMA RowsDelete ==
    ASSUME Inv, NEW S \in SUBSET Rows, DeleteRows(S), UNCHANGED nRow,
           \A i \in S : row[i].status # "none",
           closed' \in SUBSET Rows,
           \A i \in closed' : i \in closed \/ i \in S \/ row[i].status \notin {"none", "live"}
    PROVE  RowFacts
  <1>0. row \in [Rows -> RowType] /\ nRow \in 0..NRows
    BY TypeFacts
  <1>1. \A i \in Rows : row'[i] = IF i \in S THEN Gone(i) ELSE row[i]
    BY DEF DeleteRows
  <1>2. row' \in [Rows -> RowType]
    <2>1. row' = [i \in Rows |-> IF i \in S THEN Gone(i) ELSE row[i]]
      BY DEF DeleteRows
    <2>2. \A i \in Rows : Gone(i) \in RowType
      BY GoneFacts
    <2> QED
      BY <1>0, <2>1, <2>2
  <1>3. ASSUME NEW i \in Rows PROVE RowMove(i)
    <2>1. CASE i \in S
      <3>1. row'[i] = Gone(i)
        BY <1>1, <2>1
      <3> QED
        BY <2>1, <3>1, GoneFacts DEF RowMove, Died
    <2>2. CASE i \notin S
      <3>1. row'[i] = row[i]
        BY <1>1, <2>2
      <3> QED
        BY <2>2, <3>1 DEF RowMove, Kept
    <2> QED
      BY <2>1, <2>2
  <1> QED
    BY <1>0, <1>2, <1>3 DEF RowFacts

\* create
LEMMA RowsCreate ==
    ASSUME Inv, NEW k \in Kinds, NEW u \in Users \cup {NoUser}, CreateRow(k, u),
           UNCHANGED closed
    PROVE  /\ RowFacts /\ nRow + 1 \in Rows
           /\ row'[nRow + 1].kind = k /\ row'[nRow + 1].user = u
           /\ \A i \in Rows : i # nRow + 1 => row'[i] = row[i]
  <1> DEFINE x == [NoRow EXCEPT !.kind = k, !.user = u, !.status = "live",
                                !.createdAt = now, !.expiresAt = now + TTL]
  <1>0. /\ row \in [Rows -> RowType] /\ nRow \in 0..NRows /\ now \in Nat /\ now + TTL \in Nat
        /\ PollInterval \in Nat /\ closed \in SUBSET Rows /\ NRows \in Nat
    BY TypeFacts
  <1>1. nRow + 1 \in Rows /\ nRow' = nRow + 1 /\ nRow' \in 0..NRows
    BY <1>0 DEF CreateRow, Rows
  <1>2. x \in RowType
    BY <1>0 DEF NoRow, RowType, None
  <1>3. x.kind = k /\ x.user = u /\ x.status = "live" /\ x.createdAt = now
    BY DEF NoRow
  <1>4. row' = [row EXCEPT ![nRow + 1] = x]
    BY DEF CreateRow
  <1> HIDE DEF x
  <1>5. row'[nRow + 1] = x /\ \A i \in Rows : i # nRow + 1 => row'[i] = row[i]
    BY <1>0, <1>1, <1>4
  <1>6. row' \in [Rows -> RowType]
    BY <1>0, <1>2, <1>4
  <1>7. Born(nRow + 1)
    BY <1>1, <1>3, <1>5 DEF Born
  <1>8. ASSUME NEW i \in Rows PROVE RowMove(i)
    BY <1>5, <1>7 DEF RowMove, Kept
  <1> QED
    BY <1>0, <1>1, <1>3, <1>5, <1>6, <1>7, <1>8 DEF RowFacts

\* An update of the status column of some rows of a kind that allows it.
LEMMA RowsMark ==
    ASSUME Inv, NEW S \in SUBSET Rows, UNCHANGED nRow,
           NEW s \in {"cancelled", "expired", "done", "denied"},
           row' \in [Rows -> RowType],
           \A i \in Rows : row'[i] = IF i \in S THEN [row[i] EXCEPT !.status = s] ELSE row[i],
           \A i \in S : /\ row[i].status # "none"
                        /\ \/ row[i].kind = "magic" /\ s # "denied"
                           \/ row[i].kind = "invite" /\ s = "done"
                           \/ row[i].kind = "device" /\ Present(i) /\ s = "denied",
           closed' \in SUBSET Rows,
           \A i \in closed' : i \in closed \/ i \in S \/ row[i].status \notin {"none", "live"}
    PROVE  RowFacts
  <1>0. row \in [Rows -> RowType] /\ nRow \in 0..NRows
    BY TypeFacts
  <1>1. \A i \in Rows : LET z == [row[i] EXCEPT !.status = s] IN
          /\ z.kind = row[i].kind /\ z.user = row[i].user /\ z.createdAt = row[i].createdAt
          /\ z.status = s
    BY <1>0 DEF RowType
  <1>2. ASSUME NEW i \in S PROVE Marked(i)
    BY <1>1, <1>2 DEF Marked
  <1>3. ASSUME NEW i \in Rows, i \notin S PROVE Kept(i)
    BY <1>3 DEF Kept
  <1> QED
    BY <1>0, <1>2, <1>3 DEF RowFacts, RowMove

\* A row whose status alone changes stays typed.
LEMMA StatusTyped ==
    ASSUME Inv, NEW i \in Rows, NEW s \in {"cancelled", "expired", "done", "denied"}
    PROVE  [row[i] EXCEPT !.status = s] \in RowType
  <1>1. row[i] \in RowType
    BY TypeFacts
  <1> QED
    BY <1>1 DEF RowType

\* update by id of the status column
LEMMA RowsMarkOne ==
    ASSUME Inv, NEW j \in Rows, UNCHANGED nRow,
           NEW s \in {"cancelled", "expired", "done", "denied"},
           row' = [row EXCEPT ![j].status = s],
           row[j].status # "none",
           \/ row[j].kind = "magic" /\ s # "denied"
           \/ row[j].kind = "invite" /\ s = "done"
           \/ row[j].kind = "device" /\ Present(j) /\ s = "denied",
           closed' = closed \/ closed' = closed \cup {j}
    PROVE  RowFacts
  <1>0. row \in [Rows -> RowType] /\ closed \in SUBSET Rows
    BY TypeFacts
  <1>1. [row[j] EXCEPT !.status = s] \in RowType
    BY StatusTyped
  <1>2. row' \in [Rows -> RowType]
    BY <1>0, <1>1
  <1> DEFINE S == {j}
  <1>3. \A i \in Rows : row'[i] = IF i \in S THEN [row[i] EXCEPT !.status = s] ELSE row[i]
    BY <1>0
  <1>4. S \in SUBSET Rows /\ closed' \in SUBSET Rows
    BY <1>0
  <1>5. \A i \in closed' : i \in closed \/ i \in S
    OBVIOUS
  <1>6. \A i \in S : /\ row[i].status # "none"
                     /\ \/ row[i].kind = "magic" /\ s # "denied"
                        \/ row[i].kind = "invite" /\ s = "done"
                        \/ row[i].kind = "device" /\ Present(i) /\ s = "denied"
    OBVIOUS
  <1> HIDE DEF S
  <1> QED
    BY <1>2, <1>3, <1>4, <1>5, <1>6, RowsMark

-----------------------------------------------------------------------------
(* The invariant from the description of a step. *)

\* Every use counted belongs to a request at the statement with the effect.
UseFacts ==
    \/ uses' = uses
    \/ \E r \in Reqs : /\ req[r].pc \in {"apply", "restore", "change", "complete", "accept"}
                       /\ CountUse(req[r].id)

\* A claimed credential is counted only by the request that holds it, once.
LEMMA UsesMove ==
    ASSUME Inv, UseFacts
    PROVE  /\ uses' \in [Rows -> 0..MaxUses]
           /\ \A i \in Rows : row[i].status = "none" => uses'[i] = uses[i]
           /\ \A i \in Rows : row[i].kind \in Claimed /\ uses'[i] # uses[i] =>
                /\ uses[i] = 0 /\ uses'[i] = 1 /\ row[i].status = "deleted"
                /\ \E r \in Reqs : req[r].pc \in Holding /\ req[r].id = i
  <1>0. uses \in [Rows -> 0..MaxUses]
    BY TypeFacts
  <1>1. CASE uses' = uses
    BY <1>0, <1>1
  <1>2. ASSUME NEW r \in Reqs, CountUse(req[r].id),
               req[r].pc \in {"apply", "restore", "change", "complete", "accept"}
        PROVE  /\ uses' \in [Rows -> 0..MaxUses]
               /\ \A i \in Rows : row[i].status = "none" => uses'[i] = uses[i]
               /\ \A i \in Rows : row[i].kind \in Claimed /\ uses'[i] # uses[i] =>
                    /\ uses[i] = 0 /\ uses'[i] = 1 /\ row[i].status = "deleted"
                    /\ \E q \in Reqs : req[q].pc \in Holding /\ req[q].id = i
    <2> DEFINE j == req[r].id
               n == IF uses[j] < MaxUses THEN uses[j] + 1 ELSE uses[j]
    <2>1. ReqInv(req[r])
      BY DEF Inv
    <2>2. j \in Rows /\ row[j].status # "none"
      BY <1>2, <2>1 DEF ReqInv
    <2>3. uses[j] \in 0..2 /\ n \in 0..2 /\ (uses[j] = 0 => n = 1)
      <3>1. uses[j] \in 0..2
        BY <1>0, <2>2 DEF MaxUses
      <3> HIDE DEF j
      <3> QED
        BY <3>1 DEF MaxUses
    <2>4. uses' = [uses EXCEPT ![j] = n]
      BY <1>2 DEF CountUse
    <2>5. row[j].kind \in Claimed => req[r].pc \in Holding
      BY <1>2, <2>1 DEF ReqInv, Holding, Claimed
    <2>6. req[r].pc \in Holding => row[j].status = "deleted" /\ uses[j] = 0
      BY DEF Inv, HoldInv
    <2>7. req[r].id = j
      OBVIOUS
    <2> HIDE DEF j, n
    <2>8. \A i \in Rows : i # j => uses'[i] = uses[i]
      BY <1>0, <2>4
    <2>9. uses'[j] = n
      BY <1>0, <2>2, <2>4
    <2>10. uses' \in [Rows -> 0..MaxUses]
      BY <1>0, <2>3, <2>4 DEF MaxUses
    <2> QED
      BY <2>2, <2>3, <2>5, <2>6, <2>7, <2>8, <2>9, <2>10
  <1> QED
    BY <1>1, <1>2 DEF UseFacts

\* Legal steps of the rows and of their uses keep each row's invariant.
LEMMA RowInvKept ==
    ASSUME Inv, RowFacts, UseFacts, NEW i \in Rows
    PROVE  RowInv(i)'
  <1>0. /\ nRow \in 0..NRows /\ i \in Nat /\ RowInv(i) /\ RowMove(i) /\ row'[i] \in RowType
        /\ nRow' = nRow \/ (nRow' = nRow + 1 /\ Born(nRow + 1))
        /\ uses'[i] \in 0..MaxUses /\ uses[i] \in 0..MaxUses
    BY TypeFacts, UsesMove DEF Inv, RowFacts, Rows, Born
  <1>1. /\ row[i].status = "none" => uses'[i] = uses[i]
        /\ row[i].kind \in Claimed /\ uses'[i] # uses[i] =>
             uses[i] = 0 /\ uses'[i] = 1 /\ row[i].status = "deleted"
    BY UsesMove
  <1>2. CASE Kept(i) /\ i # nRow + 1
    BY <1>0, <1>1, <1>2 DEF RowInv, Kept
  <1>3. CASE Kept(i) /\ i = nRow + 1
    <2>1. row[i].status = "none"
      BY <1>0, <1>3 DEF RowInv
    <2>2. nRow' = nRow
      BY <1>0, <1>3, <2>1 DEF Kept, Born
    <2> QED
      BY <1>0, <1>1, <1>3, <2>1, <2>2 DEF RowInv, Kept
  <1>4. CASE Born(i)
    <2>1. row[i].status = "none" /\ i \notin closed /\ uses'[i] = 0
      BY <1>0, <1>1, <1>4 DEF RowInv, Born
    <2> QED
      BY <1>0, <1>4, <2>1 DEF RowInv, Born
  <1>5. CASE Died(i)
    <2>1. ~(i > nRow) /\ ~(i > nRow')
      BY <1>0, <1>5 DEF RowInv, Died
    <2> QED
      BY <1>0, <1>1, <1>5, <2>1 DEF RowInv, Died
  <1>6. CASE Marked(i)
    <2>1. ~(i > nRow) /\ ~(i > nRow')
      BY <1>0, <1>6 DEF RowInv, Marked
    <2>2. row[i].kind \in Claimed => row[i].kind = "device" /\ uses'[i] = 0
      BY <1>0, <1>1, <1>6 DEF RowInv, Marked, Claimed, Present
    <2> QED
      BY <1>0, <1>6, <2>1, <2>2 DEF RowInv, Marked, Tokens, Claimed
  <1> QED
    BY <1>0, <1>2, <1>3, <1>4, <1>5, <1>6 DEF RowMove

\* What a request knows of its row stays true.
LEMMA ReqInvKept ==
    ASSUME Inv, RowFacts, NEW x \in ReqType, ReqInv(x)
    PROVE  ReqInv(x)'
  <1>1. ASSUME NEW i \in Rows, row[i].status # "none"
        PROVE  row'[i].kind = row[i].kind /\ row'[i].status # "none"
    <2>1. RowInv(i) /\ RowMove(i) /\ nRow \in 0..NRows
      BY TypeFacts DEF Inv, RowFacts
    <2>2. ~Born(i)
      BY <1>1, <2>1 DEF RowInv, Born, Rows
    <2> QED
      BY <1>1, <2>1, <2>2 DEF RowMove, Kept, Died, Marked
  <1>2. x.pc \notin {"idle", "create", "cancel"} =>
          row'[x.id].kind = row[x.id].kind /\ row'[x.id].status # "none"
    BY <1>1 DEF ReqInv
  <1> QED
    BY <1>2 DEF ReqInv

\* A row that is claimed and gone stays gone.
LEMMA DeletedStays ==
    ASSUME Inv, RowFacts, NEW i \in Rows, row[i].kind \in Claimed, row[i].status = "deleted"
    PROVE  row'[i].kind = row[i].kind /\ row'[i].status = "deleted"
  <1>1. RowInv(i) /\ RowMove(i) /\ nRow \in 0..NRows
    BY TypeFacts DEF Inv, RowFacts
  <1>2. ~Born(i)
    BY <1>1 DEF RowInv, Born, Rows
  <1> QED
    BY <1>1, <1>2 DEF RowMove, Kept, Died, Marked, Claimed, Present

\* The parts of the invariant put together.
LEMMA InvParts ==
    ASSUME now' \in Nat, RowFacts, uses' \in [Rows -> 0..MaxUses], req' \in [Reqs -> ReqType],
           \A i \in Rows : RowInv(i)', \A r \in Reqs : ReqInv(req[r])', HoldInv'
    PROVE  Inv'
  BY DEF Inv, TypeOK, RowFacts, RowType

\* A step of a request.
LEMMA InvReq ==
    ASSUME Inv, NEW r \in Reqs, RowFacts, ReqFacts(r), now' \in Nat
    PROVE  Inv'
  <1>1. PICK y \in ReqType :
          /\ req' = [req EXCEPT ![r] = y] /\ ReqInv(y)
          /\ y.pc \in Holding =>
               /\ req[r].pc = "claim" /\ y.id = req[r].id
               /\ Present(y.id) /\ row'[y.id].status = "deleted" /\ uses' = uses
          /\ \/ uses' = uses
             \/ /\ req[r].pc \in {"apply", "restore", "change", "complete", "accept"}
                /\ CountUse(req[r].id)
    BY DEF ReqFacts
  <1>2. UseFacts
    BY <1>1 DEF UseFacts
  <1>3. req \in [Reqs -> ReqType] /\ req' \in [Reqs -> ReqType]
    BY <1>1, TypeFacts
  <1>4. req'[r] = y /\ \A q \in Reqs : q # r => req'[q] = req[q]
    BY <1>1, <1>3
  <1>5. \A x \in ReqType : ReqInv(x) => ReqInv(x)'
    BY ReqInvKept
  <1>6. ASSUME NEW q \in Reqs PROVE ReqInv(req[q])'
    <2>1. PICK x \in ReqType : x = req'[q] /\ ReqInv(x)
      <3>1. CASE q = r
        BY <1>1, <1>4, <3>1
      <3>2. CASE q # r
        <4>1. req[q] \in ReqType /\ ReqInv(req[q]) /\ req'[q] = req[q]
          BY <1>3, <1>4, <3>2 DEF Inv
        <4> QED
          BY <4>1
      <3> QED
        BY <3>1, <3>2
    <2>2. ReqInv(x)'
      BY <1>5, <2>1
    <2> QED
      BY <2>1, <2>2 DEF ReqInv
  <1>7. ASSUME NEW q \in Reqs, q # r, req[q].pc \in Holding
        PROVE  /\ row'[req[q].id].status = "deleted" /\ uses'[req[q].id] = 0
               /\ req[q].id \in Rows /\ row[req[q].id].status = "deleted"
    <2> DEFINE i == req[q].id
    <2>1. i \in Rows /\ row[i].kind \in Claimed /\ row[i].status = "deleted" /\ uses[i] = 0
      BY <1>7 DEF Inv, ReqInv, HoldInv, Holding
    <2>2. row'[i].status = "deleted"
      BY <2>1, DeletedStays
    <2>3. uses'[i] = 0
      <3>1. CASE req[r].pc \in {"apply", "restore", "change", "complete", "accept"}
                   /\ CountUse(req[r].id)
        <4>1. req[r].id # i
          BY <1>7, <2>1, <3>1 DEF Inv, ReqInv, HoldInv, Holding, Claimed
        <4> HIDE DEF i
        <4> QED
          BY <2>1, <3>1, <4>1, TypeFacts DEF CountUse
      <3> QED
        BY <1>1, <2>1, <3>1
    <2> QED
      BY <2>1, <2>2, <2>3
  <1>8. y.pc \in Holding => /\ row'[y.id].status = "deleted" /\ uses'[y.id] = 0
                            /\ row[y.id].status # "deleted"
    <2> SUFFICES ASSUME y.pc \in Holding
                 PROVE  /\ row'[y.id].status = "deleted" /\ uses'[y.id] = 0
                        /\ row[y.id].status # "deleted"
      OBVIOUS
    <2>1. y.id \in Rows /\ row[y.id].kind \in Claimed
      BY <1>1 DEF ReqInv, Holding
    <2> QED
      BY <1>1, <2>1 DEF Inv, RowInv, Present
  <1>9. HoldInv'
    <2>1. \A q \in Reqs : req'[q].pc \in Holding =>
            row'[req'[q].id].status = "deleted" /\ uses'[req'[q].id] = 0
      BY <1>4, <1>7, <1>8
    <2>2. ASSUME NEW p \in Reqs, NEW q \in Reqs, req'[p].pc \in Holding,
                 req'[q].pc \in Holding, req'[p].id = req'[q].id
          PROVE  p = q
      <3>1. CASE p # r /\ q # r
        BY <1>4, <2>2, <3>1 DEF Inv, HoldInv
      <3>2. CASE p = r \/ q = r
        BY <1>4, <1>7, <1>8, <2>2, <3>2
      <3> QED
        BY <3>1, <3>2
    <2> QED
      BY <2>1, <2>2 DEF HoldInv
  <1>10. uses' \in [Rows -> 0..MaxUses] /\ \A i \in Rows : RowInv(i)'
    BY <1>2, UsesMove, RowInvKept
  <1> QED
    BY <1>3, <1>6, <1>9, <1>10, InvParts

\* A step that no request takes.
LEMMA InvEnv ==
    ASSUME Inv, RowFacts, UNCHANGED <<req, uses>>, now' \in Nat
    PROVE  Inv'
  <1>1. UseFacts
    BY DEF UseFacts
  <1>2. uses' \in [Rows -> 0..MaxUses] /\ \A i \in Rows : RowInv(i)'
    BY <1>1, UsesMove, RowInvKept
  <1>3. req \in [Reqs -> ReqType]
    BY TypeFacts
  <1>4. \A x \in ReqType : ReqInv(x) => ReqInv(x)'
    BY ReqInvKept
  <1>5. ASSUME NEW q \in Reqs PROVE ReqInv(req[q])'
    <2>1. PICK x \in ReqType : x = req[q] /\ ReqInv(x)
      BY <1>3 DEF Inv
    <2>2. ReqInv(x)' /\ x = req'[q]
      BY <1>4, <2>1
    <2> QED
      BY <2>2 DEF ReqInv
  <1>6. ASSUME NEW q \in Reqs, req[q].pc \in Holding
        PROVE  row'[req[q].id].status = "deleted"
    <2>1. /\ req[q].id \in Rows /\ row[req[q].id].kind \in Claimed
          /\ row[req[q].id].status = "deleted"
      BY <1>6 DEF Inv, ReqInv, HoldInv, Holding
    <2> QED
      BY <2>1, DeletedStays
  <1>7. HoldInv'
    BY <1>6 DEF HoldInv, Inv
  <1> QED
    BY <1>2, <1>3, <1>5, <1>7, InvParts

-----------------------------------------------------------------------------
(* Each action fits the description. *)

\* A request ends.
LEMMA FinishFacts ==
    ASSUME Inv, NEW r \in Reqs, Finish(r),
           \/ uses' = uses
           \/ /\ req[r].pc \in {"apply", "restore", "change", "complete", "accept"}
              /\ CountUse(req[r].id)
    PROVE  ReqFacts(r)
  <1>1. IdleReq \in ReqType
    BY DEF IdleReq, ReqType, Kinds, Tokens
  <1>2. IdleReq.pc = "idle" /\ IdleReq.late = FALSE
    BY DEF IdleReq
  <1>3. ReqInv(IdleReq) /\ IdleReq.pc \notin Holding
    BY <1>2 DEF ReqInv, Holding
  <1>4. req' = [req EXCEPT ![r] = IdleReq]
    BY DEF Finish
  <1> QED
    BY <1>1, <1>3, <1>4 DEF ReqFacts

\* A request moves on to a label that its row allows.
LEMMA GotoFacts ==
    ASSUME Inv, NEW r \in Reqs,
           NEW label \in {"create", "change_end", "claim", "apply", "restore"},
           Goto(r, label),
           label = "create" => req[r].pc = "cancel",
           label = "change_end" => req[r].pc = "change",
           label = "claim" => req[r].pc = "polled",
           label \in Holding =>
             /\ req[r].pc = "claim" /\ Present(req[r].id)
             /\ row'[req[r].id].status = "deleted" /\ uses' = uses,
           \/ uses' = uses
           \/ /\ req[r].pc \in {"apply", "restore", "change", "complete", "accept"}
              /\ CountUse(req[r].id)
    PROVE  ReqFacts(r)
  <1> DEFINE y == [req[r] EXCEPT !.pc = label]
  <1>0. req \in [Reqs -> ReqType] /\ req[r] \in ReqType /\ ReqInv(req[r])
    BY TypeFacts DEF Inv
  <1>1. y \in ReqType
    BY <1>0 DEF ReqType
  <1>2. /\ y.pc = label /\ y.id = req[r].id /\ y.kind = req[r].kind
        /\ y.user = req[r].user /\ y.late = req[r].late
    BY <1>0 DEF ReqType
  <1>3. req' = [req EXCEPT ![r] = y]
    BY DEF Goto
  <1> HIDE DEF y
  <1>4. ReqInv(y)
    BY <1>0, <1>2 DEF ReqInv, Holding, Claimed
  <1> QED
    BY <1>1, <1>2, <1>3, <1>4 DEF ReqFacts

\* A request starts with a value of its own.
LEMMA StartFacts ==
    ASSUME Inv, NEW r \in Reqs, NEW y \in ReqType, req' = [req EXCEPT ![r] = y],
           ReqInv(y), y.pc \notin Holding, uses' = uses
    PROVE  ReqFacts(r)
  BY DEF ReqFacts

\* The tokens that a new one replaces, and the one that the request creates.
LEMMA ReplaceFacts ==
    ASSUME Inv, NEW r \in Reqs, NEW k \in Tokens, NEW u \in Users, ReplaceTokens(r, k, u)
    PROVE  RowFacts /\ ReqFacts(r) /\ now' = now
  <1> DEFINE y == [IdleReq EXCEPT !.pc = "create", !.kind = k, !.user = u]
             S == RowsOf(k, u)
  <1>1. y \in ReqType
    BY DEF IdleReq, ReqType, Kinds, Tokens
  <1>2. y.pc = "create" /\ y.kind = k /\ y.user = u /\ y.late = FALSE
    BY DEF IdleReq
  <1>3. req' = [req EXCEPT ![r] = y] /\ uses' = uses /\ now' = now /\ nRow' = nRow
    BY DEF ReplaceTokens
  <1>4. S \in SUBSET Rows /\ (\A i \in S : row[i].status # "none") /\ DeleteRows(S)
        /\ closed' = closed \cup S
    BY DEF RowsOf, Present, ReplaceTokens
  <1> HIDE DEF y, S
  <1>5. ReqInv(y) /\ y.pc \notin Holding
    BY <1>2 DEF ReqInv, Holding
  <1>6. ReqFacts(r)
    BY <1>1, <1>3, <1>5, StartFacts
  <1>7. closed' \in SUBSET Rows /\ \A i \in closed' : i \in closed \/ i \in S
    BY <1>4, TypeFacts
  <1>8. RowFacts
    BY <1>3, <1>4, <1>7, RowsDelete
  <1> QED
    BY <1>3, <1>6, <1>8

(* A request that looked row i up: what it remembers is true of the row,    *)
(* and it is late only at a label where nothing happens.                    *)
LEMMA LookupFacts ==
    ASSUME Inv, NEW r \in Reqs, NEW i \in Rows, NEW y \in ReqType,
           req' = [req EXCEPT ![r] = y], y.id = i, row[i].status # "none",
           y.pc \in {"discard", "claim", "change", "expire", "complete", "approve", "deny",
                     "slow", "polled", "accept"},
           y.pc = "claim" => row[i].kind \in Claimed /\ ~y.late,
           y.pc = "change" => row[i].kind = "change" /\ ~y.late,
           y.pc \in {"expire", "complete"} => row[i].kind = "magic",
           y.pc = "complete" => ~y.late,
           y.pc \in {"approve", "deny", "slow", "polled"} => row[i].kind = "device",
           y.pc = "polled" => ~y.late,
           y.pc = "accept" => row[i].kind = "invite" /\ ~y.late,
           UNCHANGED <<now, row, nRow, uses, closed>>
    PROVE  RowFacts /\ ReqFacts(r) /\ now' = now
  <1>1. ReqInv(y) /\ y.pc \notin Holding
    BY DEF ReqInv, Holding
  <1> QED
    BY <1>1, StartFacts, RowsSame

\* A handler's first read, recorded by Start.
LEMMA StartValue ==
    ASSUME Inv, NEW r \in Reqs, NEW i \in Rows,
           NEW label \in {"discard", "claim", "change", "expire", "complete", "accept"},
           Start(r, i, label)
    PROVE  \E y \in ReqType :
             /\ req' = [req EXCEPT ![r] = y] /\ y.pc = label /\ y.id = i
             /\ y.late = (i \in closed \/ Expired(i))
  <1> DEFINE k == row[i].kind
             u == row[i].user
             b == i \in closed \/ Expired(i)
             y == [IdleReq EXCEPT !.pc = label, !.id = i, !.kind = k, !.user = u, !.late = b]
  <1>1. row[i] \in RowType
    BY TypeFacts
  <1>2. k \in Kinds /\ u \in Users \cup {NoUser} /\ b \in BOOLEAN
    BY <1>1 DEF RowType
  <1>3. req' = [req EXCEPT ![r] = y]
    BY DEF Start
  <1>4. b = (i \in closed \/ Expired(i))
    OBVIOUS
  <1> HIDE DEF k, u, b
  <1>5. y \in ReqType /\ y.pc = label /\ y.id = i /\ y.late = b
    BY <1>2 DEF IdleReq, ReqType
  <1> HIDE DEF y
  <1> QED
    BY <1>3, <1>4, <1>5

\* validateToken
LEMMA ValidateFacts ==
    ASSUME Inv, NEW r \in Reqs, NEW i \in Rows, NEW k \in {"email", "reset"},
           ValidateRead(r, i, k)
    PROVE  RowFacts /\ ReqFacts(r) /\ now' = now
  <1> DEFINE label == IF row[i].kind # k \/ Expired(i) THEN "discard" ELSE "claim"
  <1>1. label \in {"discard", "claim"} /\ Start(r, i, label)
    BY DEF ValidateRead
  <1>2. /\ row[i].status \notin {"none", "deleted"} /\ row[i].kind \in Tokens
        /\ UNCHANGED <<now, row, nRow, uses, closed>>
    BY DEF ValidateRead, Present
  <1>3. label = "claim" => row[i].kind \in Claimed /\ ~Expired(i)
    BY DEF Claimed
  <1>4. i \notin closed
    BY <1>2 DEF Inv, RowInv
  <1> HIDE DEF label
  <1>5. PICK y \in ReqType : /\ req' = [req EXCEPT ![r] = y] /\ y.pc = label /\ y.id = i
                             /\ y.late = (i \in closed \/ Expired(i))
    BY <1>1, StartValue
  <1> QED
    BY <1>1, <1>2, <1>3, <1>4, <1>5, LookupFacts

\* The forced password change, a magic link, an invitation.
LEMMA ReadFacts ==
    ASSUME Inv, NEW r \in Reqs, NEW i \in Rows,
           ChangeRead(r, i) \/ VerifyLinkRead(r, i) \/ AcceptRead(r, i)
    PROVE  RowFacts /\ ReqFacts(r) /\ now' = now
  <1>0. RowInv(i)
    BY DEF Inv
  <1>1. CASE ChangeRead(r, i)
    <2>1. /\ Start(r, i, "change") /\ row[i].kind = "change" /\ ~Expired(i)
          /\ row[i].status \notin {"none", "deleted"}
          /\ UNCHANGED <<now, row, nRow, uses, closed>>
      BY <1>1 DEF ChangeRead, Present
    <2>2. PICK y \in ReqType : /\ req' = [req EXCEPT ![r] = y] /\ y.pc = "change" /\ y.id = i
                               /\ y.late = (i \in closed \/ Expired(i))
      BY <2>1, StartValue
    <2>3. i \notin closed
      BY <1>0, <2>1 DEF RowInv, Tokens
    <2> QED
      BY <2>1, <2>2, <2>3, LookupFacts
  <1>2. CASE VerifyLinkRead(r, i)
    <2> DEFINE label == IF Expired(i) THEN "expire" ELSE "complete"
    <2>1. /\ Start(r, i, label) /\ row[i].kind = "magic" /\ row[i].status = "live"
          /\ UNCHANGED <<now, row, nRow, uses, closed>>
      BY <1>2 DEF VerifyLinkRead
    <2>2. label \in {"expire", "complete"} /\ (label = "complete" => ~Expired(i))
      OBVIOUS
    <2> HIDE DEF label
    <2>3. PICK y \in ReqType : /\ req' = [req EXCEPT ![r] = y] /\ y.pc = label /\ y.id = i
                               /\ y.late = (i \in closed \/ Expired(i))
      BY <2>1, <2>2, StartValue
    <2>4. i \notin closed
      BY <1>0, <2>1 DEF RowInv
    <2> QED
      BY <2>1, <2>2, <2>3, <2>4, LookupFacts
  <1>3. CASE AcceptRead(r, i)
    <2>1. /\ Start(r, i, "accept") /\ row[i].kind = "invite" /\ ~Expired(i)
          /\ row[i].status = "live"
          /\ UNCHANGED <<now, row, nRow, uses, closed>>
      BY <1>3 DEF AcceptRead
    <2>2. PICK y \in ReqType : /\ req' = [req EXCEPT ![r] = y] /\ y.pc = "accept" /\ y.id = i
                               /\ y.late = (i \in closed \/ Expired(i))
      BY <2>1, StartValue
    <2>3. i \notin closed
      BY <1>0, <2>1 DEF RowInv
    <2> QED
      BY <2>1, <2>2, <2>3, LookupFacts
  <1> QED
    BY <1>1, <1>2, <1>3

\* A poll of a device code that is approved.
LEMMA PollFacts ==
    ASSUME Inv, NEW r \in Reqs, NEW i \in Rows, Poll(r, i)
    PROVE  RowFacts /\ ReqFacts(r) /\ now' = now
  <1> DEFINE label == IF TooSoon(i) THEN "slow" ELSE "polled"
             b == i \in closed
             u == row[i].approvedBy
             n == row[i].interval
             y == [IdleReq EXCEPT !.pc = label, !.id = i, !.kind = "device", !.user = u,
                                  !.interval = n, !.late = b]
  <1>1. row[i] \in RowType
    BY TypeFacts
  <1>2. /\ label \in {"slow", "polled"} /\ b \in BOOLEAN
        /\ u \in Users \cup {NoUser} /\ n \in Nat
    BY <1>1 DEF RowType
  <1>3. req' = [req EXCEPT ![r] = y]
    BY DEF Poll
  <1>4. /\ row[i].kind = "device" /\ row[i].status \notin {"none", "deleted", "denied"}
        /\ UNCHANGED <<now, row, nRow, uses, closed>>
    BY DEF Poll, Present
  <1>5. ~b
    BY <1>4 DEF Inv, RowInv
  <1> HIDE DEF label, b, u, n
  <1>6. y \in ReqType /\ y.pc = label /\ y.id = i /\ y.late = b
    BY <1>2 DEF IdleReq, ReqType, Kinds
  <1> HIDE DEF y
  <1> QED
    BY <1>2, <1>3, <1>4, <1>5, <1>6, LookupFacts

\* A decision on a device code; it is never late.
LEMMA DecideFacts ==
    ASSUME Inv, NEW r \in Reqs, NEW i \in Rows, NEW u \in Users, NEW ok \in BOOLEAN,
           DecideRead(r, i, u, ok)
    PROVE  RowFacts /\ ReqFacts(r) /\ now' = now
  <1> DEFINE label == IF ok THEN "approve" ELSE "deny"
             y == [IdleReq EXCEPT !.pc = label, !.id = i, !.user = u]
  <1>1. label \in {"approve", "deny"}
    OBVIOUS
  <1>2. req' = [req EXCEPT ![r] = y]
    BY DEF DecideRead
  <1>3. /\ row[i].kind = "device" /\ row[i].status # "none"
        /\ UNCHANGED <<now, row, nRow, uses, closed>>
    BY DEF DecideRead, Present
  <1> HIDE DEF label
  <1>4. y \in ReqType /\ y.pc = label /\ y.id = i
    BY <1>1 DEF IdleReq, ReqType, Kinds, Tokens
  <1> HIDE DEF y
  <1> QED
    BY <1>1, <1>2, <1>3, <1>4, LookupFacts

\* getConsentRequest
LEMMA ConsentFacts ==
    ASSUME Inv, NEW r \in Reqs, NEW i \in Rows, NEW page \in BOOLEAN, ConsentRead(r, i, page)
    PROVE  RowFacts /\ ReqFacts(r) /\ now' = now
  <1> DEFINE label == IF Expired(i) THEN "discard" ELSE "claim"
             k == IF page THEN "page" ELSE "consent"
             u == row[i].user
             b == i \in closed \/ Expired(i)
             y == [IdleReq EXCEPT !.pc = label, !.id = i, !.kind = k, !.user = u, !.late = b]
  <1>1. row[i] \in RowType
    BY TypeFacts
  <1>2. /\ label \in {"discard", "claim"} /\ k \in {"page", "consent"}
        /\ u \in Users \cup {NoUser} /\ b \in BOOLEAN
    BY <1>1 DEF RowType
  <1>3. req' = [req EXCEPT ![r] = y]
    BY DEF ConsentRead
  <1>4. /\ row[i].kind = "consent" /\ row[i].status \notin {"none", "deleted"}
        /\ UNCHANGED <<now, row, nRow, uses, closed>>
    BY DEF ConsentRead, Present
  <1>5. label = "claim" => ~b /\ row[i].kind \in Claimed
    BY <1>4 DEF Inv, RowInv, Claimed
  <1> HIDE DEF label, k, u, b
  <1>6. y \in ReqType /\ y.pc = label /\ y.id = i /\ y.late = b
    BY <1>2 DEF IdleReq, ReqType, Kinds
  <1> HIDE DEF y
  <1> QED
    BY <1>2, <1>3, <1>4, <1>5, <1>6, LookupFacts

\* requestMagicLink up to the count
LEMMA LinkFacts ==
    ASSUME Inv, NEW r \in Reqs, NEW u \in Users, RequestLink(r, u)
    PROVE  RowFacts /\ ReqFacts(r) /\ now' = now
  <1> DEFINE y == [IdleReq EXCEPT !.pc = "cancel", !.kind = "magic", !.user = u]
  <1>1. y \in ReqType
    BY DEF IdleReq, ReqType, Kinds
  <1>2. y.pc = "cancel" /\ y.kind = "magic" /\ y.user = u /\ y.late = FALSE
    BY DEF IdleReq
  <1>3. req' = [req EXCEPT ![r] = y] /\ UNCHANGED <<now, row, nRow, uses, closed>>
    BY DEF RequestLink
  <1> HIDE DEF y
  <1>4. ReqInv(y) /\ y.pc \notin Holding
    BY <1>2 DEF ReqInv, Holding
  <1> QED
    BY <1>1, <1>3, <1>4, StartFacts, RowsSame

\* The DELETE of a validated credential, of an expired or mismatched one.
LEMMA DeleteFacts ==
    ASSUME Inv, NEW r \in Reqs, Claim(r) \/ Discard(r) \/ ChangeEnd(r)
    PROVE  RowFacts /\ ReqFacts(r) /\ now' = now
  <1> DEFINE i == req[r].id
             S == {i}
  <1>0. i \in Rows /\ row[i].status # "none" /\ ReqInv(req[r]) /\ closed \in SUBSET Rows
    BY TypeFacts DEF Inv, ReqInv, Claim, Discard, ChangeEnd
  <1>1. S \in SUBSET Rows /\ \A j \in S : row[j].status # "none"
    BY <1>0
  <1>2. CASE Discard(r)
    <2>1. DeleteRows(S) /\ Finish(r) /\ UNCHANGED <<now, nRow, uses, closed>>
      BY <1>2 DEF Discard
    <2> HIDE DEF S
    <2> QED
      BY <1>0, <1>1, <2>1, RowsDelete, FinishFacts
  <1>3. CASE Claim(r) /\ Present(i)
    <2> DEFINE label == IF req[r].kind = "page" THEN "restore" ELSE "apply"
    <2>1. /\ DeleteRows(S) /\ Goto(r, label) /\ closed' = closed \cup S
          /\ UNCHANGED <<now, nRow, uses>> /\ req[r].pc = "claim"
      BY <1>3 DEF Claim
    <2>2. label \in {"restore", "apply"}
      OBVIOUS
    <2>3. row'[i].status = "deleted"
      BY <1>0, <2>1, GoneFacts DEF DeleteRows
    <2> HIDE DEF S, label
    <2>4. ReqFacts(r)
      BY <1>3, <2>1, <2>2, <2>3, GotoFacts
    <2>5. closed' \in SUBSET Rows /\ \A j \in closed' : j \in closed \/ j \in S
      BY <1>0, <1>1, <2>1
    <2> QED
      BY <1>1, <2>1, <2>4, <2>5, RowsDelete
  <1>4. CASE Claim(r) /\ ~Present(i)
    BY <1>4, RowsSame, FinishFacts DEF Claim
  <1>5. CASE ChangeEnd(r)
    <2> DEFINE T == S \cap {j \in Rows : Present(j)}
    <2>1. /\ DeleteRows(T) /\ Finish(r) /\ UNCHANGED <<now, nRow, uses>>
          /\ closed' = closed \cup {i}
      BY <1>5 DEF ChangeEnd
    <2>2. T \in SUBSET Rows /\ (\A j \in T : row[j].status # "none")
          /\ (i \in T \/ row[i].status \notin {"none", "live"})
      BY <1>0, <1>1 DEF Present
    <2> HIDE DEF T, S
    <2>3. closed' \in SUBSET Rows
          /\ \A j \in closed' : j \in closed \/ j \in T \/ row[j].status \notin {"none", "live"}
      BY <1>0, <2>1, <2>2
    <2> QED
      BY <2>1, <2>2, <2>3, RowsDelete, FinishFacts
  <1> QED
    BY <1>2, <1>3, <1>4, <1>5

\* The effects, and the ends that change nothing.
LEMMA EffectFacts ==
    ASSUME Inv, NEW r \in Reqs, Apply(r) \/ ChangePassword(r) \/ Abort(r)
    PROVE  RowFacts /\ ReqFacts(r) /\ now' = now
  <1>1. CASE Apply(r)
    BY <1>1, RowsSame, FinishFacts DEF Apply
  <1>2. CASE ChangePassword(r)
    <2>1. /\ Goto(r, "change_end") /\ CountUse(req[r].id) /\ req[r].pc = "change"
          /\ UNCHANGED <<now, row, nRow, closed>>
      BY <1>2 DEF ChangePassword
    <2>2. "change_end" \notin Holding
      BY DEF Holding
    <2>3. ReqFacts(r)
      BY <2>1, <2>2, GotoFacts
    <2> QED
      BY <2>1, <2>3, RowsSame
  <1>3. CASE Abort(r)
    BY <1>3, RowsSame, FinishFacts DEF Abort
  <1> QED
    BY <1>1, <1>2, <1>3

\* create, after the older tokens or links were withdrawn, or for a consent page
LEMMA CreateFacts ==
    ASSUME Inv, NEW r \in Reqs, Create(r) \/ Restore(r)
    PROVE  RowFacts /\ ReqFacts(r) /\ now' = now
  <1>0. ReqInv(req[r]) /\ req[r] \in ReqType
    BY TypeFacts DEF Inv
  <1>1. CASE Create(r)
    <2>1. req[r].kind \in Kinds /\ req[r].user \in Users
      BY <1>0, <1>1 DEF ReqInv, Create, Kinds
    <2> QED
      BY <1>1, <2>1, RowsCreate, FinishFacts DEF Create
  <1>2. CASE Restore(r)
    <2>1. "consent" \in Kinds /\ req[r].user \in Users \cup {NoUser}
      BY <1>0 DEF Kinds, ReqType
    <2> QED
      BY <1>2, <2>1, RowsCreate, FinishFacts DEF Restore
  <1> QED
    BY <1>1, <1>2

\* The updates of a status column.
LEMMA MarkFacts ==
    ASSUME Inv, NEW r \in Reqs, MarkExpired(r) \/ Complete(r) \/ Accept(r) \/ Deny(r)
    PROVE  RowFacts /\ ReqFacts(r) /\ now' = now
  <1> DEFINE i == req[r].id
  <1>0. i \in Rows /\ row[i].status # "none" /\ ReqInv(req[r]) /\ closed \in SUBSET Rows
    BY TypeFacts DEF Inv, ReqInv, MarkExpired, Complete, Accept, Deny
  <1>1. CASE MarkExpired(r)
    <2>1. /\ row[i].kind = "magic" /\ row' = [row EXCEPT ![i].status = "expired"] /\ Finish(r)
          /\ UNCHANGED <<now, nRow, uses, closed>>
      BY <1>0, <1>1 DEF MarkExpired, ReqInv
    <2> HIDE DEF i
    <2> QED
      BY <1>0, <2>1, RowsMarkOne, FinishFacts
  <1>2. CASE Complete(r)
    <2>1. /\ row[i].kind = "magic" /\ row' = [row EXCEPT ![i].status = "done"] /\ Finish(r)
          /\ CountUse(req[r].id) /\ req[r].pc = "complete" /\ closed' = closed \cup {i}
          /\ UNCHANGED <<now, nRow>>
      BY <1>0, <1>2 DEF Complete, ReqInv
    <2>2. ReqFacts(r)
      BY <2>1, FinishFacts
    <2> HIDE DEF i
    <2> QED
      BY <1>0, <2>1, <2>2, RowsMarkOne
  <1>3. CASE Accept(r)
    <2>1. /\ row[i].kind = "invite" /\ row' = [row EXCEPT ![i].status = "done"] /\ Finish(r)
          /\ CountUse(req[r].id) /\ req[r].pc = "accept" /\ closed' = closed \cup {i}
          /\ UNCHANGED <<now, nRow>>
      BY <1>0, <1>3 DEF Accept, ReqInv
    <2>2. ReqFacts(r)
      BY <2>1, FinishFacts
    <2> HIDE DEF i
    <2> QED
      BY <1>0, <2>1, <2>2, RowsMarkOne
  <1>4. CASE Deny(r)
    <2>1. /\ row[i].kind = "device" /\ Finish(r) /\ closed' = closed \cup {i}
          /\ UNCHANGED <<now, nRow, uses>>
          /\ row' = IF Present(i) THEN [row EXCEPT ![i].status = "denied"] ELSE row
      BY <1>0, <1>4 DEF Deny, ReqInv
    <2>2. ReqFacts(r)
      BY <2>1, FinishFacts
    <2> HIDE DEF i
    <2>3. CASE Present(i)
      BY <1>0, <2>1, <2>2, <2>3, RowsMarkOne
    <2>4. CASE ~Present(i)
      <3>1. row[i].status = "deleted" /\ row' = row
        BY <1>0, <2>1, <2>4 DEF Present
      <3>2. RowFacts
        BY <1>0, <2>1, <3>1, TypeFacts DEF RowFacts, RowMove, Kept
      <3> QED
        BY <2>1, <2>2, <3>2
    <2> QED
      BY <2>3, <2>4
  <1> QED
    BY <1>1, <1>2, <1>3, <1>4

\* cancelPendingRequests
LEMMA CancelFacts ==
    ASSUME Inv, NEW r \in Reqs, CancelPending(r)
    PROVE  RowFacts /\ ReqFacts(r) /\ now' = now
  <1> DEFINE S == Pending(req[r].user)
             s == "cancelled"
  <1>0. row \in [Rows -> RowType] /\ closed \in SUBSET Rows
    BY TypeFacts
  <1>1. S \in SUBSET Rows /\ \A i \in S : row[i].status # "none" /\ row[i].kind = "magic"
    BY DEF Pending, RowsOf, Present
  <1>2. /\ row' = [i \in Rows |-> IF i \in S THEN [row[i] EXCEPT !.status = s] ELSE row[i]]
        /\ closed' = closed \cup S /\ Goto(r, "create") /\ req[r].pc = "cancel"
        /\ UNCHANGED <<now, nRow, uses>>
    BY DEF CancelPending
  <1>3. s \in {"cancelled", "expired", "done", "denied"} /\ s # "denied"
    OBVIOUS
  <1>4. "create" \notin Holding
    BY DEF Holding
  <1>5. ReqFacts(r)
    BY <1>2, <1>4, GotoFacts
  <1> HIDE DEF S, s
  <1>6. \A i \in Rows : [row[i] EXCEPT !.status = s] \in RowType
    BY <1>3, StatusTyped
  <1>7. row' \in [Rows -> RowType]
    BY <1>0, <1>2, <1>6
  <1>8. \A i \in Rows : row'[i] = IF i \in S THEN [row[i] EXCEPT !.status = s] ELSE row[i]
    BY <1>2
  <1>9. closed' \in SUBSET Rows /\ \A i \in closed' : i \in closed \/ i \in S
    BY <1>0, <1>1, <1>2
  <1>10. RowFacts
    BY <1>1, <1>2, <1>3, <1>7, <1>8, <1>9, RowsMark
  <1> QED
    BY <1>2, <1>5, <1>10

\* The other columns of a device code.
LEMMA ColumnFacts ==
    ASSUME Inv, NEW i \in Rows, NEW u \in Users \cup {NoUser}, NEW t \in Nat, NEW n \in Nat,
           UNCHANGED <<nRow, closed>>,
           \/ row' = row
           \/ row' = [row EXCEPT ![i].approvedBy = u]
           \/ row' = [row EXCEPT ![i].polledAt = t]
           \/ row' = [row EXCEPT ![i].polledAt = t, ![i].interval = n]
    PROVE  RowFacts
  <1>0. row \in [Rows -> RowType] /\ row[i] \in RowType
    BY TypeFacts
  <1> DEFINE z == row'[i]
  <1>1. \/ z = row[i]
        \/ z = [row[i] EXCEPT !.approvedBy = u]
        \/ z = [row[i] EXCEPT !.polledAt = t]
        \/ z = [row[i] EXCEPT !.polledAt = t, !.interval = n]
    BY <1>0
  <1>2. /\ z \in RowType
        /\ z.kind = row[i].kind /\ z.status = row[i].status
        /\ z.user = row[i].user /\ z.createdAt = row[i].createdAt
    <2> HIDE DEF z
    <2>1. CASE z = row[i]
      BY <1>0, <2>1
    <2>2. CASE z = [row[i] EXCEPT !.approvedBy = u]
      BY <1>0, <2>2 DEF RowType
    <2>3. CASE z = [row[i] EXCEPT !.polledAt = t]
      BY <1>0, <2>3 DEF RowType
    <2>4. CASE z = [row[i] EXCEPT !.polledAt = t, !.interval = n]
      BY <1>0, <2>4 DEF RowType
    <2> QED
      BY <1>1, <2>1, <2>2, <2>3, <2>4
  <1>3. \A j \in Rows : j # i => row'[j] = row[j]
    BY <1>0
  <1>4. row' = [row EXCEPT ![i] = z]
    BY <1>0
  <1> HIDE DEF z
  <1>5. row' \in [Rows -> RowType] /\ row'[i] = z
    BY <1>0, <1>2, <1>4
  <1> QED
    BY <1>2, <1>3, <1>5, RowsKept

\* approveDevice and the polls
LEMMA DeviceFacts ==
    ASSUME Inv, NEW r \in Reqs,
           Approve(r) \/ SlowDown(r) \/ RecordPoll(r, TRUE) \/ RecordPoll(r, FALSE)
    PROVE  RowFacts /\ ReqFacts(r) /\ now' = now
  <1> DEFINE i == req[r].id
             n == req[r].interval + PollInterval
             u == req[r].user
  <1>0. /\ i \in Rows /\ now \in Nat /\ u \in Users \cup {NoUser} /\ n \in Nat
        /\ NoUser \in Users \cup {NoUser}
    BY TypeFacts DEF Inv, ReqInv, Approve, SlowDown, RecordPoll, ReqType
  <1>1. CASE Approve(r)
    <2>1. /\ row' = row \/ row' = [row EXCEPT ![i].approvedBy = u]
          /\ Finish(r) /\ UNCHANGED <<now, nRow, uses, closed>>
      BY <1>1 DEF Approve
    <2>2. ReqFacts(r)
      BY <2>1, FinishFacts
    <2> HIDE DEF i, u, n
    <2> QED
      BY <1>0, <2>1, <2>2, ColumnFacts
  <1>2. CASE SlowDown(r)
    <2>1. /\ row' = row \/ row' = [row EXCEPT ![i].polledAt = now, ![i].interval = n]
          /\ Finish(r) /\ UNCHANGED <<now, nRow, uses, closed>>
      BY <1>2 DEF SlowDown
    <2>2. ReqFacts(r)
      BY <2>1, FinishFacts
    <2> HIDE DEF i, u, n
    <2> QED
      BY <1>0, <2>1, <2>2, ColumnFacts
  <1>3. ASSUME NEW ok \in BOOLEAN, RecordPoll(r, ok) PROVE RowFacts /\ ReqFacts(r) /\ now' = now
    <2>1. /\ row' = row \/ row' = [row EXCEPT ![i].polledAt = now]
          /\ Finish(r) \/ Goto(r, "claim")
          /\ req[r].pc = "polled" /\ UNCHANGED <<now, nRow, uses, closed>>
      BY <1>3 DEF RecordPoll
    <2>2. "claim" \notin Holding
      BY DEF Holding
    <2>3. ReqFacts(r)
      BY <2>1, <2>2, FinishFacts, GotoFacts
    <2> HIDE DEF i, u, n
    <2> QED
      BY <1>0, <2>1, <2>3, ColumnFacts
  <1> QED
    BY <1>1, <1>2, <1>3

\* Every statement of a request moves the rows and that request legally.
LEMMA StepFacts ==
    ASSUME Inv, NEW r \in Reqs, Step(r)
    PROVE  RowFacts /\ ReqFacts(r) /\ now' = now
  <1>1. ASSUME NEW ok \in BOOLEAN, RecordPoll(r, ok) PROVE RowFacts /\ ReqFacts(r) /\ now' = now
    BY <1>1, DeviceFacts
  <1> QED
    BY <1>1, ReplaceFacts, ValidateFacts, ReadFacts, PollFacts, DecideFacts, ConsentFacts,
       LinkFacts, DeleteFacts, EffectFacts, CreateFacts, MarkFacts, CancelFacts, DeviceFacts
       DEF Step

\* The steps that no request takes.
LEMMA EnvFacts ==
    ASSUME Inv, InitiateDevice \/ (\E k \in Kinds, u \in Users : Store(k, u))
                  \/ (\E k \in Swept : Sweep(k)) \/ Tick \/ UNCHANGED vars
    PROVE  RowFacts /\ UNCHANGED <<req, uses>> /\ (now' = now \/ now' = now + 1)
  <1>1. CASE InitiateDevice
    BY <1>1, RowsCreate DEF InitiateDevice, Kinds
  <1>2. ASSUME NEW k \in Kinds, NEW u \in Users, Store(k, u)
        PROVE  RowFacts /\ UNCHANGED <<req, uses>> /\ (now' = now \/ now' = now + 1)
    BY <1>2, RowsCreate DEF Store
  <1>3. ASSUME NEW k \in Swept, Sweep(k)
        PROVE  RowFacts /\ UNCHANGED <<req, uses>> /\ (now' = now \/ now' = now + 1)
    <2> DEFINE S == Stale(k)
    <2>1. S \in SUBSET Rows /\ \A i \in S : row[i].status # "none"
      BY DEF Stale, Present
    <2>2. DeleteRows(S) /\ UNCHANGED <<now, nRow, req, uses, closed>>
      BY <1>3 DEF Sweep
    <2>3. closed' \in SUBSET Rows /\ \A i \in closed' : i \in closed
      BY <2>2, TypeFacts
    <2> HIDE DEF S
    <2> QED
      BY <2>1, <2>2, <2>3, RowsDelete
  <1>4. CASE Tick
    BY <1>4, RowsSame DEF Tick
  <1>5. CASE UNCHANGED vars
    BY <1>5, RowsSame DEF vars
  <1> QED
    BY <1>1, <1>2, <1>3, <1>4, <1>5

\* No credential exists at the start.
LEMMA InvInit == Init => Inv
  <1> SUFFICES ASSUME Init PROVE Inv
    OBVIOUS
  <1>1. TypeOK
    <2>1. NoRow \in RowType
      BY OneTimeAssumption DEF NoRow, RowType, Kinds, Tokens, None
    <2>2. IdleReq \in ReqType
      BY DEF IdleReq, ReqType, Kinds, Tokens
    <2> QED
      BY <2>1, <2>2, OneTimeAssumption DEF Init, TypeOK, RowType, MaxUses
  <1>2. \A i \in Rows : RowInv(i)
    BY OneTimeAssumption DEF Init, RowInv, NoRow, Rows
  <1>3. \A r \in Reqs : req[r].pc = "idle" /\ req[r].late = FALSE
    BY DEF Init, IdleReq
  <1> QED
    BY <1>1, <1>2, <1>3 DEF Inv, ReqInv, HoldInv, Holding

\* Every step keeps the invariant.
LEMMA InvNext ==
    ASSUME Inv, [Next]_vars
    PROVE  Inv'
  <1>0. now \in Nat
    BY TypeFacts
  <1>1. ASSUME NEW r \in Reqs, Step(r) PROVE Inv'
    BY <1>0, <1>1, StepFacts, InvReq
  <1>2. CASE InitiateDevice \/ (\E k \in Kinds, u \in Users : Store(k, u))
               \/ (\E k \in Swept : Sweep(k)) \/ Tick \/ UNCHANGED vars
    <2>1. RowFacts /\ UNCHANGED <<req, uses>> /\ (now' = now \/ now' = now + 1)
      BY <1>2, EnvFacts
    <2>2. now' \in Nat
      BY <1>0, <2>1
    <2> QED
      BY <2>1, <2>2, InvEnv
  <1> QED
    BY <1>1, <1>2 DEF Next

\* So it holds throughout.
LEMMA InvHolds == Spec => []Inv
  BY InvInit, InvNext, PTL DEF Spec

(* Rows and requests keep their shapes, whatever order the statements of    *)
(* racing requests, sweeps and failures come in.                            *)
THEOREM OneTimeTypeCorrect == Spec => []TypeOK
  <1>1. Inv => TypeOK
    BY DEF Inv
  <1> QED
    BY <1>1, InvHolds, PTL

(* A credential that was used, replaced, denied or has expired gets no      *)
(* later request anywhere, for every kind, those marked by an unconditional *)
(* update included.                                                         *)
THEOREM NoLateUseHolds == Spec => []NoLateUse
  <1>1. Inv => NoLateUse
    BY DEF Inv, ReqInv, NoLateUse
  <1> QED
    BY <1>1, InvHolds, PTL

-----------------------------------------------------------------------------
(* The claimed kinds implement SingleUse. *)

\* The refinement mapping has the abstract types.
LEMMA AbsTyped ==
    ASSUME Inv
    PROVE  /\ AbsState \in [Rows -> Single!States]
           /\ AbsUses \in [Rows -> Nat]
  <1>1. \A i \in Rows : AbsState[i] \in Single!States
    BY DEF AbsState, Single!States
  <1>2. uses \in [Rows -> 0..MaxUses]
    BY TypeFacts
  <1>3. \A i \in Rows : AbsUses[i] \in Nat
    BY <1>2 DEF AbsUses, MaxUses
  <1> QED
    BY <1>1, <1>3 DEF AbsState, AbsUses

\* The abstract state of a row, case by case.
LEMMA AbsValue ==
    ASSUME Inv, NEW i \in Rows
    PROVE  /\ row[i].status = "none" \/ row[i].kind \notin Claimed =>
                AbsState[i] = "unissued" /\ AbsUses[i] = 0
           /\ row[i].kind \in Claimed => AbsUses[i] = uses[i]
           /\ row[i].kind \in Claimed /\ row[i].status # "none" /\ uses[i] > 0 =>
                AbsState[i] = "used"
           /\ row[i].kind \in Claimed /\ Present(i) => AbsState[i] = "live"
           /\ row[i].kind \in Claimed /\ row[i].status = "deleted" /\ uses[i] = 0 =>
                AbsState[i] = IF Holders(i) # {} THEN "held" ELSE "void"
  <1>0. RowInv(i) /\ row[i] \in RowType /\ uses[i] \in 0..MaxUses
    BY TypeFacts DEF Inv
  <1>1. AbsUses[i] = IF row[i].kind \in Claimed THEN uses[i] ELSE 0
    BY DEF AbsUses
  <1>2. row[i].status = "none" \/ row[i].kind \notin Claimed =>
          AbsState[i] = "unissued" /\ AbsUses[i] = 0
    <2>1. row[i].status = "none" => uses[i] = 0
      BY <1>0 DEF RowInv
    <2>2. row[i].status = "none" => ~Present(i)
      BY DEF Present
    <2>3. row[i].status = "none" => ~(uses[i] > 0)
      BY <2>1
    <2> QED
      BY <1>1, <2>1, <2>2, <2>3 DEF AbsState
  <1>3. row[i].kind \in Claimed /\ row[i].status # "none" /\ uses[i] > 0 =>
          AbsState[i] = "used"
    <2>1. row[i].kind \in Claimed /\ uses[i] > 0 => ~Present(i)
      BY <1>0 DEF RowInv, Present
    <2> QED
      BY <2>1 DEF AbsState
  <1>4. row[i].kind \in Claimed /\ Present(i) => AbsState[i] = "live"
    <2>1. row[i].kind \in Claimed /\ Present(i) => ~(uses[i] > 0) /\ row[i].status # "none"
      BY <1>0 DEF RowInv, Present
    <2> QED
      BY <2>1 DEF AbsState
  <1>5. row[i].kind \in Claimed /\ row[i].status = "deleted" /\ uses[i] = 0 =>
          AbsState[i] = IF Holders(i) # {} THEN "held" ELSE "void"
    BY DEF AbsState, Present
  <1> QED
    BY <1>1, <1>2, <1>3, <1>4, <1>5

AbsShape ==
    /\ AbsState \in [Rows -> Single!States] /\ AbsUses \in [Rows -> Nat]
    /\ \A i \in Rows :
        /\ row[i].status = "none" \/ row[i].kind \notin Claimed =>
             AbsState[i] = "unissued" /\ AbsUses[i] = 0
        /\ row[i].kind \in Claimed => AbsUses[i] = uses[i]
        /\ row[i].kind \in Claimed /\ row[i].status # "none" /\ uses[i] > 0 =>
             AbsState[i] = "used"
        /\ row[i].kind \in Claimed /\ Present(i) => AbsState[i] = "live"
        /\ row[i].kind \in Claimed /\ row[i].status = "deleted" /\ uses[i] = 0 =>
             AbsState[i] = IF Holders(i) # {} THEN "held" ELSE "void"

\* The abstract state of a row, read off its status, its uses and its holders.
LEMMA AbsShaped == Inv => AbsShape
  BY AbsTyped, AbsValue DEF AbsShape

\* The same in the next state.
LEMMA AbsShapedNext == Inv' => AbsShape'
  BY AbsShaped, PTL

\* The same after a step.
LEMMA AbsValueP ==
    ASSUME Inv', NEW i \in Rows
    PROVE  /\ row'[i].status = "none" \/ row'[i].kind \notin Claimed =>
                AbsState'[i] = "unissued" /\ AbsUses'[i] = 0
           /\ row'[i].kind \in Claimed => AbsUses'[i] = uses'[i]
           /\ row'[i].kind \in Claimed /\ row'[i].status # "none" /\ uses'[i] > 0 =>
                AbsState'[i] = "used"
           /\ row'[i].kind \in Claimed /\ Present(i)' => AbsState'[i] = "live"
           /\ row'[i].kind \in Claimed /\ row'[i].status = "deleted" /\ uses'[i] = 0 =>
                AbsState'[i] = IF Holders(i)' # {} THEN "held" ELSE "void"
  BY AbsShapedNext DEF AbsShape

(* How the holders of a row change: only a request that finds the row       *)
(* there takes it up.                                                       *)
HoldStep ==
    \A i \in Rows : row[i].status = "deleted" /\ Holders(i) = {} => Holders(i)' = {}

\* One request's step gives no new holder to a deleted row that nobody holds.
LEMMA HoldReq ==
    ASSUME Inv, NEW r \in Reqs, ReqFacts(r)
    PROVE  HoldStep
  <1> SUFFICES ASSUME NEW i \in Rows, row[i].status = "deleted", Holders(i) = {}
               PROVE  Holders(i)' = {}
    BY DEF HoldStep
  <1>1. PICK y \in ReqType :
          /\ req' = [req EXCEPT ![r] = y]
          /\ y.pc \in Holding => Present(y.id)
    BY DEF ReqFacts
  <1>2. req \in [Reqs -> ReqType]
    BY TypeFacts
  <1>3. req'[r] = y /\ \A q \in Reqs : q # r => req'[q] = req[q]
    BY <1>1, <1>2
  <1>4. \A q \in Reqs : ~(req[q].id = i /\ req[q].pc \in {"apply", "restore"})
    BY DEF Holders
  <1>5. ~(y.id = i /\ y.pc \in {"apply", "restore"})
    BY <1>1 DEF Present, Holding
  <1> QED
    BY <1>3, <1>4, <1>5 DEF Holders

\* A step described by these facts is a step of SingleUse for each row.
LEMMA AbsStep ==
    ASSUME Inv, Inv', RowFacts, UseFacts, HoldStep, NEW i \in Rows
    PROVE  Single!Move(i) \/ Single!Stay(i)
  <1> DEFINE Abs == Single!Move(i) \/ Single!Stay(i)
  <1>0. /\ RowInv(i) /\ RowInv(i)' /\ RowMove(i) /\ uses[i] \in 0..2 /\ uses'[i] \in 0..2
        /\ nRow \in 0..NRows /\ i \in Nat
    BY TypeFacts, UsesMove DEF Inv, RowFacts, MaxUses, Rows
  <1>1. CASE row[i].status = "none"
    <2>1. uses[i] = 0 /\ uses'[i] = 0
      BY <1>0, <1>1, UsesMove DEF RowInv
    <2>2. AbsState[i] = "unissued" /\ AbsUses[i] = 0
      BY <1>1, AbsValue
    <2>3. row'[i].status = "none" \/ row'[i].status = "live"
      BY <1>0, <1>1 DEF RowMove, Kept, Born, Died, Marked
    <2>4. CASE row'[i].status = "none" \/ row'[i].kind \notin Claimed
      <3>1. AbsState'[i] = "unissued" /\ AbsUses'[i] = 0
        BY <2>4, AbsValueP
      <3> QED
        BY <2>2, <3>1 DEF Single!Stay
    <2>5. CASE row'[i].status = "live" /\ row'[i].kind \in Claimed
      <3>1. AbsState'[i] = "live" /\ AbsUses'[i] = 0
        BY <2>1, <2>5, AbsValueP DEF Present
      <3> QED
        BY <2>2, <3>1 DEF Single!Move, Single!Moves
    <2> QED
      BY <2>3, <2>4, <2>5
  <1>2. ASSUME row[i].status # "none"
        PROVE  row'[i].kind = row[i].kind /\ row'[i].status # "none"
    <2>1. ~Born(i)
      BY <1>0, <1>2 DEF RowInv, Born
    <2> QED
      BY <1>0, <1>2, <2>1 DEF RowMove, Kept, Died, Marked
  <1>3. CASE row[i].status # "none" /\ row[i].kind \notin Claimed
    <2>1. AbsState[i] = "unissued" /\ AbsUses[i] = 0
      BY <1>3, AbsValue
    <2>2. AbsState'[i] = "unissued" /\ AbsUses'[i] = 0
      BY <1>2, <1>3, AbsValueP
    <2> QED
      BY <2>1, <2>2 DEF Single!Stay
  <1>4. CASE row[i].kind \in Claimed /\ Present(i)
    <2>1. row[i].status \notin {"none", "deleted"} /\ uses[i] = 0
      BY <1>0, <1>4 DEF RowInv, Present
    <2>2. uses'[i] = 0
      BY <1>4, <2>1, UsesMove
    <2>3. AbsState[i] = "live" /\ AbsUses[i] = 0
      BY <1>4, <2>1, AbsValue
    <2>4. row'[i].kind \in Claimed /\ row'[i].status # "none"
      BY <1>2, <1>4, <2>1
    <2>5. CASE row'[i].status = "deleted"
      <3>1. (AbsState'[i] = "held" \/ AbsState'[i] = "void") /\ AbsUses'[i] = 0
        BY <2>2, <2>4, <2>5, AbsValueP
      <3> QED
        BY <2>3, <3>1 DEF Single!Move, Single!Moves
    <2>6. CASE row'[i].status # "deleted"
      <3>1. AbsState'[i] = "live" /\ AbsUses'[i] = 0
        BY <2>2, <2>4, <2>6, AbsValueP DEF Present
      <3> QED
        BY <2>3, <3>1 DEF Single!Stay
    <2> QED
      BY <2>5, <2>6
  <1>5. CASE row[i].kind \in Claimed /\ row[i].status = "deleted"
    <2>1. row'[i].kind \in Claimed /\ row'[i].status = "deleted"
      BY <1>5, DeletedStays
    <2>2. CASE uses[i] > 0
      <3>1. uses'[i] = uses[i]
        BY <1>0, <1>5, <2>2, UsesMove
      <3>2. AbsState[i] = "used" /\ AbsUses[i] = uses[i]
        BY <1>5, <2>2, AbsValue
      <3>3. AbsState'[i] = "used" /\ AbsUses'[i] = uses[i]
        BY <2>1, <2>2, <3>1, AbsValueP
      <3> QED
        BY <3>2, <3>3 DEF Single!Stay
    <2>3. CASE uses[i] = 0 /\ uses'[i] # uses[i]
      <3>1. uses'[i] = 1 /\ \E r \in Reqs : req[r].pc \in Holding /\ req[r].id = i
        BY <1>5, <2>3, UsesMove
      <3>2. Holders(i) # {}
        BY <3>1 DEF Holders, Holding
      <3>3. AbsState[i] = "held" /\ AbsUses[i] = 0
        BY <1>5, <2>3, <3>2, AbsValue
      <3>4. AbsState'[i] = "used" /\ AbsUses'[i] = 1
        BY <2>1, <3>1, AbsValueP
      <3> QED
        BY <3>3, <3>4 DEF Single!Move, Single!Moves
    <2>4. CASE uses[i] = 0 /\ uses'[i] = uses[i]
      <3>1. AbsState[i] = (IF Holders(i) # {} THEN "held" ELSE "void") /\ AbsUses[i] = 0
        BY <1>5, <2>4, AbsValue
      <3>2. AbsState'[i] = (IF Holders(i)' # {} THEN "held" ELSE "void") /\ AbsUses'[i] = 0
        BY <2>1, <2>4, AbsValueP
      <3>3. Holders(i) = {} => Holders(i)' = {}
        BY <1>5 DEF HoldStep
      <3> QED
        BY <3>1, <3>2, <3>3 DEF Single!Move, Single!Moves, Single!Stay
    <2> QED
      BY <1>0, <2>2, <2>3, <2>4
  <1>6. row[i].status = "none" \/ Present(i) \/ row[i].status = "deleted"
    BY DEF Present
  <1> QED
    BY <1>1, <1>3, <1>4, <1>5, <1>6

\* No credential is issued at first.
LEMMA AbsInit == Init => Single!Init
  <1> SUFFICES ASSUME Init PROVE Single!Init
    OBVIOUS
  <1>1. \A i \in Rows : row[i].status = "none" /\ uses[i] = 0
    BY DEF Init, NoRow
  <1>2. \A i \in Rows : AbsState[i] = "unissued"
    BY <1>1, InvInit, AbsValue
  <1>3. \A i \in Rows : AbsUses[i] = 0
    BY <1>1, InvInit, AbsValue
  <1>4. AbsState = [i \in Rows |-> "unissued"]
    BY <1>2 DEF AbsState
  <1>5. AbsUses = [i \in Rows |-> 0]
    BY <1>3 DEF AbsUses
  <1> QED
    BY <1>4, <1>5 DEF Single!Init

\* Every step is an abstract step or a stutter.
LEMMA AbsNext ==
    ASSUME Inv, Inv', [Next]_vars
    PROVE  Single!Next
  <1>1. ASSUME NEW r \in Reqs, Step(r) PROVE RowFacts /\ UseFacts /\ HoldStep
    <2>1. RowFacts /\ ReqFacts(r)
      BY <1>1, StepFacts
    <2>2. UseFacts
      BY <2>1 DEF ReqFacts, UseFacts
    <2> QED
      BY <2>1, <2>2, HoldReq
  <1>2. RowFacts /\ UseFacts /\ HoldStep
    <2>1. CASE UNCHANGED vars \/ InitiateDevice \/ (\E k \in Kinds, u \in Users : Store(k, u))
               \/ (\E k \in Swept : Sweep(k)) \/ Tick
      <3>1. RowFacts /\ UNCHANGED <<req, uses>>
        BY <2>1, EnvFacts
      <3> QED
        BY <3>1 DEF UseFacts, HoldStep, Holders
    <2> QED
      BY <1>1, <2>1 DEF Next
  <1>3. \A i \in Rows : Single!Move(i) \/ Single!Stay(i)
    BY <1>2, AbsStep
  <1>4. AbsState' \in [Rows -> Single!States] /\ AbsUses' \in [Rows -> Nat]
    BY AbsShapedNext DEF AbsShape
  <1> QED
    BY <1>3, <1>4 DEF Single!Next

(* Verification and reset tokens, device codes and consent requests         *)
(* implement the abstract single-use credential: one request wins the       *)
(* DELETE and only it acts, once, however many race for it.                 *)
THEOREM SingleUseImplemented == Spec => ImplementsSingleUse
  <1>1. Init => Single!Init
    BY AbsInit
  <1>2. Inv /\ Inv' /\ [Next]_vars => [Single!Next]_<<AbsState, AbsUses>>
    BY AbsNext
  <1> QED
    BY <1>1, <1>2, InvHolds, PTL DEF Spec, ImplementsSingleUse, Single!Spec

-----------------------------------------------------------------------------
(* The bounds.  A token or link is created by a request that withdrew the   *)
(* older ones, or counted the recent links, before: the rows together with  *)
(* the requests about to add one are what stays bounded.                    *)

Live(k, u)     == {i \in RowsOf(k, u) : row[i].status = "live"}
Creators(k, u) == {r \in Reqs : req[r].pc = "create" /\ req[r].kind = k /\ req[r].user = u}
Linkers(u)     == {r \in Reqs : /\ req[r].pc \in {"cancel", "create"}
                                /\ req[r].kind = "magic" /\ req[r].user = u}

LiveInv ==
    \A u \in Users, k \in Tokens \cup {"magic"} :
        Cardinality(Live(k, u)) + Cardinality(Creators(k, u)) <= Cardinality(Reqs)
LinkInv ==
    \A u \in Users :
        Cardinality(Recent(u)) + Cardinality(Linkers(u)) < LinkLimit + Cardinality(Reqs)

\* One element moves from one set to the other, or both shrink.
LEMMA SumKept ==
    ASSUME NEW A, NEW B, NEW A1, NEW B1, NEW n \in Nat, IsFiniteSet(A), IsFiniteSet(B),
           Cardinality(A) + Cardinality(B) <= n,
           \/ A1 \subseteq A /\ B1 \subseteq B
           \/ \E x : \E b \in B : A1 \subseteq A \cup {x} /\ B1 \subseteq B \ {b}
    PROVE  Cardinality(A1) + Cardinality(B1) <= n
  <1>1. Cardinality(A) \in Nat /\ Cardinality(B) \in Nat
    BY FS_CardinalityType
  <1>2. CASE A1 \subseteq A /\ B1 \subseteq B
    <2>1. Cardinality(A1) <= Cardinality(A) /\ IsFiniteSet(A1)
      BY <1>2, FS_Subset
    <2>2. Cardinality(B1) <= Cardinality(B) /\ IsFiniteSet(B1)
      BY <1>2, FS_Subset
    <2>3. Cardinality(A1) \in Nat /\ Cardinality(B1) \in Nat
      BY <2>1, <2>2, FS_CardinalityType
    <2> QED
      BY <1>1, <2>1, <2>2, <2>3
  <1>3. ASSUME NEW x, NEW b \in B, A1 \subseteq A \cup {x}, B1 \subseteq B \ {b}
        PROVE  Cardinality(A1) + Cardinality(B1) <= n
    <2>1. IsFiniteSet(A \cup {x}) /\ Cardinality(A \cup {x}) <= Cardinality(A) + 1
      <3>1. /\ IsFiniteSet(A \cup {x})
            /\ Cardinality(A \cup {x}) = IF x \in A THEN Cardinality(A) ELSE Cardinality(A) + 1
        BY FS_AddElement
      <3> QED
        BY <1>1, <3>1
    <2>2. IsFiniteSet(B \ {b}) /\ Cardinality(B \ {b}) = Cardinality(B) - 1
      BY FS_RemoveElement
    <2>3. Cardinality(A1) <= Cardinality(A \cup {x}) /\ IsFiniteSet(A1)
      BY <1>3, <2>1, FS_Subset
    <2>4. Cardinality(B1) <= Cardinality(B \ {b}) /\ IsFiniteSet(B1)
      BY <1>3, <2>2, FS_Subset
    <2>5. /\ Cardinality(A1) \in Nat /\ Cardinality(B1) \in Nat
          /\ Cardinality(A \cup {x}) \in Nat
      BY <2>1, <2>3, <2>4, FS_CardinalityType
    <2> QED
      BY <1>1, <2>1, <2>2, <2>3, <2>4, <2>5
  <1> QED
    BY <1>2, <1>3

\* Rows and requests are finite.
LEMMA AllFinite ==
    /\ IsFiniteSet(Rows) /\ IsFiniteSet(Reqs) /\ Cardinality(Reqs) \in Nat
    /\ \A S : S \subseteq Rows => IsFiniteSet(S) /\ Cardinality(S) \in Nat
    /\ \A S : S \subseteq Reqs =>
         /\ IsFiniteSet(S) /\ Cardinality(S) \in Nat /\ Cardinality(S) <= Cardinality(Reqs)
  <1>1. IsFiniteSet(Rows)
    BY OneTimeAssumption, FS_Interval DEF Rows
  <1>2. IsFiniteSet(Reqs) /\ Cardinality(Reqs) \in Nat
    BY OneTimeAssumption, FS_CardinalityType
  <1>3. ASSUME NEW S, S \subseteq Rows PROVE IsFiniteSet(S) /\ Cardinality(S) \in Nat
    BY <1>1, <1>3, FS_Subset, FS_CardinalityType
  <1>4. ASSUME NEW S, S \subseteq Reqs
        PROVE  /\ IsFiniteSet(S) /\ Cardinality(S) \in Nat
               /\ Cardinality(S) <= Cardinality(Reqs)
    BY <1>2, <1>4, FS_Subset, FS_CardinalityType
  <1> QED
    BY <1>1, <1>2, <1>3, <1>4

\* Where tokens and links come from, and the requests about to create one.
Withdrawn(k, u) == \A i \in Rows : ~(/\ row'[i].status = "live" /\ row'[i].kind = k
                                     /\ row'[i].user = u)

OriginFacts(r) ==
    /\ \A q \in Reqs : q # r => req'[q] = req[q]
    /\ \/ nRow' = nRow
       \/ row'[nRow + 1].kind \notin Tokens \cup {"magic"}
       \/ /\ req[r].pc = "create" /\ req'[r].pc = "idle"
          /\ row'[nRow + 1].kind = req[r].kind /\ row'[nRow + 1].user = req[r].user
    /\ req'[r].pc = "create" =>
         /\ Withdrawn(req'[r].kind, req'[r].user)
         /\ \/ req'[r].kind \in Tokens
            \/ req[r].pc = "cancel" /\ req[r].kind = "magic" /\ req[r].user = req'[r].user
    /\ req'[r].pc = "cancel" =>
         Cardinality(Recent(req'[r].user)) < LinkLimit /\ UNCHANGED <<row, now>>

\* A request at neither "create" nor "cancel" afterwards, with no row born, owes no account...
LEMMA OriginOther ==
    ASSUME Inv, NEW r \in Reqs, NEW y, req' = [req EXCEPT ![r] = y],
           y.pc \notin {"create", "cancel"}, nRow' = nRow
    PROVE  OriginFacts(r)
  BY TypeFacts DEF OriginFacts

\* ... nor has one that ends...
LEMMA OriginFinish ==
    ASSUME Inv, NEW r \in Reqs, Finish(r), nRow' = nRow
    PROVE  OriginFacts(r)
  <1>1. IdleReq.pc = "idle"
    BY DEF IdleReq
  <1> QED
    BY <1>1, OriginOther DEF Finish

\* ... one that moves on to a later statement...
LEMMA OriginGoto ==
    ASSUME Inv, NEW r \in Reqs, NEW label \in {"change_end", "claim", "apply", "restore"},
           Goto(r, label), nRow' = nRow
    PROVE  OriginFacts(r)
  <1> DEFINE y == [req[r] EXCEPT !.pc = label]
  <1>1. req[r] \in ReqType
    BY TypeFacts
  <1>2. y.pc = label
    BY <1>1 DEF ReqType
  <1>3. req' = [req EXCEPT ![r] = y]
    BY DEF Goto
  <1> HIDE DEF y
  <1> QED
    BY <1>2, <1>3, OriginOther

\* ... one that starts at another label...
LEMMA OriginStart ==
    ASSUME Inv, NEW r \in Reqs, NEW i \in Rows,
           NEW label \in {"discard", "claim", "change", "expire", "complete", "accept"},
           Start(r, i, label), nRow' = nRow
    PROVE  OriginFacts(r)
  <1>1. PICK y \in ReqType : req' = [req EXCEPT ![r] = y] /\ y.pc = label
    BY StartValue
  <1> QED
    BY <1>1, OriginOther

\* ... one that reads the row it was sent...
LEMMA OriginReads ==
    ASSUME Inv, NEW r \in Reqs, NEW i \in Rows,
           \/ \E k \in {"email", "reset"} : ValidateRead(r, i, k)
           \/ ChangeRead(r, i) \/ VerifyLinkRead(r, i) \/ Poll(r, i) \/ AcceptRead(r, i)
           \/ \E page \in BOOLEAN : ConsentRead(r, i, page)
           \/ \E u \in Users, ok \in BOOLEAN : DecideRead(r, i, u, ok)
    PROVE  OriginFacts(r)
  <1>1. ASSUME NEW k \in {"email", "reset"}, ValidateRead(r, i, k) PROVE OriginFacts(r)
    BY <1>1, OriginStart DEF ValidateRead
  <1>2. CASE ChangeRead(r, i)
    BY <1>2, OriginStart DEF ChangeRead
  <1>3. CASE VerifyLinkRead(r, i)
    BY <1>3, OriginStart DEF VerifyLinkRead
  <1>4. CASE AcceptRead(r, i)
    BY <1>4, OriginStart DEF AcceptRead
  <1>5. CASE Poll(r, i)
    <2> DEFINE label == IF TooSoon(i) THEN "slow" ELSE "polled"
               y == [IdleReq EXCEPT !.pc = label, !.id = i, !.kind = "device",
                       !.user = row[i].approvedBy, !.interval = row[i].interval,
                       !.late = (i \in closed)]
    <2>1. req' = [req EXCEPT ![r] = y] /\ nRow' = nRow
      BY <1>5 DEF Poll
    <2>2. y.pc \notin {"create", "cancel"}
      BY DEF IdleReq
    <2> HIDE DEF y
    <2> QED
      BY <2>1, <2>2, OriginOther
  <1>6. ASSUME NEW page \in BOOLEAN, ConsentRead(r, i, page) PROVE OriginFacts(r)
    <2> DEFINE y == [IdleReq EXCEPT
                       !.pc = IF Expired(i) THEN "discard" ELSE "claim", !.id = i,
                       !.kind = IF page THEN "page" ELSE "consent", !.user = row[i].user,
                       !.late = (i \in closed \/ Expired(i))]
    <2>1. req' = [req EXCEPT ![r] = y] /\ nRow' = nRow
      BY <1>6 DEF ConsentRead
    <2>2. y.pc \notin {"create", "cancel"}
      BY DEF IdleReq
    <2> HIDE DEF y
    <2> QED
      BY <2>1, <2>2, OriginOther
  <1>7. ASSUME NEW u \in Users, NEW ok \in BOOLEAN, DecideRead(r, i, u, ok)
        PROVE  OriginFacts(r)
    <2> DEFINE y == [IdleReq EXCEPT !.pc = IF ok THEN "approve" ELSE "deny",
                                    !.id = i, !.user = u]
    <2>1. req' = [req EXCEPT ![r] = y] /\ nRow' = nRow
      BY <1>7 DEF DecideRead
    <2>2. y.pc \notin {"create", "cancel"}
      BY DEF IdleReq
    <2> HIDE DEF y
    <2> QED
      BY <2>1, <2>2, OriginOther
  <1> QED
    BY <1>1, <1>2, <1>3, <1>4, <1>5, <1>6, <1>7

\* ... or one at its last statements.
LEMMA OriginEnds ==
    ASSUME Inv, NEW r \in Reqs,
           \/ Discard(r) \/ Claim(r) \/ Apply(r) \/ ChangePassword(r) \/ ChangeEnd(r)
           \/ MarkExpired(r) \/ Complete(r) \/ Approve(r) \/ Deny(r) \/ SlowDown(r)
           \/ Accept(r) \/ Abort(r)
           \/ \E ok \in BOOLEAN : RecordPoll(r, ok)
    PROVE  OriginFacts(r)
  <1>1. Discard(r) \/ Apply(r) \/ ChangeEnd(r) \/ MarkExpired(r) \/ Complete(r) \/ Approve(r)
          \/ Deny(r) \/ SlowDown(r) \/ Accept(r) \/ Abort(r) => Finish(r) /\ nRow' = nRow
    BY DEF Discard, Apply, ChangeEnd, MarkExpired, Complete, Approve, Deny, SlowDown, Accept,
           Abort
  <1>2. CASE Claim(r)
    BY <1>2, OriginFinish, OriginGoto DEF Claim
  <1>3. CASE ChangePassword(r)
    BY <1>3, OriginGoto DEF ChangePassword
  <1>4. ASSUME NEW ok \in BOOLEAN, RecordPoll(r, ok) PROVE OriginFacts(r)
    BY <1>4, OriginFinish, OriginGoto DEF RecordPoll
  <1> QED
    BY <1>1, <1>2, <1>3, <1>4, OriginFinish

\* Replacing a user's tokens deletes them before the new one is created.
LEMMA OriginReplace ==
    ASSUME Inv, NEW r \in Reqs, NEW k \in Tokens, NEW u \in Users, ReplaceTokens(r, k, u)
    PROVE  OriginFacts(r)
  <1> DEFINE y == [IdleReq EXCEPT !.pc = "create", !.kind = k, !.user = u]
  <1>1. y.pc = "create" /\ y.kind = k /\ y.user = u
    BY DEF IdleReq
  <1>2. req' = [req EXCEPT ![r] = y] /\ nRow' = nRow /\ DeleteRows(RowsOf(k, u))
    BY DEF ReplaceTokens
  <1> HIDE DEF y
  <1>3. ASSUME NEW i \in Rows, row'[i].status = "live", row'[i].kind = k, row'[i].user = u
        PROVE  FALSE
    <2>1. CASE i \in RowsOf(k, u)
      BY <1>2, <1>3, <2>1, GoneFacts DEF DeleteRows
    <2>2. CASE i \notin RowsOf(k, u)
      <3>1. row'[i] = row[i]
        BY <1>2, <2>2 DEF DeleteRows
      <3> QED
        BY <1>3, <2>2, <3>1 DEF RowsOf, Present
    <2> QED
      BY <2>1, <2>2
  <1>4. req'[r] = y /\ \A q \in Reqs : q # r => req'[q] = req[q]
    BY <1>2, TypeFacts
  <1> QED
    BY <1>1, <1>2, <1>3, <1>4 DEF OriginFacts, Withdrawn

\* Cancelling the pending links withdraws them before the new one is created.
LEMMA OriginCancel ==
    ASSUME Inv, NEW r \in Reqs, CancelPending(r)
    PROVE  OriginFacts(r)
  <1> DEFINE y == [req[r] EXCEPT !.pc = "create"]
             S == Pending(req[r].user)
  <1>0. req[r] \in ReqType /\ row \in [Rows -> RowType]
    BY TypeFacts
  <1>1. y.pc = "create" /\ y.kind = req[r].kind /\ y.user = req[r].user
    BY <1>0 DEF ReqType
  <1>2. req[r].pc = "cancel" /\ req[r].kind = "magic"
    BY DEF CancelPending, Inv, ReqInv
  <1>3. /\ req' = [req EXCEPT ![r] = y] /\ nRow' = nRow
        /\ row' = [i \in Rows |-> IF i \in S THEN [row[i] EXCEPT !.status = "cancelled"]
                                             ELSE row[i]]
    BY DEF CancelPending, Goto
  <1>4. ASSUME NEW i \in Rows, row'[i].status = "live", row'[i].kind = "magic",
               row'[i].user = req[r].user
        PROVE  FALSE
    <2>1. CASE i \in S
      <3>1. row'[i] = [row[i] EXCEPT !.status = "cancelled"] /\ row[i] \in RowType
        BY <1>0, <1>3, <2>1
      <3>2. row'[i].status = "cancelled"
        BY <3>1 DEF RowType
      <3> QED
        BY <1>4, <3>2
    <2>2. CASE i \notin S
      <3>1. row'[i] = row[i]
        BY <1>3, <2>2
      <3> QED
        BY <1>4, <2>2, <3>1 DEF Pending, RowsOf, Present
    <2> QED
      BY <2>1, <2>2
  <1> HIDE DEF y, S
  <1>5. req'[r] = y /\ \A q \in Reqs : q # r => req'[q] = req[q]
    BY <1>3, TypeFacts
  <1> QED
    BY <1>1, <1>2, <1>3, <1>4, <1>5 DEF OriginFacts, Withdrawn

\* A link is requested only below the rate limit, as counted in this step.
LEMMA OriginLink ==
    ASSUME Inv, NEW r \in Reqs, NEW u \in Users, RequestLink(r, u)
    PROVE  OriginFacts(r)
  <1> DEFINE y == [IdleReq EXCEPT !.pc = "cancel", !.kind = "magic", !.user = u]
  <1>1. y.pc = "cancel" /\ y.kind = "magic" /\ y.user = u
    BY DEF IdleReq
  <1>2. /\ req' = [req EXCEPT ![r] = y] /\ UNCHANGED <<now, row, nRow>>
        /\ Cardinality(Recent(u)) < LinkLimit
    BY DEF RequestLink
  <1> HIDE DEF y
  <1>3. req'[r] = y /\ \A q \in Reqs : q # r => req'[q] = req[q]
    BY <1>2, TypeFacts
  <1> QED
    BY <1>1, <1>2, <1>3 DEF OriginFacts

\* The row created is of the kind and the user of its request, or restores a consent request.
LEMMA OriginCreate ==
    ASSUME Inv, NEW r \in Reqs, Create(r) \/ Restore(r)
    PROVE  OriginFacts(r)
  <1>0. ReqInv(req[r]) /\ req[r] \in ReqType
    BY TypeFacts DEF Inv
  <1>1. Finish(r) /\ UNCHANGED closed
    BY DEF Create, Restore
  <1>2. IdleReq.pc = "idle"
    BY DEF IdleReq
  <1>3. req'[r] = IdleReq /\ \A q \in Reqs : q # r => req'[q] = req[q]
    BY <1>1, TypeFacts DEF Finish
  <1>4. CASE Create(r)
    <2>1. req[r].kind \in Kinds /\ req[r].user \in Users \cup {NoUser}
      BY <1>0, <1>4 DEF ReqInv, Create, Kinds
    <2>2. CreateRow(req[r].kind, req[r].user) /\ req[r].pc = "create"
      BY <1>4 DEF Create
    <2>3. row'[nRow + 1].kind = req[r].kind /\ row'[nRow + 1].user = req[r].user
      BY <1>1, <2>1, <2>2, RowsCreate
    <2> QED
      BY <1>2, <1>3, <2>2, <2>3 DEF OriginFacts
  <1>5. CASE Restore(r)
    <2>1. "consent" \in Kinds /\ req[r].user \in Users \cup {NoUser}
      BY <1>0 DEF Kinds, ReqType
    <2>2. CreateRow("consent", req[r].user)
      BY <1>5 DEF Restore
    <2>3. row'[nRow + 1].kind = "consent"
      BY <1>1, <2>1, <2>2, RowsCreate
    <2> QED
      BY <1>2, <1>3, <2>3 DEF OriginFacts, Tokens
  <1> QED
    BY <1>4, <1>5

\* Together: every statement of a request accounts for the origin of what it creates.
LEMMA OriginStep ==
    ASSUME Inv, NEW r \in Reqs, Step(r)
    PROVE  OriginFacts(r)
  BY OriginReads, OriginEnds, OriginReplace, OriginCancel, OriginLink, OriginCreate DEF Step

\* A row that is live after a step was live before, or is the new one.
LEMMA LiveOrigin ==
    ASSUME Inv, RowFacts, NEW k, NEW u
    PROVE  /\ Live(k, u)' \subseteq Live(k, u) \cup {nRow + 1}
           /\ nRow + 1 \in Live(k, u)' =>
                \/ nRow + 1 \in Live(k, u)
                \/ /\ nRow' = nRow + 1
                   /\ row'[nRow + 1].kind = k /\ row'[nRow + 1].user = u
  <1>1. ASSUME NEW i \in Rows, i \in Live(k, u)'
        PROVE  i \in Live(k, u) \/ (Born(i) /\ row'[i].kind = k /\ row'[i].user = u)
    <2>1. row'[i].status = "live" /\ row'[i].kind = k /\ row'[i].user = u /\ RowMove(i)
      BY <1>1 DEF Live, RowsOf, RowFacts
    <2> QED
      BY <2>1 DEF RowMove, Kept, Died, Marked, Live, RowsOf, Present
  <1>2. Live(k, u)' \subseteq Rows
    BY DEF Live, RowsOf
  <1> QED
    BY <1>1, <1>2 DEF Born

\* No step makes more live rows and creators of one kind than there are requests.
LEMMA LiveNext ==
    ASSUME Inv, LiveInv, [Next]_vars
    PROVE  LiveInv'
  <1> SUFFICES ASSUME NEW u \in Users, NEW k \in Tokens \cup {"magic"}
               PROVE  Cardinality(Live(k, u)') + Cardinality(Creators(k, u)')
                        <= Cardinality(Reqs)
    BY DEF LiveInv
  <1> DEFINE A == Live(k, u)  B == Creators(k, u)
             A1 == Live(k, u)'  B1 == Creators(k, u)'
             n == Cardinality(Reqs)
  <1>0. /\ IsFiniteSet(A) /\ IsFiniteSet(B) /\ n \in Nat
        /\ Cardinality(A) + Cardinality(B) <= n
    <2>1. A \subseteq Rows /\ B \subseteq Reqs
      BY DEF Live, RowsOf, Creators
    <2> QED
      BY <2>1, AllFinite DEF LiveInv
  <1>1. SUFFICES \/ A1 \subseteq A /\ B1 \subseteq B
                 \/ \E x : \E b \in B : A1 \subseteq A \cup {x} /\ B1 \subseteq B \ {b}
                 \/ A1 = {} /\ B1 \subseteq Reqs
    <2>1. CASE A1 = {} /\ B1 \subseteq Reqs
      <3>1. Cardinality(A1) = 0
        BY <2>1, FS_EmptySet
      <3>2. Cardinality(B1) <= n /\ Cardinality(B1) \in Nat
        BY <2>1, AllFinite
      <3> HIDE DEF A1, B1, n
      <3> QED
        BY <3>1, <3>2 DEF A1, B1, n
    <2>2. CASE \/ A1 \subseteq A /\ B1 \subseteq B
               \/ \E x : \E b \in B : A1 \subseteq A \cup {x} /\ B1 \subseteq B \ {b}
      <3>1. Cardinality(A1) + Cardinality(B1) <= n
        <4> HIDE DEF A, B, A1, B1, n
        <4> QED
          BY <1>0, <2>2, SumKept
      <3> QED
        BY <3>1
    <2> QED
      BY <1>1, <2>1, <2>2
  <1>2. CASE InitiateDevice \/ (\E j \in Kinds, v \in Users : Store(j, v))
               \/ (\E j \in Swept : Sweep(j)) \/ Tick \/ UNCHANGED vars
    <2>1. RowFacts /\ UNCHANGED req
      BY <1>2, EnvFacts
    <2>2. B1 = B
      BY <2>1 DEF Creators
    <2>3. nRow' = nRow + 1 => row'[nRow + 1].kind \notin Tokens \cup {"magic"}
      <3>1. CASE InitiateDevice
        <4>1. row'[nRow + 1].kind = "device"
          BY <3>1, RowsCreate DEF InitiateDevice, Kinds
        <4> QED
          BY <4>1 DEF Tokens
      <3>2. ASSUME NEW j \in Kinds, NEW v \in Users, Store(j, v)
            PROVE  row'[nRow + 1].kind \notin Tokens \cup {"magic"}
        <4>1. row'[nRow + 1].kind = j /\ j \in {"consent", "invite"}
          BY <3>2, RowsCreate DEF Store
        <4> QED
          BY <4>1 DEF Tokens
      <3>3. (\E j \in Swept : Sweep(j)) \/ Tick \/ UNCHANGED vars => nRow' = nRow
        BY DEF Sweep, Tick, vars
      <3>4. nRow \in Nat
        BY TypeFacts
      <3> QED
        BY <1>2, <3>1, <3>2, <3>3, <3>4
    <2>4. A1 \subseteq A
      BY <2>1, <2>3, LiveOrigin
    <2> QED
      BY <2>2, <2>4
  <1>3. ASSUME NEW r \in Reqs, Step(r)
        PROVE  \/ A1 \subseteq A /\ B1 \subseteq B
               \/ \E x : \E b \in B : A1 \subseteq A \cup {x} /\ B1 \subseteq B \ {b}
               \/ A1 = {} /\ B1 \subseteq Reqs
    <2>1. RowFacts /\ OriginFacts(r)
      BY <1>3, StepFacts, OriginStep
    <2>2. B1 \subseteq Reqs
      BY DEF Creators
    <2>3. CASE r \in B1
      <3>1. req'[r].pc = "create" /\ req'[r].kind = k /\ req'[r].user = u
        BY <2>3 DEF Creators
      <3>2. Withdrawn(k, u)
        BY <2>1, <3>1 DEF OriginFacts
      <3>3. A1 = {}
        BY <3>2 DEF Withdrawn, Live, RowsOf
      <3> QED
        BY <2>2, <3>3
    <2>4. CASE r \notin B1
      <3>1. B1 \subseteq B \ {r}
        BY <2>1, <2>4 DEF OriginFacts, Creators
      <3>2. CASE A1 \subseteq A
        BY <3>1, <3>2
      <3>3. CASE ~(A1 \subseteq A)
        <4>1. /\ nRow' = nRow + 1
              /\ row'[nRow + 1].kind = k /\ row'[nRow + 1].user = u
          BY <2>1, <3>3, LiveOrigin
        <4>2. nRow' # nRow
          BY <4>1, TypeFacts
        <4>3. req[r].pc = "create" /\ req[r].kind = k /\ req[r].user = u
          BY <2>1, <4>1, <4>2 DEF OriginFacts
        <4>4. r \in B
          BY <4>3 DEF Creators
        <4>5. A1 \subseteq A \cup {nRow + 1}
          BY <2>1, LiveOrigin
        <4> HIDE DEF A, B, A1, B1
        <4> QED
          BY <3>1, <4>4, <4>5
      <3> QED
        BY <3>2, <3>3
    <2> QED
      BY <2>3, <2>4
  <1> QED
    BY <1>2, <1>3 DEF Next

\* Nothing is live and nobody is creating at first.
LEMMA LiveInit == Init => LiveInv
  <1> SUFFICES ASSUME Init, NEW u \in Users, NEW k \in Tokens \cup {"magic"}
               PROVE  Cardinality(Live(k, u)) + Cardinality(Creators(k, u))
                        <= Cardinality(Reqs)
    BY DEF LiveInv
  <1>1. Live(k, u) = {}
    BY DEF Init, NoRow, Live, RowsOf, Present
  <1>2. Creators(k, u) = {}
    BY DEF Init, IdleReq, Creators
  <1>3. Cardinality({}) = 0
    BY FS_EmptySet
  <1> QED
    BY <1>1, <1>2, <1>3, AllFinite

(* More tokens or links of one user are live at once only when creations    *)
(* overlapped: never more than there are requests in flight.                *)
THEOREM LiveBoundHolds == Spec => []LiveBounded
  <1>1. LiveInv => LiveBounded
    <2> SUFFICES ASSUME LiveInv, NEW u \in Users, NEW k \in Tokens \cup {"magic"}
                 PROVE  Cardinality(Live(k, u)) <= Cardinality(Reqs)
      BY DEF LiveBounded, Live
    <2>1. Live(k, u) \subseteq Rows /\ Creators(k, u) \subseteq Reqs
      BY DEF Live, RowsOf, Creators
    <2>2. Cardinality(Live(k, u)) \in Nat /\ Cardinality(Creators(k, u)) \in Nat
      BY <2>1, AllFinite
    <2>3. Cardinality(Live(k, u)) + Cardinality(Creators(k, u)) <= Cardinality(Reqs)
      BY DEF LiveInv
    <2> QED
      BY <2>2, <2>3, AllFinite
  <1>2. Inv /\ LiveInv /\ [Next]_vars => LiveInv'
    BY LiveNext
  <1>3. Spec => []LiveInv
    BY LiveInit, <1>2, InvHolds, PTL DEF Spec
  <1> QED
    BY <1>1, <1>3, PTL

\* A link that is recent after a step was so before, or is the new one.
LEMMA RecentOrigin ==
    ASSUME Inv, RowFacts, NEW u \in Users, now' \in Nat, now' >= now
    PROVE  /\ Recent(u)' \subseteq Recent(u) \cup {nRow + 1}
           /\ nRow + 1 \in Recent(u)' =>
                \/ nRow + 1 \in Recent(u)
                \/ /\ nRow' = nRow + 1
                   /\ row'[nRow + 1].kind = "magic" /\ row'[nRow + 1].user = u
  <1>0. now \in Nat /\ LinkWindow \in Nat /\ u # NoUser /\ row \in [Rows -> RowType]
    BY TypeFacts, OneTimeAssumption
  <1>1. ASSUME NEW i \in Rows, i \in Recent(u)'
        PROVE  i \in Recent(u) \/ (Born(i) /\ row'[i].kind = "magic" /\ row'[i].user = u)
    <2>1. /\ row'[i].status # "none" /\ row'[i].kind = "magic" /\ row'[i].user = u
          /\ row'[i].createdAt >= now' - LinkWindow /\ RowMove(i)
      BY <1>1 DEF Recent, RowFacts
    <2>2. row[i].createdAt \in Nat
      BY <1>0 DEF RowType
    <2>3. CASE /\ row'[i].kind = row[i].kind /\ row'[i].user = row[i].user
               /\ row'[i].createdAt = row[i].createdAt /\ row[i].status # "none"
      <3>1. row[i].createdAt >= now - LinkWindow
        BY <1>0, <2>1, <2>2, <2>3
      <3> QED
        BY <2>1, <2>3, <3>1 DEF Recent
    <2> QED
      BY <1>0, <2>1, <2>3 DEF RowMove, Kept, Died, Marked
  <1>2. Recent(u)' \subseteq Rows
    BY DEF Recent
  <1> QED
    BY <1>1, <1>2 DEF Born

\* Every step keeps a user's recent links, with the requests about to add one, bounded.
LEMMA LinkNext ==
    ASSUME Inv, LinkInv, [Next]_vars
    PROVE  LinkInv'
  <1> SUFFICES ASSUME NEW u \in Users
               PROVE  Cardinality(Recent(u)') + Cardinality(Linkers(u)')
                        < LinkLimit + Cardinality(Reqs)
    BY DEF LinkInv
  <1> DEFINE A == Recent(u)  B == Linkers(u)
             A1 == Recent(u)'  B1 == Linkers(u)'
             n == LinkLimit + Cardinality(Reqs) - 1
  <1>0. /\ IsFiniteSet(A) /\ IsFiniteSet(B) /\ n \in Nat
        /\ Cardinality(A) + Cardinality(B) <= n
        /\ Cardinality(A) \in Nat /\ LinkLimit \in Nat /\ Cardinality(Reqs) \in Nat
    <2>1. A \subseteq Rows /\ B \subseteq Reqs
      BY DEF Recent, Linkers
    <2>2. /\ IsFiniteSet(A) /\ Cardinality(A) \in Nat /\ IsFiniteSet(B)
          /\ Cardinality(B) \in Nat /\ Cardinality(Reqs) \in Nat /\ LinkLimit \in Nat \ {0}
      BY <2>1, AllFinite, OneTimeAssumption
    <2>3. Cardinality(A) + Cardinality(B) < LinkLimit + Cardinality(Reqs)
      BY DEF LinkInv
    <2> QED
      BY <2>2, <2>3
  <1>1. SUFFICES \/ A1 \subseteq A /\ B1 \subseteq B
                 \/ \E x : \E b \in B : A1 \subseteq A \cup {x} /\ B1 \subseteq B \ {b}
                 \/ A1 = A /\ Cardinality(A) < LinkLimit /\ B1 \subseteq Reqs
    <2>0. A1 \subseteq Rows /\ B1 \subseteq Reqs
      BY DEF Recent, Linkers
    <2>1. Cardinality(A1) \in Nat /\ Cardinality(B1) \in Nat /\ Cardinality(B1) <= Cardinality(Reqs)
      BY <2>0, AllFinite
    <2>2. CASE A1 = A /\ Cardinality(A) < LinkLimit /\ B1 \subseteq Reqs
      <3>1. Cardinality(A1) = Cardinality(A)
        BY <2>2
      <3> HIDE DEF A, A1, B1
      <3>2. Cardinality(A1) + Cardinality(B1) < LinkLimit + Cardinality(Reqs)
        BY <1>0, <2>1, <2>2, <3>1
      <3> QED
        BY <3>2 DEF A1, B1
    <2>3. CASE \/ A1 \subseteq A /\ B1 \subseteq B
               \/ \E x : \E b \in B : A1 \subseteq A \cup {x} /\ B1 \subseteq B \ {b}
      <3>1. Cardinality(A1) + Cardinality(B1) <= n
        <4> HIDE DEF A, B, A1, B1, n
        <4> QED
          BY <1>0, <2>3, SumKept
      <3>2. Cardinality(A1) + Cardinality(B1) < LinkLimit + Cardinality(Reqs)
        <4> HIDE DEF A, B, A1, B1
        <4> QED
          BY <1>0, <2>1, <3>1
      <3> QED
        BY <3>2
    <2> QED
      BY <1>1, <2>2, <2>3
  <1>2. CASE InitiateDevice \/ (\E j \in Kinds, v \in Users : Store(j, v))
               \/ (\E j \in Swept : Sweep(j)) \/ Tick \/ UNCHANGED vars
    <2>0. now \in Nat /\ nRow \in Nat
      BY TypeFacts
    <2>1. RowFacts /\ UNCHANGED req /\ now' \in Nat /\ now' >= now
      BY <1>2, <2>0, EnvFacts
    <2>2. B1 = B
      BY <2>1 DEF Linkers
    <2>3. nRow' = nRow + 1 => row'[nRow + 1].kind # "magic"
      <3>1. CASE InitiateDevice
        <4>1. row'[nRow + 1].kind = "device"
          BY <3>1, RowsCreate DEF InitiateDevice, Kinds
        <4> QED
          BY <4>1
      <3>2. ASSUME NEW j \in Kinds, NEW v \in Users, Store(j, v)
            PROVE  row'[nRow + 1].kind # "magic"
        <4>1. row'[nRow + 1].kind = j /\ j \in {"consent", "invite"}
          BY <3>2, RowsCreate DEF Store
        <4> QED
          BY <4>1
      <3>3. (\E j \in Swept : Sweep(j)) \/ Tick \/ UNCHANGED vars => nRow' = nRow
        BY DEF Sweep, Tick, vars
      <3> QED
        BY <1>2, <2>0, <3>1, <3>2, <3>3
    <2>4. A1 \subseteq A
      BY <2>1, <2>3, RecentOrigin
    <2> QED
      BY <2>2, <2>4
  <1>3. ASSUME NEW r \in Reqs, Step(r)
        PROVE  \/ A1 \subseteq A /\ B1 \subseteq B
               \/ \E x : \E b \in B : A1 \subseteq A \cup {x} /\ B1 \subseteq B \ {b}
               \/ A1 = A /\ Cardinality(A) < LinkLimit /\ B1 \subseteq Reqs
    <2>0. now \in Nat /\ nRow \in Nat
      BY TypeFacts
    <2>1. RowFacts /\ OriginFacts(r) /\ now' \in Nat /\ now' >= now
      BY <1>3, <2>0, StepFacts, OriginStep
    <2>2. B1 \subseteq Reqs
      BY DEF Linkers
    <2>3. CASE r \in B1 /\ req'[r].pc = "cancel"
      <3>1. req'[r].user = u
        BY <2>3 DEF Linkers
      <3>2. Cardinality(A) < LinkLimit /\ UNCHANGED <<row, now>>
        BY <2>1, <2>3, <3>1 DEF OriginFacts
      <3>3. A1 = A
        BY <3>2 DEF Recent
      <3> QED
        BY <2>2, <3>2, <3>3
    <2>4. CASE r \in B1 /\ req'[r].pc = "create"
      <3>1. req'[r].kind = "magic" /\ req'[r].user = u
        BY <2>4 DEF Linkers
      <3>2. req[r].pc = "cancel" /\ req[r].kind = "magic" /\ req[r].user = u
        BY <2>1, <2>4, <3>1 DEF OriginFacts, Tokens
      <3>3. B1 \subseteq B
        BY <2>1, <3>2 DEF OriginFacts, Linkers
      <3>4. nRow' = nRow \/ row'[nRow + 1].kind \notin Tokens \cup {"magic"}
        BY <2>1, <3>2 DEF OriginFacts
      <3>5. A1 \subseteq A
        BY <2>0, <2>1, <3>4, RecentOrigin
      <3> QED
        BY <3>3, <3>5
    <2>5. CASE r \notin B1
      <3>1. B1 \subseteq B \ {r}
        BY <2>1, <2>5 DEF OriginFacts, Linkers
      <3>2. CASE A1 \subseteq A
        BY <3>1, <3>2
      <3>3. CASE ~(A1 \subseteq A)
        <4>1. /\ nRow' = nRow + 1
              /\ row'[nRow + 1].kind = "magic" /\ row'[nRow + 1].user = u
          BY <2>1, <3>3, RecentOrigin
        <4>2. nRow' # nRow
          BY <2>0, <4>1
        <4>3. req[r].pc = "create" /\ req[r].kind = "magic" /\ req[r].user = u
          BY <2>1, <4>1, <4>2 DEF OriginFacts
        <4>4. r \in B
          BY <4>3 DEF Linkers
        <4>5. A1 \subseteq A \cup {nRow + 1}
          BY <2>1, RecentOrigin
        <4> HIDE DEF A, B, A1, B1
        <4> QED
          BY <3>1, <4>4, <4>5
      <3> QED
        BY <3>2, <3>3
    <2>6. r \in B1 => req'[r].pc \in {"cancel", "create"}
      BY DEF Linkers
    <2> QED
      BY <2>3, <2>4, <2>5, <2>6
  <1> QED
    BY <1>2, <1>3 DEF Next

\* No link has been sent at the start.
LEMMA LinkInit == Init => LinkInv
  <1> SUFFICES ASSUME Init, NEW u \in Users
               PROVE  Cardinality(Recent(u)) + Cardinality(Linkers(u))
                        < LinkLimit + Cardinality(Reqs)
    BY DEF LinkInv
  <1>1. Recent(u) = {}
    BY DEF Init, NoRow, Recent
  <1>2. Linkers(u) = {}
    BY DEF Init, IdleReq, Linkers
  <1>3. Cardinality({}) = 0
    BY FS_EmptySet
  <1> QED
    BY <1>1, <1>2, <1>3, AllFinite, OneTimeAssumption

(* requestMagicLink counts before it creates: the links of one window pass  *)
(* the limit by less than the number of requests in flight.                 *)
THEOREM LinkRateBoundHolds == Spec => []LinkRateBounded
  <1>1. LinkInv => LinkRateBounded
    <2> SUFFICES ASSUME LinkInv, NEW u \in Users
                 PROVE  Cardinality(Recent(u)) < LinkLimit + Cardinality(Reqs)
      BY DEF LinkRateBounded
    <2>1. Recent(u) \subseteq Rows /\ Linkers(u) \subseteq Reqs
      BY DEF Recent, Linkers
    <2>2. Cardinality(Recent(u)) \in Nat /\ Cardinality(Linkers(u)) \in Nat
      BY <2>1, AllFinite
    <2>3. Cardinality(Recent(u)) + Cardinality(Linkers(u)) < LinkLimit + Cardinality(Reqs)
      BY DEF LinkInv
    <2> QED
      BY <2>2, <2>3, AllFinite, OneTimeAssumption
  <1>2. Inv /\ LinkInv /\ [Next]_vars => LinkInv'
    BY LinkNext
  <1>3. Spec => []LinkInv
    BY LinkInit, <1>2, InvHolds, PTL DEF Spec
  <1> QED
    BY <1>1, <1>3, PTL
=============================================================================
