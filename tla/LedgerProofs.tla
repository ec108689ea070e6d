---------------------------- MODULE LedgerProofs ----------------------------
(***************************************************************************)
(* Theorems about Ledger for every set of participants, expenses,          *)
(* settlements, requests, accesses and bills, and about Idempotency, which *)
(* guards the writes of the ledger, for every set of calls, keys and       *)
(* bodies.                                                                 *)
(*                                                                         *)
(* Up to the balance of the expenses the sums of the ledger (RowSum) stay  *)
(* opaque: what the triggers give is that a sum was compared at COMMIT,    *)
(* and what the induction needs is only that a table which agrees on an    *)
(* expense's cells has the same sums.  The nets of the people take the     *)
(* laws of Sums.                                                           *)
(***************************************************************************)
EXTENDS Ledger, Idempotency, Sums, TLAPS

LEMMA CellParts ==
  ASSUME NEW c \in Cells
  PROVE  c[1] \in Kinds /\ c[2] \in Expenses /\ c[3] \in Participants /\ c = <<c[1], c[2], c[3]>>
  BY DEF Cells

LEMMA CellIn ==
  ASSUME NEW k \in Kinds, NEW e \in Expenses, NEW p \in Participants
  PROVE  <<k, e, p>> \in Cells
  BY DEF Cells

\* What a transaction sees in a cell is an amount or no row.
LEMMA ViewType ==
  ASSUME TypeOK, NEW r \in Requests, NEW c \in Cells
  PROVE  View(r, c) \in Int \cup {NoRow}
  BY DEF View, TypeOK

\* The initial states are well typed.
LEMMA InitTypeOK == Init => TypeOK
<1> SUFFICES ASSUME Init PROVE TypeOK
  OBVIOUS
<1>1. person \in [Participants -> {"absent", "active", "inactive"}]
  BY DEF Init
<1>2. NoJob \in JobType
  BY DEF NoJob, JobType, NoMatch, Authors
<1>3. NoDraft \in [Cells -> Int \cup {NoRow}]
  BY DEF NoDraft
<1> QED
  BY <1>1, <1>2, <1>3, ConstantsAssumption DEF Init, TypeOK, Steps, RewriteSteps, ExpenseType,
     SettlementType, Authors

\* Ending a transaction keeps the requests' variables well typed.
LEMMA FinishTypes ==
  ASSUME TypeOK, NEW r \in Requests, Finish(r)
  PROVE  /\ pc' \in [Requests -> Steps]
         /\ job' \in [Requests -> JobType]
         /\ wrote' \in [Requests -> SUBSET Cells]
         /\ draft' \in [Requests -> [Cells -> Int \cup {NoRow}]]
         /\ \A q \in Requests : pc'[q] \in RewriteSteps =>
               {job'[q].from, job'[q].to} \subseteq Participants
         /\ \A q \in Requests : pc'[q] = "deactivate" => job'[q].from \in Participants
<1>1. NoJob \in JobType
  BY DEF NoJob, JobType, NoMatch, Authors
<1>2. NoDraft \in [Cells -> Int \cup {NoRow}]
  BY DEF NoDraft
<1>3. "done" \in Steps /\ "done" \notin RewriteSteps /\ "done" # "deactivate"
  BY DEF Steps, RewriteSteps
<1>4. /\ pc' = [pc EXCEPT ![r] = "done"]
      /\ job' = [job EXCEPT ![r] = NoJob]
      /\ wrote' = [wrote EXCEPT ![r] = {}]
      /\ draft' = [draft EXCEPT ![r] = NoDraft]
  BY DEF Finish
<1>5. /\ pc \in [Requests -> Steps] /\ job \in [Requests -> JobType]
      /\ wrote \in [Requests -> SUBSET Cells]
      /\ draft \in [Requests -> [Cells -> Int \cup {NoRow}]]
      /\ \A q \in Requests : pc[q] \in RewriteSteps =>
               {job[q].from, job[q].to} \subseteq Participants
      /\ \A q \in Requests : pc[q] = "deactivate" => job[q].from \in Participants
  BY DEF TypeOK
<1> QED
  BY <1>1, <1>2, <1>3, <1>4, <1>5

\* A statement writes amounts or no row into cells, and moves to the next step
\* with the same two participants.
LEMMA WriteTypes ==
  ASSUME TypeOK, NEW r \in Requests, NEW values, DOMAIN values \subseteq Cells,
         \A c \in DOMAIN values : values[c] \in Int \cup {NoRow}, Write(r, values)
  PROVE  /\ wrote' \in [Requests -> SUBSET Cells]
         /\ draft' \in [Requests -> [Cells -> Int \cup {NoRow}]]
<1>1. wrote' = [wrote EXCEPT ![r] = @ \cup DOMAIN values]
  BY DEF Write
<1>2. draft' = [draft EXCEPT ![r] =
       [c \in Cells |-> IF c \in DOMAIN values THEN values[c] ELSE @[c]]]
  BY DEF Write
<1>3. [c \in Cells |-> IF c \in DOMAIN values THEN values[c] ELSE draft[r][c]]
        \in [Cells -> Int \cup {NoRow}]
  BY DEF TypeOK
<1> QED
  BY <1>1, <1>2, <1>3 DEF TypeOK

\* The four statements that rewrite rows.
LEMMA RewriteTypes ==
  ASSUME TypeOK, NEW r \in Requests,
         JoinRows(r) \/ MergeRows(r) \/ DropRows(r) \/ MoveRows(r)
  PROVE  TypeOK'
<1> DEFINE k == KindOf(pc[r])
           From(e) == <<k, e, job[r].from>>
           To(e) == <<k, e, job[r].to>>
<1>1. pc[r] \in RewriteSteps
  BY DEF JoinRows, MergeRows, DropRows, MoveRows, RewriteSteps
<1>2. /\ job[r] \in JobType
      /\ job[r].from \in Participants
      /\ job[r].to \in Participants
  BY <1>1 DEF TypeOK
<1>3. k \in Kinds
  BY DEF KindOf, Kinds
<1>4. \A e \in Expenses : From(e) \in Cells /\ To(e) \in Cells
  BY <1>2, <1>3 DEF Cells
<1>5. \A c \in Cells : View(r, c) \in Int \cup {NoRow}
  BY ViewType
<1>6. \A c \in Cells : c[2] \in Expenses
  BY CellParts
<1>7. /\ pc' \in [Requests -> Steps]
      /\ \A q \in Requests \ {r} : pc'[q] = pc[q]
  <2>1. After(pc[r]) \in Steps
    BY <1>1 DEF After, Steps, RewriteSteps
  <2>2. pc' = [pc EXCEPT ![r] = After(pc[r])]
    BY DEF JoinRows, MergeRows, DropRows, MoveRows, Advance
  <2> QED
    BY <2>1, <2>2 DEF TypeOK
<1>8. UNCHANGED <<person, expense, row, settlement, undone>>
  BY DEF JoinRows, MergeRows, DropRows, MoveRows, store
<1>9. NoMatch \in [Expenses -> Int \cup {NoRow}]
  BY DEF NoMatch
<1>10. ASSUME NEW m \in [Expenses -> Int \cup {NoRow}], job' = [job EXCEPT ![r].matched = m]
       PROVE  /\ job' \in [Requests -> JobType]
              /\ \A q \in Requests \ {r} : job'[q] = job[q]
              /\ job'[r].from = job[r].from /\ job'[r].to = job[r].to
  <2>1. [job[r] EXCEPT !.matched = m] \in JobType
    BY <1>2 DEF JobType
  <2>2. /\ [job[r] EXCEPT !.matched = m].from = job[r].from
        /\ [job[r] EXCEPT !.matched = m].to = job[r].to
    BY <1>2 DEF JobType
  <2>3. job' = [job EXCEPT ![r] = [job[r] EXCEPT !.matched = m]]
    BY <1>10
  <2>4. job \in [Requests -> JobType]
    BY DEF TypeOK
  <2> QED
    BY <2>1, <2>2, <2>3, <2>4
<1>11. /\ job' \in [Requests -> JobType]
       /\ \A q \in Requests \ {r} : job'[q] = job[q]
       /\ job'[r].from = job[r].from /\ job'[r].to = job[r].to
  <2>1. CASE JoinRows(r)
    <3> DEFINE m == [e \in Expenses |-> IF View(r, To(e)) # NoRow THEN View(r, From(e)) ELSE NoRow]
    <3>1. m \in [Expenses -> Int \cup {NoRow}]
      BY <1>4, <1>5
    <3>2. job' = [job EXCEPT ![r].matched = m]
      BY <2>1 DEF JoinRows
    <3> HIDE DEF m
    <3> QED
      BY <1>10, <3>1, <3>2
  <2>2. CASE MergeRows(r)
    <3>1. job' = [job EXCEPT ![r].matched = NoMatch]
      BY <2>2 DEF MergeRows
    <3> QED
      BY <1>9, <1>10, <3>1
  <2>3. CASE DropRows(r) \/ MoveRows(r)
    BY <2>3 DEF DropRows, MoveRows, TypeOK
  <2> QED
    BY <2>1, <2>2, <2>3
<1>12. /\ wrote' \in [Requests -> SUBSET Cells]
       /\ draft' \in [Requests -> [Cells -> Int \cup {NoRow}]]
  <2>1. CASE JoinRows(r)
    BY <2>1 DEF JoinRows, TypeOK
  <2>2. CASE MergeRows(r)
    <3> DEFINE hit == {e \in Expenses : job[r].matched[e] # NoRow /\ View(r, To(e)) # NoRow}
               values == [c \in {To(e) : e \in hit} |-> View(r, c) + job[r].matched[c[2]]]
    <3>1. Write(r, values)
      BY <2>2 DEF MergeRows
    <3>2. DOMAIN values \subseteq Cells
      BY <1>4
    <3>3. \A e \in Expenses : job[r].matched[e] \in Int \cup {NoRow}
      BY <1>2 DEF JobType
    <3>4. \A e \in hit : View(r, To(e)) \in Int /\ job[r].matched[e] \in Int
      BY <1>4, <1>5, <3>3
    <3>5. \A e \in hit : To(e)[2] = e
      OBVIOUS
    <3>6. ASSUME NEW e \in hit
          PROVE  values[To(e)] \in Int \cup {NoRow}
      <4>1. To(e) \in DOMAIN values
        OBVIOUS
      <4>2. values[To(e)] = View(r, To(e)) + job[r].matched[e]
        BY <3>5, <4>1
      <4> HIDE DEF values, To
      <4> QED
        BY <3>4, <4>2
    <3>7. \A c \in DOMAIN values : values[c] \in Int \cup {NoRow}
      BY <3>6
    <3> HIDE DEF values
    <3> QED
      BY <3>1, <3>2, <3>7, WriteTypes
  <2>3. CASE DropRows(r)
    <3> DEFINE both == {e \in Expenses : View(r, From(e)) # NoRow /\ View(r, To(e)) # NoRow}
               values == [c \in {From(e) : e \in both} |-> NoRow]
    <3>1. Write(r, values)
      BY <2>3 DEF DropRows
    <3>2. DOMAIN values \subseteq Cells
      BY <1>4
    <3>3. \A c \in DOMAIN values : values[c] \in Int \cup {NoRow}
      OBVIOUS
    <3> HIDE DEF values
    <3> QED
      BY <3>1, <3>2, <3>3, WriteTypes
  <2>4. CASE MoveRows(r)
    <3> DEFINE mine == {e \in Expenses : View(r, From(e)) # NoRow}
               values == [c \in {From(e) : e \in mine} \cup {To(e) : e \in mine} |->
                            IF c[3] = job[r].from THEN NoRow ELSE View(r, From(c[2]))]
    <3>1. Write(r, values)
      BY <2>4 DEF MoveRows
    <3>2. DOMAIN values \subseteq Cells
      BY <1>4
    <3>3. \A c \in DOMAIN values : values[c] \in Int \cup {NoRow}
      BY <1>4, <1>5, <1>6, <3>2
    <3> HIDE DEF values
    <3> QED
      BY <3>1, <3>2, <3>3, WriteTypes
  <2> QED
    BY <2>1, <2>2, <2>3, <2>4
<1>13. \A q \in Requests : pc'[q] \in RewriteSteps \cup {"deactivate"} =>
          /\ job'[q].from \in Participants
          /\ pc'[q] \in RewriteSteps => job'[q].to \in Participants
  BY <1>2, <1>7, <1>11 DEF TypeOK
<1> QED
  BY <1>7, <1>8, <1>11, <1>12, <1>13 DEF TypeOK, RewriteSteps

\* Every step keeps the variables well typed.
LEMMA NextTypeOK == TypeOK /\ [Next]_vars => TypeOK'
<1> SUFFICES ASSUME TypeOK, [Next]_vars PROVE TypeOK'
  OBVIOUS
<1>1. CASE UNCHANGED vars
  BY <1>1 DEF vars, TypeOK
<1>2. ASSUME NEW r \in Requests, NEW a \in Accesses, AddParticipantCount(r, a)
      PROVE  TypeOK'
  BY <1>2 DEF AddParticipantCount, TypeOK, store, Steps, RewriteSteps
<1>3. ASSUME NEW r \in Requests, NEW a \in Accesses, CreateExpenseRead(r, a)
      PROVE  TypeOK'
  <2>1. Active \subseteq Participants
    BY DEF Active
  <2>2. [job[r] EXCEPT !.seen = Active, !.author = a.user] \in JobType
    <3>1. a.user \in Authors /\ job[r] \in JobType
      BY DEF Authors, TypeOK
    <3> QED
      BY <2>1, <3>1 DEF JobType
  <2>3. job' = [job EXCEPT ![r] = [job[r] EXCEPT !.seen = Active, !.author = a.user]]
    BY <1>3 DEF CreateExpenseRead
  <2>4. job' \in [Requests -> JobType]
    BY <2>2, <2>3 DEF TypeOK
  <2>5. \A q \in Requests \ {r} : job'[q] = job[q] /\ pc'[q] = pc[q]
    BY <1>3, <2>3 DEF CreateExpenseRead, TypeOK
  <2>6. pc' \in [Requests -> Steps] /\ pc'[r] = "insertExpense"
    BY <1>3 DEF CreateExpenseRead, TypeOK, Steps
  <2> QED
    BY <1>3, <2>4, <2>5, <2>6 DEF CreateExpenseRead, TypeOK, store, RewriteSteps
<1>4. ASSUME NEW r \in Requests, NEW a \in Accesses, NEW p \in Participants,
             NEW target \in Participants \cup {Nobody}, RemoveParticipantRead(r, a, p, target)
      PROVE  TypeOK'
  <2> DEFINE rewrites == HasLedgerHistory(p) /\ target # Nobody
             to == IF rewrites THEN target ELSE Nobody
             step == IF rewrites THEN "joinShares" ELSE "deactivate"
  <2>1. job' = [job EXCEPT ![r].from = p, ![r].to = to] /\ pc' = [pc EXCEPT ![r] = step]
    BY <1>4 DEF RemoveParticipantRead
  <2>2. to \in Participants \cup {Nobody}
    OBVIOUS
  <2>3. step \in Steps
    BY DEF Steps, RewriteSteps
  <2>4. step # "deactivate" => to \in Participants
    OBVIOUS
  <2>5. UNCHANGED <<person, expense, row, settlement, wrote, draft, undone>>
    BY <1>4 DEF RemoveParticipantRead, store
  <2> HIDE DEF to, step
  <2>6. [job[r] EXCEPT !.from = p, !.to = to] \in JobType
    <3>1. job[r] \in JobType
      BY DEF TypeOK
    <3> QED
      BY <2>2, <3>1 DEF JobType
  <2>7. job' = [job EXCEPT ![r] = [job[r] EXCEPT !.from = p, !.to = to]]
    BY <2>1
  <2>8. job' \in [Requests -> JobType] /\ job'[r].from = p /\ job'[r].to = to
    BY <2>6, <2>7 DEF TypeOK, JobType
  <2>9. \A q \in Requests \ {r} : job'[q] = job[q] /\ pc'[q] = pc[q]
    BY <2>1, <2>7 DEF TypeOK
  <2>10. pc' \in [Requests -> Steps] /\ pc'[r] = step
    BY <2>1, <2>3 DEF TypeOK
  <2>11. "deactivate" \notin RewriteSteps
    BY DEF RewriteSteps
  <2>12. \A q \in Requests : pc'[q] \in RewriteSteps => {job'[q].from, job'[q].to} \subseteq Participants
    BY <2>4, <2>8, <2>9, <2>10, <2>11 DEF TypeOK
  <2>13. \A q \in Requests : pc'[q] = "deactivate" => job'[q].from \in Participants
    BY <2>8, <2>9 DEF TypeOK
  <2>14. /\ person' \in [Participants -> {"absent", "active", "inactive"}]
         /\ expense' \in [Expenses -> ExpenseType]
         /\ row' \in [Cells -> Int \cup {NoRow}]
         /\ settlement' \in [Settlements -> SettlementType]
         /\ wrote' \in [Requests -> SUBSET Cells]
         /\ draft' \in [Requests -> [Cells -> Int \cup {NoRow}]]
         /\ undone' \subseteq Expenses
    BY <2>5 DEF TypeOK
  <2> QED
    BY <2>8, <2>10, <2>12, <2>13, <2>14 DEF TypeOK
<1>5. ASSUME NEW r \in Requests, NEW p \in Participants, AddParticipantInsert(r, p)
      PROVE  TypeOK'
  <2>1. Finish(r) /\ UNCHANGED <<expense, row, settlement, undone>>
    BY <1>5 DEF AddParticipantInsert
  <2>2. person' \in [Participants -> {"absent", "active", "inactive"}]
    BY <1>5 DEF AddParticipantInsert, TypeOK
  <2> QED
    BY <2>1, <2>2, FinishTypes DEF TypeOK
<1>6. ASSUME NEW r \in Requests, NEW e \in Expenses, NEW bill \in Bills,
             CreateExpenseCommit(r, e, bill)
      PROVE  TypeOK'
  <2>1. Finish(r) /\ UNCHANGED <<person, settlement, undone>>
    BY <1>6 DEF CreateExpenseCommit
  <2>2. bill \in BillType
    BY ConstantsAssumption
  <2>3. row' \in [Cells -> Int \cup {NoRow}]
    BY <1>6, <2>2, CellParts DEF CreateExpenseCommit, Inserted, BillType, TypeOK
  <2>4. job[r].author \in Authors
    BY DEF TypeOK, JobType
  <2>5. [state |-> "live", total |-> bill.total, author |-> job[r].author] \in
          ExpenseType
    BY <2>2, <2>4 DEF BillType, ExpenseType
  <2>6. expense' \in [Expenses -> ExpenseType]
    BY <1>6, <2>5 DEF CreateExpenseCommit, TypeOK
  <2> QED
    BY <2>1, <2>3, <2>6, FinishTypes DEF TypeOK
<1>7. ASSUME NEW r \in Requests, JoinRows(r) \/ MergeRows(r) \/ DropRows(r) \/ MoveRows(r)
      PROVE  TypeOK'
  BY <1>7, RewriteTypes
<1>8. ASSUME NEW r \in Requests, RemoveParticipantCommit(r)
      PROVE  TypeOK'
  <2>1. Finish(r) /\ UNCHANGED <<expense, undone>>
    BY <1>8 DEF RemoveParticipantCommit
  <2>2. person' \in [Participants -> {"absent", "active", "inactive"}]
    BY <1>8 DEF RemoveParticipantCommit, TypeOK
  <2>3. row' \in [Cells -> Int \cup {NoRow}]
    BY <1>8, ViewType DEF RemoveParticipantCommit, Merged
  <2>4. settlement' = SettlementsMoved(r)
    BY <1>8 DEF RemoveParticipantCommit
  <2>5. job[r].to \in Participants \cup {Nobody}
    BY DEF TypeOK, JobType
  <2>6. settlement' \in [Settlements -> SettlementType]
    <3>1. ASSUME NEW s \in Settlements PROVE Reassigned(r, s) \in SettlementType
      <4>1. settlement[s] \in SettlementType
        BY DEF TypeOK
      <4> QED
        BY <2>5, <4>1 DEF Reassigned, SettlementType
    <3> QED
      BY <2>4, <3>1 DEF SettlementsMoved, TypeOK
  <2> QED
    BY <2>1, <2>2, <2>3, <2>6, FinishTypes DEF TypeOK
<1>9. ASSUME NEW r \in Requests, Abort(r)
      PROVE  TypeOK'
  <2>1. Finish(r) /\ UNCHANGED <<person, expense, row, settlement, undone>>
    BY <1>9 DEF Abort, store
  <2> QED
    BY <2>1, FinishTypes DEF TypeOK
<1>10. ASSUME NEW a \in Accesses, NEW e \in Expenses, DeleteExpense(a, e) \/ RestoreExpense(a, e)
       PROVE  TypeOK'
  <2>1. PICK st \in {"live", "deleted"} : expense' = [expense EXCEPT ![e].state = st]
    BY <1>10 DEF DeleteExpense, RestoreExpense
  <2>2. expense' \in [Expenses -> ExpenseType]
    <3>1. [expense[e] EXCEPT !.state = st] \in ExpenseType
      BY DEF TypeOK, ExpenseType
    <3> QED
      BY <2>1, <3>1 DEF TypeOK
  <2>3. undone' \subseteq Expenses
    BY <1>10 DEF DeleteExpense, RestoreExpense, TypeOK
  <2>4. UNCHANGED <<person, row, settlement, pc, job, wrote, draft>>
    BY <1>10 DEF DeleteExpense, RestoreExpense
  <2> QED
    BY <2>2, <2>3, <2>4 DEF TypeOK
<1>11. ASSUME NEW a \in Accesses, NEW s \in Settlements, ConfirmSettlement(a, s) \/ VoidSettlement(a, s)
       PROVE  TypeOK'
  <2>1. settlement' \in [Settlements -> SettlementType]
    <3>1. settlement[s] \in SettlementType
      BY DEF TypeOK
    <3>2. /\ [settlement[s] EXCEPT !.confirmed = TRUE] \in SettlementType
          /\ [settlement[s] EXCEPT !.state = "voided"] \in SettlementType
      BY <3>1 DEF SettlementType
    <3>3. \/ settlement' = [settlement EXCEPT ![s] = [settlement[s] EXCEPT !.confirmed = TRUE]]
          \/ settlement' = [settlement EXCEPT ![s] = [settlement[s] EXCEPT !.state = "voided"]]
      BY <1>11 DEF ConfirmSettlement, VoidSettlement
    <3> QED
      BY <3>2, <3>3 DEF TypeOK
  <2>2. UNCHANGED <<person, expense, row, pc, job, wrote, draft, undone>>
    BY <1>11 DEF ConfirmSettlement, VoidSettlement
  <2> QED
    BY <2>1, <2>2 DEF TypeOK
<1>12. ASSUME NEW a \in Accesses, NEW s \in Settlements, NEW from \in Participants,
              NEW to \in Participants, NEW amount \in Amounts,
              RecordSettlement(a, s, from, to, amount)
       PROVE  TypeOK'
  <2>1. amount \in Int
    BY ConstantsAssumption
  <2>2. settlement' \in [Settlements -> SettlementType]
    BY <1>12, <2>1 DEF RecordSettlement, TypeOK, SettlementType
  <2>3. UNCHANGED <<person, expense, row, pc, job, wrote, draft, undone>>
    BY <1>12 DEF RecordSettlement
  <2> QED
    BY <2>2, <2>3 DEF TypeOK
<1> QED
  BY <1>1, <1>2, <1>3, <1>4, <1>5, <1>6, <1>7, <1>8, <1>9, <1>10, <1>11, <1>12 DEF Next

\* Type correctness of the ledger: no statement of any overlapping request leaves
\* a row, a balance or a settlement outside its domain, and a reassignment under
\* way always has two participants.
THEOREM LedgerTypeOK == Spec => []TypeOK
  BY InitTypeOK, NextTypeOK, PTL DEF Spec

-----------------------------------------------------------------------------
(* Settlements *)

\* What a step can do to the settlements: nothing, move both ends of all of them
\* in a reassignment that passes settlements_distinct, or record, confirm or void one.
LEMMA SettlementSteps ==
  ASSUME [Next]_vars
  PROVE  \/ UNCHANGED settlement
         \/ \E r \in Requests : settlement' = SettlementsMoved(r) /\ Distinct(settlement')
         \/ \E a \in Accesses, s \in Settlements : ConfirmSettlement(a, s) \/ VoidSettlement(a, s)
         \/ \E a \in Accesses, s \in Settlements, from, to \in Participants, amount \in Amounts :
               RecordSettlement(a, s, from, to, amount)
<1>1. CASE UNCHANGED vars
  BY <1>1 DEF vars
<1>2. CASE \E r \in Requests : RemoveParticipantCommit(r)
  BY <1>2 DEF RemoveParticipantCommit
<1>3. CASE \E r \in Requests : JoinRows(r) \/ MergeRows(r) \/ DropRows(r) \/ MoveRows(r) \/ Abort(r)
  BY <1>3 DEF JoinRows, MergeRows, DropRows, MoveRows, Abort, store
<1>4. CASE \E r \in Requests, a \in Accesses : AddParticipantCount(r, a) \/ CreateExpenseRead(r, a)
  BY <1>4 DEF AddParticipantCount, CreateExpenseRead, store
<1>5. CASE \E r \in Requests, a \in Accesses, p \in Participants, target \in Participants \cup {Nobody} :
             RemoveParticipantRead(r, a, p, target)
  BY <1>5 DEF RemoveParticipantRead, store
<1>6. CASE \E r \in Requests, p \in Participants : AddParticipantInsert(r, p)
  BY <1>6 DEF AddParticipantInsert
<1>7. CASE \E r \in Requests, e \in Expenses, bill \in Bills : CreateExpenseCommit(r, e, bill)
  BY <1>7 DEF CreateExpenseCommit
<1>8. CASE \E a \in Accesses, e \in Expenses : DeleteExpense(a, e) \/ RestoreExpense(a, e)
  BY <1>8 DEF DeleteExpense, RestoreExpense
<1> QED
  BY <1>1, <1>2, <1>3, <1>4, <1>5, <1>6, <1>7, <1>8 DEF Next

LEMMA SettlementsSoundStep == TypeOK /\ SettlementsSound /\ [Next]_vars => SettlementsSound'
<1> SUFFICES ASSUME TypeOK, SettlementsSound, [Next]_vars,
                    NEW s \in Settlements, settlement'[s].state # "none"
             PROVE  settlement'[s].from # settlement'[s].to /\ settlement'[s].amount > 0
  BY DEF SettlementsSound
<1>1. settlement \in [Settlements -> SettlementType]
  BY DEF TypeOK
<1>2. CASE UNCHANGED settlement
  BY <1>2 DEF SettlementsSound
<1>3. ASSUME NEW r \in Requests, settlement' = SettlementsMoved(r), Distinct(settlement')
      PROVE  settlement'[s].from # settlement'[s].to /\ settlement'[s].amount > 0
  <2>1. settlement'[s].from # settlement'[s].to
    BY <1>3 DEF Distinct
  <2>2. settlement'[s].state = settlement[s].state /\ settlement'[s].amount = settlement[s].amount
    BY <1>1, <1>3 DEF SettlementsMoved, Reassigned, SettlementType
  <2> QED
    BY <2>1, <2>2 DEF SettlementsSound
<1>4. ASSUME NEW a \in Accesses, NEW t \in Settlements, ConfirmSettlement(a, t) \/ VoidSettlement(a, t)
      PROVE  settlement'[s].from # settlement'[s].to /\ settlement'[s].amount > 0
  <2>1. /\ settlement'[s].from = settlement[s].from /\ settlement'[s].to = settlement[s].to
        /\ settlement'[s].amount = settlement[s].amount
    BY <1>1, <1>4 DEF ConfirmSettlement, VoidSettlement, SettlementType
  <2>2. settlement[s].state # "none"
    BY <1>1, <1>4 DEF ConfirmSettlement, VoidSettlement, SettlementType
  <2> QED
    BY <2>1, <2>2 DEF SettlementsSound
<1>5. ASSUME NEW a \in Accesses, NEW t \in Settlements, NEW from \in Participants,
             NEW to \in Participants, NEW amount \in Amounts,
             RecordSettlement(a, t, from, to, amount)
      PROVE  settlement'[s].from # settlement'[s].to /\ settlement'[s].amount > 0
  BY <1>1, <1>5 DEF RecordSettlement, SettlementType, SettlementsSound
<1> QED
  BY <1>2, <1>3, <1>4, <1>5, SettlementSteps

\* However reassignments overlap with recording, every settlement ever recorded is
\* a positive transfer between two different people.
THEOREM LedgerSettlementsSound == Spec => []SettlementsSound
<1>1. Init => SettlementsSound
  BY DEF Init, SettlementsSound
<1> QED
  BY <1>1, LedgerTypeOK, SettlementsSoundStep, PTL DEF Spec

\* What SettlementHistoryPermanent says of one step.
HistoryKept(s) ==
  settlement[s].state # "none" =>
       /\ settlement'[s].state # "none"
       /\ settlement'[s].amount = settlement[s].amount
       /\ settlement[s].state = "voided" =>
            /\ settlement'[s].state = "voided"
            /\ settlement'[s].confirmed = settlement[s].confirmed

LEMMA HistoryStep == TypeOK /\ [Next]_vars => \A s \in Settlements : HistoryKept(s)
<1> SUFFICES ASSUME TypeOK, [Next]_vars, NEW s \in Settlements PROVE HistoryKept(s)
  OBVIOUS
<1>1. settlement \in [Settlements -> SettlementType]
  BY DEF TypeOK
<1>2. CASE UNCHANGED settlement
  BY <1>2 DEF HistoryKept
<1>3. ASSUME NEW r \in Requests, settlement' = SettlementsMoved(r)
      PROVE  HistoryKept(s)
  BY <1>1, <1>3 DEF HistoryKept, SettlementsMoved, Reassigned, SettlementType
<1>4. ASSUME NEW a \in Accesses, NEW t \in Settlements, ConfirmSettlement(a, t) \/ VoidSettlement(a, t)
      PROVE  HistoryKept(s)
  BY <1>1, <1>4 DEF HistoryKept, ConfirmSettlement, VoidSettlement, SettlementType
<1>5. ASSUME NEW a \in Accesses, NEW t \in Settlements, NEW from \in Participants,
             NEW to \in Participants, NEW amount \in Amounts,
             RecordSettlement(a, t, from, to, amount)
      PROVE  HistoryKept(s)
  BY <1>1, <1>5 DEF HistoryKept, RecordSettlement, SettlementType
<1> QED
  BY <1>2, <1>3, <1>4, <1>5, SettlementSteps

\* Settlement history is permanent (FR-SPLIT-31), reassignments included.
THEOREM LedgerHistoryPermanent == Spec => SettlementHistoryPermanent
<1>1. TypeOK /\ [Next]_vars => [\A s \in Settlements : HistoryKept(s)]_vars
  BY HistoryStep
<1> QED
  BY <1>1, LedgerTypeOK, PTL DEF Spec, SettlementHistoryPermanent, HistoryKept

-----------------------------------------------------------------------------
(* Balance of the expenses *)

\* Two tables that agree on an expense's cells have the same sums there.
LEMMA SameSum ==
  ASSUME NEW t, NEW u, NEW k \in Kinds, NEW e \in Expenses,
         \A p \in Participants : t[<<k, e, p>>] = u[<<k, e, p>>]
  PROVE  RowSum(t, k, e) = RowSum(u, k, e)
<1>1. [p \in Participants |-> AmountIn(t[<<k, e, p>>])]
        = [p \in Participants |-> AmountIn(u[<<k, e, p>>])]
  OBVIOUS
<1> QED
  BY <1>1 DEF RowSum

LEMMA SameBalance ==
  ASSUME NEW t, NEW u, NEW e \in Expenses, NEW total,
         \A k \in Kinds, p \in Participants : t[<<k, e, p>>] = u[<<k, e, p>>],
         SumsAgree(t, e, total)
  PROVE  SumsAgree(u, e, total)
<1>1. \A k \in Kinds : RowSum(t, k, e) = RowSum(u, k, e)
  BY SameSum
<1> QED
  BY <1>1 DEF SumsAgree

LEMMA BalancedStep ==
  TypeOK /\ UntouchedExpensesBalanced /\ [Next]_vars => UntouchedExpensesBalanced'
<1> SUFFICES ASSUME TypeOK, UntouchedExpensesBalanced, [Next]_vars,
                    NEW e \in Expenses, expense'[e].state = "live", e \notin undone'
             PROVE  SumsAgree(row', e, expense'[e].total)
  BY DEF UntouchedExpensesBalanced, Live, IsLive, Balanced
<1>1. ASSUME UNCHANGED row, undone \subseteq undone',
             expense'[e].total = expense[e].total, expense[e].state = "live"
      PROVE  SumsAgree(row', e, expense'[e].total)
  BY <1>1 DEF UntouchedExpensesBalanced, Live, IsLive, Balanced, SumsAgree, RowSum
<1>2. CASE UNCHANGED <<row, expense, undone>>
  BY <1>1, <1>2
<1>3. ASSUME NEW a \in Accesses, NEW f \in Expenses, DeleteExpense(a, f)
      PROVE  SumsAgree(row', e, expense'[e].total)
  <2>1. expense' = [expense EXCEPT ![f].state = "deleted"] /\ UNCHANGED <<row, undone>>
    BY <1>3 DEF DeleteExpense
  <2>2. expense[f] \in ExpenseType
    BY DEF TypeOK
  <2>3. e # f
    BY <2>1, <2>2 DEF TypeOK, ExpenseType
  <2> QED
    BY <1>1, <2>1, <2>3 DEF TypeOK
<1>4. ASSUME NEW a \in Accesses, NEW f \in Expenses, RestoreExpense(a, f)
      PROVE  SumsAgree(row', e, expense'[e].total)
  <2>1. /\ expense' = [expense EXCEPT ![f].state = "live"]
        /\ undone' = undone \cup {f} /\ UNCHANGED row
    BY <1>4 DEF RestoreExpense
  <2>2. e # f
    BY <2>1
  <2> QED
    BY <1>1, <2>1, <2>2 DEF TypeOK
<1>5. ASSUME NEW r \in Requests, NEW f \in Expenses, NEW bill \in Bills,
             CreateExpenseCommit(r, f, bill)
      PROVE  SumsAgree(row', e, expense'[e].total)
  <2>1. /\ row' = Inserted(f, bill)
        /\ SumsAgree(Inserted(f, bill), f, bill.total)
        /\ expense' = [expense EXCEPT ![f] = [state |-> "live", total |-> bill.total,
                                              author |-> job[r].author]]
        /\ UNCHANGED undone
    BY <1>5 DEF CreateExpenseCommit
  <2>2. CASE e = f
    BY <2>1, <2>2 DEF TypeOK
  <2>3. CASE e # f
    <3>1. expense'[e] = expense[e]
      BY <2>1, <2>3 DEF TypeOK
    <3>2. SumsAgree(row, e, expense[e].total)
      BY <2>1, <3>1 DEF UntouchedExpensesBalanced, Live, IsLive, Balanced
    <3>3. \A k \in Kinds, p \in Participants : row[<<k, e, p>>] = Inserted(f, bill)[<<k, e, p>>]
      BY <2>3, CellIn DEF Inserted
    <3> QED
      BY <2>1, <3>1, <3>2, <3>3, SameBalance
  <2> QED
    BY <2>2, <2>3
<1>6. ASSUME NEW r \in Requests, RemoveParticipantCommit(r)
      PROVE  SumsAgree(row', e, expense'[e].total)
  <2>1. row' = Merged(r) /\ TriggersPass(r) /\ UNCHANGED <<expense, undone>>
    BY <1>6 DEF RemoveParticipantCommit
  <2>2. CASE e \in Touched(r)
    BY <2>1, <2>2 DEF TriggersPass, IsLive
  <2>3. CASE e \notin Touched(r)
    <3>1. SumsAgree(row, e, expense[e].total)
      BY <2>1 DEF UntouchedExpensesBalanced, Live, IsLive, Balanced
    <3>2. ASSUME NEW k \in Kinds, NEW p \in Participants
          PROVE  row[<<k, e, p>>] = Merged(r)[<<k, e, p>>]
      <4>1. <<k, e, p>> \in Cells
        BY CellIn
      <4>2. <<k, e, p>> \notin wrote[r]
        BY <2>3 DEF Touched
      <4> QED
        BY <4>1, <4>2 DEF Merged, View
    <3> QED
      BY <2>1, <3>1, <3>2, SameBalance
  <2> QED
    BY <2>2, <2>3
<1>7. \/ UNCHANGED <<row, expense, undone>>
      \/ \E a \in Accesses, f \in Expenses : DeleteExpense(a, f) \/ RestoreExpense(a, f)
      \/ \E r \in Requests, f \in Expenses, bill \in Bills : CreateExpenseCommit(r, f, bill)
      \/ \E r \in Requests : RemoveParticipantCommit(r)
  <2>1. CASE UNCHANGED vars
    BY <2>1 DEF vars
  <2>2. CASE \E r \in Requests : JoinRows(r) \/ MergeRows(r) \/ DropRows(r) \/ MoveRows(r) \/ Abort(r)
    BY <2>2 DEF JoinRows, MergeRows, DropRows, MoveRows, Abort, store
  <2>3. CASE \E r \in Requests, a \in Accesses : AddParticipantCount(r, a) \/ CreateExpenseRead(r, a)
    BY <2>3 DEF AddParticipantCount, CreateExpenseRead, store
  <2>4. CASE \E r \in Requests, a \in Accesses, p \in Participants, target \in Participants \cup {Nobody} :
               RemoveParticipantRead(r, a, p, target)
    BY <2>4 DEF RemoveParticipantRead, store
  <2>5. CASE \E r \in Requests, p \in Participants : AddParticipantInsert(r, p)
    BY <2>5 DEF AddParticipantInsert
  <2>6. CASE \E a \in Accesses, s \in Settlements : ConfirmSettlement(a, s) \/ VoidSettlement(a, s)
    BY <2>6 DEF ConfirmSettlement, VoidSettlement
  <2>7. CASE \E a \in Accesses, s \in Settlements, from, to \in Participants, amount \in Amounts :
               RecordSettlement(a, s, from, to, amount)
    BY <2>7 DEF RecordSettlement
  <2> QED
    BY <2>1, <2>2, <2>3, <2>4, <2>5, <2>6, <2>7 DEF Next
<1> QED
  BY <1>2, <1>3, <1>4, <1>5, <1>6, <1>7

\* An expense that has stayed live since its creation is balanced, whatever
\* removals, creations and deletions overlapped: for every bill a resolver may
\* hand over, balanced or not, and any number of requests.
THEOREM LedgerBalanced == Spec => []UntouchedExpensesBalanced
<1>1. Init => UntouchedExpensesBalanced
  BY DEF Init, UntouchedExpensesBalanced, Live, IsLive
<1> QED
  BY <1>1, LedgerTypeOK, BalancedStep, PTL DEF Spec

-----------------------------------------------------------------------------
(* Nets                                                                      *)

\* Whoever a settlement names is a participant.
EndsKnown ==
  \A s \in Settlements : settlement[s].state # "none" =>
    settlement[s].from \in Participants /\ settlement[s].to \in Participants

LEMMA EndsKnownStep == TypeOK /\ EndsKnown /\ [Next]_vars => EndsKnown'
<1> SUFFICES ASSUME TypeOK, EndsKnown, [Next]_vars,
                    NEW s \in Settlements, settlement'[s].state # "none"
             PROVE  settlement'[s].from \in Participants /\ settlement'[s].to \in Participants
  BY DEF EndsKnown
<1>1. settlement \in [Settlements -> SettlementType]
  BY DEF TypeOK
<1>2. CASE UNCHANGED settlement
  BY <1>2 DEF EndsKnown
<1>3. ASSUME NEW r \in Requests, settlement' = SettlementsMoved(r)
      PROVE  settlement'[s].from \in Participants /\ settlement'[s].to \in Participants
  <2>1. job[r].to \in Participants \cup {Nobody}
    BY DEF TypeOK, JobType
  <2>2. CASE job[r].to = Nobody
    BY <1>3, <2>2 DEF SettlementsMoved, EndsKnown
  <2>3. CASE job[r].to \in Participants
    <3>1. job[r].to # Nobody
      BY <2>3, ConstantsAssumption
    <3>2. settlement'[s] = Reassigned(r, s)
      BY <1>3, <3>1 DEF SettlementsMoved
    <3>3. settlement[s].state # "none"
      BY <1>1, <3>2 DEF Reassigned, SettlementType
    <3> QED
      BY <1>1, <2>3, <3>2, <3>3 DEF Reassigned, SettlementType, EndsKnown
  <2> QED
    BY <2>1, <2>2, <2>3
<1>4. ASSUME NEW a \in Accesses, NEW t \in Settlements, ConfirmSettlement(a, t) \/ VoidSettlement(a, t)
      PROVE  settlement'[s].from \in Participants /\ settlement'[s].to \in Participants
  BY <1>1, <1>4 DEF ConfirmSettlement, VoidSettlement, SettlementType, EndsKnown
<1>5. ASSUME NEW a \in Accesses, NEW t \in Settlements, NEW from \in Participants,
             NEW to \in Participants, NEW amount \in Amounts,
             RecordSettlement(a, t, from, to, amount)
      PROVE  settlement'[s].from \in Participants /\ settlement'[s].to \in Participants
  BY <1>1, <1>5 DEF RecordSettlement, SettlementType, EndsKnown
<1> QED
  BY <1>2, <1>3, <1>4, <1>5, SettlementSteps

LEMMA AmountTypes ==
  ASSUME TypeOK
  PROVE  \A k \in Kinds, e \in Expenses, p \in Participants : AmountIn(row[<<k, e, p>>]) \in Int
<1> SUFFICES ASSUME NEW k \in Kinds, NEW e \in Expenses, NEW p \in Participants
             PROVE  AmountIn(row[<<k, e, p>>]) \in Int
  OBVIOUS
<1>1. row[<<k, e, p>>] \in Int \cup {NoRow}
  BY CellIn DEF TypeOK
<1> QED
  BY <1>1 DEF AmountIn

\* Over all people, the rows of a kind come to what the live expenses come to.
LEMMA TotalsMeet ==
  ASSUME TypeOK, LiveExpensesBalanced, NEW k \in Kinds
  PROVE  /\ Ints([p \in Participants |-> Total(k, p)], Participants)
         /\ Sum([p \in Participants |-> Total(k, p)], Participants)
              = Sum([e \in Live |-> expense[e].total], Live)
<1> DEFINE h == [p \in Participants |-> [e \in Live |-> AmountIn(row[<<k, e, p>>])]]
<1>1. IsFiniteSet(Participants) /\ IsFiniteSet(Live) /\ Live \subseteq Expenses
  BY FiniteAssumption, FS_Subset DEF Live
<1>2. \A p \in Participants, e \in Live : h[p][e] \in Int
  BY <1>1, AmountTypes
<1>3. \A p \in Participants : Total(k, p) = Sum(h[p], Live)
  BY DEF Total, Sum, SumFunction
<1>4. [p \in Participants |-> Total(k, p)] = [p \in Participants |-> Sum(h[p], Live)]
  BY <1>3
<1>5. Ints([p \in Participants |-> Total(k, p)], Participants)
  <2>1. \A p \in Participants : Ints(h[p], Live)
    BY <1>2 DEF Ints
  <2>2. \A p \in Participants : Sum(h[p], Live) \in Int
    <3> HIDE DEF h
    <3> QED
      BY <1>1, <2>1, SumIsPartial
  <2> QED
    BY <1>3, <2>2 DEF Ints
<1>6. \A e \in Live : Sum([p \in Participants |-> h[p][e]], Participants) = expense[e].total
  <2> SUFFICES ASSUME NEW e \in Live
               PROVE  Sum([p \in Participants |-> h[p][e]], Participants) = expense[e].total
    OBVIOUS
  <2>1. RowSum(row, k, e) = expense[e].total
    BY DEF LiveExpensesBalanced, Balanced, SumsAgree
  <2>2. [p \in Participants |-> h[p][e]] = [p \in Participants |-> AmountIn(row[<<k, e, p>>])]
    OBVIOUS
  <2> QED
    BY <2>1, <2>2 DEF RowSum, Sum, SumFunction
<1>7. [e \in Live |-> Sum([p \in Participants |-> h[p][e]], Participants)]
        = [e \in Live |-> expense[e].total]
  BY <1>6
<1>8. Sum([p \in Participants |-> Sum(h[p], Live)], Participants)
        = Sum([e \in Live |-> Sum([p \in Participants |-> h[p][e]], Participants)], Live)
  <2> HIDE DEF h
  <2> QED
    BY <1>1, <1>2, SumExchange
<1> QED
  BY <1>4, <1>5, <1>7, <1>8

\* What is sent, or received, over all people is what the open settlements move.
LEMMA MovesMeet ==
  ASSUME TypeOK, EndsKnown, NEW side \in {"from", "to"}
  PROVE  /\ Ints([p \in Participants |-> Moved(side, p)], Participants)
         /\ Sum([p \in Participants |-> Moved(side, p)], Participants)
              = Sum([s \in Settlements |->
                       IF settlement[s].state = "open" THEN settlement[s].amount ELSE 0], Settlements)
<1> DEFINE open == [s \in Settlements |->
                      IF settlement[s].state = "open" THEN settlement[s].amount ELSE 0]
           h == [p \in Participants |-> [s \in Settlements |->
                   IF settlement[s].state = "open" /\ settlement[s][side] = p
                   THEN settlement[s].amount ELSE 0]]
<1>1. IsFiniteSet(Participants) /\ IsFiniteSet(Settlements)
  BY FiniteAssumption
<1>2. \A s \in Settlements : settlement[s].amount \in Int
  BY DEF TypeOK, SettlementType
<1>3. \A p \in Participants, s \in Settlements : h[p][s] \in Int
  BY <1>2
<1>4. ASSUME NEW p \in Participants
      PROVE  Moved(side, p) = Sum(h[p], Settlements) /\ Sum(h[p], Settlements) \in Int
  <2> DEFINE mine == {x \in Settlements : settlement[x].state = "open" /\ settlement[x][side] = p}
             f == [s \in mine |-> settlement[s].amount]
             g == h[p]
  <2>1. mine \in SUBSET Settlements /\ IsFiniteSet(mine)
    BY <1>1, FS_Subset
  <2>2. Ints(g, Settlements) /\ Ints(f, mine)
    BY <1>2, <1>3 DEF Ints
  <2>3. Moved(side, p) = Sum(f, mine)
    BY DEF Moved, Sum, SumFunction
  <2>4. \A s \in Settlements \ mine : g[s] = 0
    OBVIOUS
  <2>5. \A s \in mine : f[s] = g[s]
    OBVIOUS
  <2> HIDE DEF f, g, mine
  <2>6. Sum(g, Settlements) = Sum(g, mine)
    BY <1>1, <2>1, <2>2, <2>4, SumZeros
  <2>7. Sum(f, mine) = Sum(g, mine)
    BY <2>1, <2>2, <2>5, SumSame
  <2>8. Sum(g, Settlements) \in Int
    BY <1>1, <2>2, SumIsPartial
  <2> QED
    BY <2>3, <2>6, <2>7, <2>8 DEF g
<1>5. \A s \in Settlements : Sum([p \in Participants |-> h[p][s]], Participants) = open[s]
  <2> SUFFICES ASSUME NEW s \in Settlements
               PROVE  Sum([p \in Participants |-> h[p][s]], Participants) = open[s]
    OBVIOUS
  <2> DEFINE f == [p \in Participants |-> h[p][s]]
  <2>1. Ints(f, Participants)
    BY <1>3 DEF Ints
  <2>2. CASE settlement[s].state = "open"
    <3>1. settlement[s][side] \in Participants
      BY <2>2 DEF EndsKnown
    <3> DEFINE a == settlement[s][side]
    <3>2. f[a] = open[s] /\ a \in Participants /\ \A p \in Participants \ {a} : f[p] = 0
      BY <2>2, <3>1
    <3> HIDE DEF f, a
    <3>3. Sum(f, Participants) = f[a]
      BY <1>1, <2>1, <3>2, SumOne
    <3> QED
      BY <3>2, <3>3 DEF f
  <2>3. CASE settlement[s].state # "open"
    <3>1. open[s] = 0 /\ {} \in SUBSET Participants /\ \A p \in Participants \ {} : f[p] = 0
      BY <2>3
    <3> HIDE DEF f
    <3>2. Sum(f, Participants) = Sum(f, {})
      BY <1>1, <2>1, <3>1, SumZeros
    <3>3. Sum(f, Participants) = open[s]
      BY <3>1, <3>2, SumEmpty
    <3> QED
      BY <3>3 DEF f
  <2> QED
    BY <2>2, <2>3
<1>6. Sum([p \in Participants |-> Sum(h[p], Settlements)], Participants)
        = Sum([s \in Settlements |-> Sum([p \in Participants |-> h[p][s]], Participants)], Settlements)
  <2> HIDE DEF h
  <2> QED
    BY <1>1, <1>3, SumExchange
<1>7. [p \in Participants |-> Moved(side, p)] = [p \in Participants |-> Sum(h[p], Settlements)]
  BY <1>4
<1>8. [s \in Settlements |-> Sum([p \in Participants |-> h[p][s]], Participants)] = open
  BY <1>5
<1>9. Ints([p \in Participants |-> Moved(side, p)], Participants)
  BY <1>4 DEF Ints
<1> QED
  BY <1>6, <1>7, <1>8, <1>9

Nets == [p \in Participants |-> Net(p)]

LEMMA NetsCancel ==
  ASSUME TypeOK, EndsKnown, LiveExpensesBalanced
  PROVE  Ints(Nets, Participants) /\ Sum(Nets, Participants) = 0
<1> DEFINE paid == [p \in Participants |-> Total("payment", p)]
           owed == [p \in Participants |-> Total("share", p)]
           sent == [p \in Participants |-> Moved("from", p)]
           got == [p \in Participants |-> Moved("to", p)]
           up == [p \in Participants |-> paid[p] + sent[p]]
           down == [p \in Participants |-> owed[p] + got[p]]
<1>1. /\ Ints(paid, Participants) /\ Ints(owed, Participants)
      /\ Sum(paid, Participants) = Sum(owed, Participants)
  BY TotalsMeet DEF Kinds
<1>2. /\ Ints(sent, Participants) /\ Ints(got, Participants)
      /\ Sum(sent, Participants) = Sum(got, Participants)
  BY MovesMeet
<1>3. \A p \in Participants : Nets[p] = paid[p] - owed[p] + sent[p] - got[p]
  BY DEF Nets, Net
<1>4. /\ \A p \in Participants : up[p] = paid[p] + sent[p] /\ down[p] = owed[p] + got[p]
      /\ IsFiniteSet(Participants)
  BY FiniteAssumption
<1> HIDE DEF paid, owed, sent, got, up, down
<1>5. Ints(up, Participants) /\ Ints(down, Participants) /\ Ints(Nets, Participants)
  BY <1>1, <1>2, <1>3, <1>4 DEF Ints
<1>6. Sum(up, Participants) = Sum(paid, Participants) + Sum(sent, Participants)
  BY <1>1, <1>2, <1>4, SumPlus
<1>7. Sum(down, Participants) = Sum(owed, Participants) + Sum(got, Participants)
  BY <1>1, <1>2, <1>4, SumPlus
<1>8. Sum(up, Participants) = Sum(Nets, Participants) + Sum(down, Participants)
  <2>1. \A p \in Participants : up[p] = Nets[p] + down[p]
    BY <1>1, <1>2, <1>3, <1>4 DEF Ints
  <2> QED
    BY <1>4, <1>5, <2>1, SumPlus
<1>9. Sum(Nets, Participants) \in Int /\ Sum(up, Participants) \in Int /\ Sum(down, Participants) \in Int
  BY <1>4, <1>5, SumIsPartial
<1>10. Sum(up, Participants) = Sum(down, Participants)
  BY <1>1, <1>2, <1>6, <1>7
<1> QED
  BY <1>5, <1>8, <1>9, <1>10

LEMMA BalancesFollow == TypeOK /\ EndsKnown => BalancesNeverRefuse
BY NetsCancel DEF BalancesNeverRefuse, Nets, Sum, SumFunction

\* Whatever happens to settlements, and whoever is removed or replaced, the nets
\* of the people cancel as long as every live expense is balanced: assertBalanced
\* refuses the balances page for no other reason.
THEOREM LedgerNeverRefuses == Spec => []BalancesNeverRefuse
<1>1. Init => EndsKnown
  BY DEF Init, EndsKnown
<1> QED
  BY <1>1, LedgerTypeOK, EndsKnownStep, BalancesFollow, PTL DEF Spec

-----------------------------------------------------------------------------
(* Removals                                                                  *)

\* Only a removal writes, and only rows of the two people it is about.
WroteKnown ==
  \A r \in Requests :
    /\ pc[r] \in {"idle", "insertParticipant", "insertExpense", "done"} => wrote[r] = {}
    /\ \A c \in wrote[r] : c[3] \in {job[r].from, job[r].to}

\* A step of request r that writes, in its transaction, rows of these two.
LEMMA WroteMore ==
  ASSUME TypeOK, WroteKnown, NEW r \in Requests, NEW values,
         \A c \in DOMAIN values : c[3] \in {job[r].from, job[r].to},
         Write(r, values), pc[r] \in RewriteSteps, Advance(r),
         \/ job' = job
         \/ job' = [job EXCEPT ![r].matched = NoMatch]
  PROVE  WroteKnown'
<1> SUFFICES ASSUME NEW q \in Requests
             PROVE  /\ pc'[q] \in {"idle", "insertParticipant", "insertExpense", "done"} => wrote'[q] = {}
                    /\ \A c \in wrote'[q] : c[3] \in {job'[q].from, job'[q].to}
  BY DEF WroteKnown
<1>1. job'[q].from = job[q].from /\ job'[q].to = job[q].to
  <2>1. job[r] \in JobType /\ DOMAIN job = Requests
    BY DEF TypeOK
  <2>2. [job[r] EXCEPT !.matched = NoMatch].from = job[r].from
        /\ [job[r] EXCEPT !.matched = NoMatch].to = job[r].to
    BY <2>1 DEF JobType
  <2>3. job'[q] = job[q] \/ (q = r /\ job'[q] = [job[r] EXCEPT !.matched = NoMatch])
    BY <2>1
  <2> QED
    BY <2>2, <2>3
<1>2. CASE q = r
  <2>1. pc'[r] \notin {"idle", "insertParticipant", "insertExpense", "done"}
    BY DEF Advance, After, RewriteSteps, TypeOK
  <2>2. wrote'[r] = wrote[r] \cup DOMAIN values
    BY DEF Write, TypeOK
  <2> QED
    BY <1>1, <1>2, <2>1, <2>2 DEF WroteKnown
<1>3. CASE q # r
  BY <1>1, <1>3 DEF Advance, Write, WroteKnown, TypeOK
<1> QED
  BY <1>2, <1>3

LEMMA WroteFinish ==
  ASSUME TypeOK, WroteKnown, NEW r \in Requests, Finish(r)
  PROVE  WroteKnown'
BY DEF Finish, WroteKnown, TypeOK

\* A request that has written nothing yet.
LEMMA WroteNothing ==
  ASSUME TypeOK, WroteKnown, NEW r \in Requests, pc[r] = "idle", UNCHANGED wrote,
         \A q \in Requests \ {r} : pc'[q] = pc[q] /\ job'[q] = job[q]
  PROVE  WroteKnown'
BY DEF WroteKnown

LEMMA WroteStep == TypeOK /\ WroteKnown /\ [Next]_vars => WroteKnown'
<1> SUFFICES ASSUME TypeOK, WroteKnown, [Next]_vars PROVE WroteKnown'
  OBVIOUS
<1>1. CASE UNCHANGED <<pc, job, wrote>>
  BY <1>1 DEF WroteKnown
<1>2. ASSUME NEW r \in Requests, NEW a \in Accesses,
             \/ AddParticipantCount(r, a) \/ CreateExpenseRead(r, a)
             \/ \E p \in Participants, target \in Participants \cup {Nobody} :
                  RemoveParticipantRead(r, a, p, target)
      PROVE  WroteKnown'
  <2>1. /\ pc[r] = "idle" /\ UNCHANGED wrote
        /\ \A q \in Requests \ {r} : pc'[q] = pc[q] /\ job'[q] = job[q]
    BY <1>2 DEF AddParticipantCount, CreateExpenseRead, RemoveParticipantRead, TypeOK
  <2> QED
    BY <2>1, WroteNothing
<1>3. ASSUME NEW r \in Requests, Finish(r) PROVE WroteKnown'
  BY <1>3, WroteFinish
<1>4. ASSUME NEW r \in Requests, JoinRows(r) PROVE WroteKnown'
  <2>1. /\ UNCHANGED wrote /\ \A q \in Requests : job'[q].from = job[q].from /\ job'[q].to = job[q].to
    BY <1>4 DEF JoinRows, TypeOK, JobType
  <2>2. pc'[r] \notin {"idle", "insertParticipant", "insertExpense", "done"}
    BY <1>4 DEF JoinRows, Advance, After, TypeOK
  <2>3. \A q \in Requests \ {r} : pc'[q] = pc[q]
    BY <1>4 DEF JoinRows, Advance, TypeOK
  <2> QED
    BY <2>1, <2>2, <2>3 DEF WroteKnown
<1>5. ASSUME NEW r \in Requests, MergeRows(r) PROVE WroteKnown'
  <2> DEFINE k == KindOf(pc[r])
             To(e) == <<k, e, job[r].to>>
             hit == {e \in Expenses : job[r].matched[e] # NoRow /\ View(r, To(e)) # NoRow}
             values == [c \in {To(e) : e \in hit} |-> View(r, c) + job[r].matched[c[2]]]
  <2>1. Write(r, values) /\ Advance(r) /\ job' = [job EXCEPT ![r].matched = NoMatch]
        /\ pc[r] \in RewriteSteps
    BY <1>5 DEF MergeRows, RewriteSteps
  <2>2. \A c \in DOMAIN values : c[3] \in {job[r].from, job[r].to}
    <3>1. DOMAIN values = {To(e) : e \in hit}
      OBVIOUS
    <3>2. ASSUME NEW c \in DOMAIN values PROVE \E e \in Expenses : c = <<k, e, job[r].to>>
      BY <3>1
    <3>3. ASSUME NEW c, NEW e, NEW x, c = <<k, e, x>> PROVE c[3] = x
      BY <3>3
    <3> QED
      BY <3>2, <3>3
  <2> HIDE DEF values
  <2> QED
    BY <2>1, <2>2, WroteMore
<1>6. ASSUME NEW r \in Requests, DropRows(r) PROVE WroteKnown'
  <2> DEFINE k == KindOf(pc[r])
             both == {e \in Expenses : /\ View(r, <<k, e, job[r].from>>) # NoRow
                                       /\ View(r, <<k, e, job[r].to>>) # NoRow}
             values == [c \in {<<k, e, job[r].from>> : e \in both} |-> NoRow]
  <2>1. Write(r, values) /\ Advance(r) /\ job' = job /\ pc[r] \in RewriteSteps
    BY <1>6 DEF DropRows, RewriteSteps
  <2>2. \A c \in DOMAIN values : c[3] \in {job[r].from, job[r].to}
    <3>1. DOMAIN values = {<<k, e, job[r].from>> : e \in both}
      OBVIOUS
    <3>2. ASSUME NEW c \in DOMAIN values PROVE \E e \in Expenses : c = <<k, e, job[r].from>>
      BY <3>1
    <3>3. ASSUME NEW c, NEW e, NEW x, c = <<k, e, x>> PROVE c[3] = x
      BY <3>3
    <3> QED
      BY <3>2, <3>3
  <2> HIDE DEF values
  <2> QED
    BY <2>1, <2>2, WroteMore
<1>7. ASSUME NEW r \in Requests, MoveRows(r) PROVE WroteKnown'
  <2> DEFINE k == KindOf(pc[r])
             From(e) == <<k, e, job[r].from>>
             To(e) == <<k, e, job[r].to>>
             mine == {e \in Expenses : View(r, From(e)) # NoRow}
             values == [c \in {From(e) : e \in mine} \cup {To(e) : e \in mine} |->
                          IF c[3] = job[r].from THEN NoRow ELSE View(r, From(c[2]))]
  <2>1. Write(r, values) /\ Advance(r) /\ job' = job /\ pc[r] \in RewriteSteps
    BY <1>7 DEF MoveRows, RewriteSteps
  <2>2. \A c \in DOMAIN values : c[3] \in {job[r].from, job[r].to}
    <3>1. DOMAIN values = {From(e) : e \in mine} \cup {To(e) : e \in mine}
      OBVIOUS
    <3>2. ASSUME NEW c \in DOMAIN values PROVE \E e \in Expenses : c = <<k, e, job[r].from>> \/ c = <<k, e, job[r].to>>
      BY <3>1
    <3>3. ASSUME NEW c, NEW e, NEW x, c = <<k, e, x>> PROVE c[3] = x
      BY <3>3
    <3> QED
      BY <3>2, <3>3
  <2> HIDE DEF values
  <2> QED
    BY <2>1, <2>2, WroteMore
<1>8. CASE \E r \in Requests :
             \/ \E p \in Participants : AddParticipantInsert(r, p)
             \/ \E e \in Expenses, bill \in Bills : CreateExpenseCommit(r, e, bill)
             \/ RemoveParticipantCommit(r) \/ Abort(r)
  BY <1>3, <1>8 DEF AddParticipantInsert, CreateExpenseCommit, RemoveParticipantCommit, Abort
<1>9. CASE \/ \E a \in Accesses, e \in Expenses : DeleteExpense(a, e) \/ RestoreExpense(a, e)
           \/ \E a \in Accesses, s \in Settlements :
                \/ ConfirmSettlement(a, s) \/ VoidSettlement(a, s)
                \/ \E from, to \in Participants, amount \in Amounts :
                     RecordSettlement(a, s, from, to, amount)
  BY <1>1, <1>9 DEF DeleteExpense, RestoreExpense, ConfirmSettlement, VoidSettlement, RecordSettlement
<1> QED
  BY <1>1, <1>2, <1>4, <1>5, <1>6, <1>7, <1>8, <1>9 DEF Next, vars

\* What a removal that ends was: a commit, or an error.
LEMMA RemovalEnds ==
  ASSUME TypeOK, [Next]_vars, NEW r \in Requests, pc[r] = "deactivate", pc'[r] = "done"
  PROVE  RemoveParticipantCommit(r) \/ Abort(r)
<1>1. ASSUME UNCHANGED pc PROVE FALSE
  BY <1>1
<1>2. ASSUME NEW q \in Requests, q # r, pc' = [pc EXCEPT ![q] = pc'[q]] PROVE FALSE
  BY <1>2 DEF TypeOK
<1>3. ASSUME NEW q \in Requests, NEW a \in Accesses,
             \/ AddParticipantCount(q, a) \/ CreateExpenseRead(q, a)
             \/ \E p \in Participants, target \in Participants \cup {Nobody} :
                  RemoveParticipantRead(q, a, p, target)
      PROVE  FALSE
  BY <1>2, <1>3 DEF AddParticipantCount, CreateExpenseRead, RemoveParticipantRead, TypeOK
<1>4. ASSUME NEW q \in Requests,
             \/ \E p \in Participants : AddParticipantInsert(q, p)
             \/ \E e \in Expenses, bill \in Bills : CreateExpenseCommit(q, e, bill)
             \/ RemoveParticipantCommit(q) \/ Abort(q)
      PROVE  RemoveParticipantCommit(r) \/ Abort(r)
  <2>1. pc' = [pc EXCEPT ![q] = "done"]
    BY <1>4 DEF AddParticipantInsert, CreateExpenseCommit, RemoveParticipantCommit, Abort, Finish
  <2>2. q = r
    BY <2>1 DEF TypeOK
  <2> QED
    BY <1>4, <2>2 DEF AddParticipantInsert, CreateExpenseCommit
<1>5. ASSUME NEW q \in Requests, JoinRows(q) \/ MergeRows(q) \/ DropRows(q) \/ MoveRows(q)
      PROVE  FALSE
  <2>1. pc[q] # "deactivate" /\ pc' = [pc EXCEPT ![q] = After(pc[q])]
    BY <1>5 DEF JoinRows, MergeRows, DropRows, MoveRows, Advance
  <2> QED
    BY <2>1 DEF TypeOK
<1>6. CASE \/ \E a \in Accesses, e \in Expenses : DeleteExpense(a, e) \/ RestoreExpense(a, e)
           \/ \E a \in Accesses, s \in Settlements :
                \/ ConfirmSettlement(a, s) \/ VoidSettlement(a, s)
                \/ \E from, to \in Participants, amount \in Amounts :
                     RecordSettlement(a, s, from, to, amount)
  BY <1>1, <1>6 DEF DeleteExpense, RestoreExpense, ConfirmSettlement, VoidSettlement, RecordSettlement
<1> QED
  BY <1>1, <1>3, <1>4, <1>5, <1>6 DEF Next, vars

\* As long as live expenses are balanced, the nets cancel.
NetsClear == LiveExpensesBalanced => Ints(Nets, Participants) /\ Sum(Nets, Participants) = 0

LEMMA NetsFollow == TypeOK /\ EndsKnown => NetsClear
BY NetsCancel DEF NetsClear

\* A commit leaves the rows and the settlements of everyone else as they were.
LEMMA OthersKeep ==
  ASSUME TypeOK, WroteKnown, NEW r \in Requests, RemoveParticipantCommit(r),
         NEW q \in Participants, q \notin {job[r].from, job[r].to}
  PROVE  Net(q)' = Net(q)
<1>1. Live' = Live
  BY DEF RemoveParticipantCommit, Live, IsLive
<1>2. ASSUME NEW k \in Kinds PROVE Total(k, q)' = Total(k, q)
  <2>1. ASSUME NEW e \in Expenses PROVE row'[<<k, e, q>>] = row[<<k, e, q>>]
    <3>1. <<k, e, q>> \in Cells /\ <<k, e, q>>[3] = q
      BY CellIn
    <3>2. <<k, e, q>> \notin wrote[r]
      BY <3>1 DEF WroteKnown
    <3> QED
      BY <3>1, <3>2 DEF RemoveParticipantCommit, Merged, View
  <2>2. [e \in Live |-> AmountIn(row[<<k, e, q>>])]' = [e \in Live |-> AmountIn(row[<<k, e, q>>])]
    BY <1>1, <2>1 DEF Live, AmountIn
  <2> QED
    BY <2>2 DEF Total
<1>3. ASSUME NEW side \in {"from", "to"} PROVE Moved(side, q)' = Moved(side, q)
  <2>1. CASE job[r].to = Nobody
    BY <2>1 DEF RemoveParticipantCommit, SettlementsMoved, Moved
  <2>2. CASE job[r].to # Nobody
    <3>1. ASSUME NEW s \in Settlements
          PROVE  /\ settlement'[s].state = settlement[s].state
                 /\ settlement'[s].amount = settlement[s].amount
                 /\ settlement'[s][side] = q <=> settlement[s][side] = q
      <4>1. settlement'[s] = Reassigned(r, s)
        BY <2>2 DEF RemoveParticipantCommit, SettlementsMoved
      <4>2. settlement[s] \in SettlementType
        BY DEF TypeOK
      <4>3. settlement'[s].from = (IF settlement[s].from = job[r].from THEN job[r].to ELSE settlement[s].from)
            /\ settlement'[s].to = (IF settlement[s].to = job[r].from THEN job[r].to ELSE settlement[s].to)
        BY <4>1, <4>2 DEF Reassigned, SettlementType
      <4>4. settlement'[s].state = settlement[s].state /\ settlement'[s].amount = settlement[s].amount
        BY <4>1, <4>2 DEF Reassigned, SettlementType
      <4> QED
        BY <4>3, <4>4
    <3>2. {x \in Settlements : settlement[x].state = "open" /\ settlement[x][side] = q}'
            = {x \in Settlements : settlement[x].state = "open" /\ settlement[x][side] = q}
      BY <3>1
    <3>3. [s \in {x \in Settlements : settlement[x].state = "open" /\ settlement[x][side] = q} |->
             settlement[s].amount]'
            = [s \in {x \in Settlements : settlement[x].state = "open" /\ settlement[x][side] = q} |->
                 settlement[s].amount]
      BY <3>1, <3>2
    <3> QED
      BY <3>3 DEF Moved
  <2> QED
    BY <2>1, <2>2
<1> QED
  BY <1>2, <1>3 DEF Net, Kinds

\* What the deferred triggers leave behind at COMMIT.
LEMMA CommitBalanced ==
  ASSUME TypeOK, LiveExpensesBalanced, NEW r \in Requests, RemoveParticipantCommit(r)
  PROVE  LiveExpensesBalanced'
<1>1. row' = Merged(r) /\ TriggersPass(r) /\ UNCHANGED expense
  BY DEF RemoveParticipantCommit
<1> SUFFICES ASSUME NEW e \in Live PROVE SumsAgree(row', e, expense[e].total)
  BY <1>1 DEF LiveExpensesBalanced, Balanced, Live, IsLive
<1>2. CASE e \in Touched(r)
  BY <1>1, <1>2 DEF TriggersPass, Live
<1>3. CASE e \notin Touched(r)
  <2>1. SumsAgree(row, e, expense[e].total)
    BY DEF LiveExpensesBalanced, Balanced
  <2>2. ASSUME NEW k \in Kinds, NEW p \in Participants
        PROVE  row[<<k, e, p>>] = Merged(r)[<<k, e, p>>]
    <3>1. <<k, e, p>> \in Cells
      BY CellIn DEF Live
    <3>2. <<k, e, p>> \notin wrote[r]
      BY <1>3 DEF Touched
    <3> QED
      BY <3>1, <3>2 DEF Merged, View
  <2> QED
    BY <1>1, <2>1, <2>2, SameBalance DEF Live
<1> QED
  BY <1>2, <1>3

\* Nets that cancel before and after, and agree off a pair, have the same sum over it.
LEMMA PairKeeps ==
  ASSUME NEW f, NEW g, NEW pair \in SUBSET Participants,
         Ints(f, Participants), Ints(g, Participants),
         Sum(f, Participants) = Sum(g, Participants),
         \A q \in Participants \ pair : f[q] = g[q]
  PROVE  Sum([p \in pair |-> f[p]], pair) = Sum([p \in pair |-> g[p]], pair)
<1> DEFINE rest == Participants \ pair
           fp == [p \in pair |-> f[p]]
           gp == [p \in pair |-> g[p]]
<1>1. /\ IsFiniteSet(Participants) /\ IsFiniteSet(pair) /\ IsFiniteSet(rest)
      /\ Ints(f, pair) /\ Ints(g, pair) /\ Ints(f, rest) /\ Ints(g, rest)
  BY FiniteAssumption, FS_Subset DEF Ints
<1>2. \A p \in pair : f[p] = fp[p] /\ g[p] = gp[p]
  OBVIOUS
<1> HIDE DEF fp, gp
<1>3. Sum(f, pair) = Sum(fp, pair) /\ Sum(g, pair) = Sum(gp, pair)
  BY <1>1, <1>2, SumSame
<1>4. Sum(f, rest) = Sum(g, rest)
  BY <1>1, SumSame
<1>5. Sum(f, Participants) = Sum(f, pair) + Sum(f, rest)
      /\ Sum(g, Participants) = Sum(g, pair) + Sum(g, rest)
  BY <1>1, SumParts
<1>6. Sum(f, pair) \in Int /\ Sum(g, pair) \in Int /\ Sum(f, rest) \in Int /\ Sum(g, rest) \in Int
  BY <1>1, SumIsPartial
<1> DEFINE a == Sum(f, pair)
           b == Sum(f, rest)
           c == Sum(g, pair)
<1>7. a + b = c + b /\ a \in Int /\ b \in Int /\ c \in Int
  BY <1>4, <1>5, <1>6
<1> HIDE DEF a, b, c
<1>8. a = c
  BY <1>7
<1>9. Sum(fp, pair) = Sum(gp, pair)
  BY <1>3, <1>8 DEF a, c
<1> QED
  BY <1>9 DEF fp, gp

LEMMA RemovalStep ==
  ASSUME TypeOK, WroteKnown, NetsClear, NetsClear', [Next]_vars, LiveExpensesBalanced,
         NEW r \in Requests, pc[r] = "deactivate", pc'[r] = "done",
         NEW pair, pair = {job[r].from, job[r].to} \ {Nobody}
  PROVE  /\ SumFunction([p \in pair |-> Net(p)]) = SumFunction([p \in pair |-> Net(p)'])
         /\ \A q \in Participants \ pair : Net(q)' = Net(q)
<1>1. CASE Abort(r)
  <2>1. \A p : Net(p)' = Net(p)
    BY <1>1 DEF Abort, store, Net, Total, Moved, Live, IsLive
  <2>2. [p \in pair |-> Net(p)] = [p \in pair |-> Net(p)']
    BY <2>1
  <2> QED
    BY <2>1, <2>2
<1>2. CASE RemoveParticipantCommit(r)
  <2>1. pair \in SUBSET Participants
    BY DEF TypeOK, JobType
  <2>2. \A q \in Participants \ pair : q \notin {job[r].from, job[r].to}
    BY ConstantsAssumption
  <2>3. \A q \in Participants \ pair : Net(q)' = Net(q)
    BY <1>2, <2>2, OthersKeep
  <2>4. /\ Ints(Nets, Participants) /\ Sum(Nets, Participants) = 0
        /\ Ints(Nets', Participants) /\ Sum(Nets', Participants) = 0
    BY <1>2, CommitBalanced DEF NetsClear, Ints, Sum
  <2>5. \A q \in Participants : Nets[q] = Net(q) /\ Nets'[q] = Net(q)'
    BY DEF Nets
  <2>6. Sum([p \in pair |-> Nets[p]], pair) = Sum([p \in pair |-> Nets'[p]], pair)
    BY <2>1, <2>3, <2>4, <2>5, PairKeeps
  <2>7. [p \in pair |-> Nets[p]] = [p \in pair |-> Net(p)]
        /\ [p \in pair |-> Nets'[p]] = [p \in pair |-> Net(p)']
    BY <2>1, <2>5
  <2> QED
    BY <2>3, <2>6, <2>7 DEF Sum, SumFunction
<1> QED
  BY <1>1, <1>2, RemovalEnds

\* A removal moves a balance from one person to another and makes none, whatever
\* other requests commit between its statements: the nets cancel before and after
\* it, and it has written the rows of no one but its two people.
THEOREM LedgerRemovalConserves == Spec => RemovalConserves
<1>1. Init => EndsKnown /\ WroteKnown
  BY DEF Init, EndsKnown, WroteKnown
<1>2. TypeOK /\ WroteKnown /\ NetsClear /\ NetsClear' /\ [Next]_vars =>
        [\A r \in Requests :
           pc[r] = "deactivate" /\ pc'[r] = "done" /\ LiveExpensesBalanced =>
             LET pair == {job[r].from, job[r].to} \ {Nobody} IN
             /\ SumFunction([p \in pair |-> Net(p)]) = SumFunction([p \in pair |-> Net(p)'])
             /\ \A q \in Participants \ pair : Net(q)' = Net(q)]_vars
  BY RemovalStep
<1> QED
  BY <1>1, <1>2, LedgerTypeOK, EndsKnownStep, WroteStep, NetsFollow, PTL DEF Spec, RemovalConserves

-----------------------------------------------------------------------------
(***************************************************************************)
(* The middleware implements OnceOnly for any number of requests, keys and *)
(* bodies.  The inductive invariant says who holds an entry: a request     *)
(* between its claim and the end of its bookkeeping holds the entry of its *)
(* key, alone, so nobody else stores or releases it.                       *)
(***************************************************************************)


\* A request that runs under a claim holds its key's entry.
Holds(r) ==
  /\ entry[KeyOf(r)].state = "claimed"
  /\ entry[KeyOf(r)].holder = r
  /\ entry[KeyOf(r)].body = BodyOf(r)

HolderInv == \A r \in Calls : stage[r] \in {"run", "store", "release"} => Holds(r)

\* Nothing was changed yet under a key that is free, or whose holder has not run.
UntouchedInv ==
  /\ \A k \in Keys \ exposed : entry[k].state = "free" => Once!Untouched(k)
  /\ \A r \in Calls : stage[r] \in {"run", "release"} /\ KeyOf(r) \notin exposed =>
       Once!Untouched(KeyOf(r))

\* A run without a claim is exposed.
BareInv == \A r \in Calls : stage[r] = "runBare" => KeyOf(r) \in exposed

\* A success on its way out, or on record, reports a change that was made.
AppliedInv ==
  /\ \A r \in Calls : stage[r] \in {"store", "send", "sendBare"} =>
       applied[KeyOf(r)][BodyOf(r)] > 0
  /\ \A k \in Keys : entry[k].state = "answered" =>
       entry[k].body \in Bodies /\ applied[k][entry[k].body] > 0

IInv == CallsTypeOK /\ HolderInv /\ UntouchedInv /\ BareInv /\ AppliedInv

Entry == [state : {"free", "claimed", "answered"}, body : Bodies \cup {NoAsk},
          holder : Calls \cup {NoOne}]
Asks == [key : Keys, body : Bodies]
Pcs == InFlight \cup {"idle", "done"}
Replies == {"none", "created", "unstored", "replayed",
            "conflict", "mismatch", "failed", "lost"}

\* A request that has been received carries a key and a body.
LEMMA AskType ==
  ASSUME CallsTypeOK, NEW r \in Calls, stage[r] # "idle"
  PROVE  ask[r] \in Asks /\ KeyOf(r) \in Keys /\ BodyOf(r) \in Bodies
  BY DEF CallsTypeOK, Asks, KeyOf, BodyOf

\* The initial states satisfy the invariant.
LEMMA InitIInv == CallsInit => IInv
<1> SUFFICES ASSUME CallsInit PROVE IInv
  OBVIOUS
<1>1. CallsTypeOK
  BY DEF CallsInit, CallsTypeOK, Free, InFlight
<1>2. HolderInv /\ BareInv
  BY DEF CallsInit, HolderInv, BareInv
<1>3. UntouchedInv
  BY DEF CallsInit, UntouchedInv, Once!Untouched
<1>4. AppliedInv
  BY DEF CallsInit, AppliedInv, Free
<1> QED
  BY <1>1, <1>2, <1>3, <1>4 DEF IInv

-----------------------------------------------------------------------------
(* The type invariant, one action at a time *)

LEMMA StepTypeOK == CallsTypeOK /\ [CallsNext]_callsVars => CallsTypeOK'
<1> SUFFICES ASSUME CallsTypeOK, [CallsNext]_callsVars PROVE CallsTypeOK'
  OBVIOUS
<1> USE DEF CallsTypeOK
<1>1. CASE UNCHANGED callsVars
  BY <1>1 DEF callsVars
<1>2. ASSUME NEW r \in Calls, NEW k \in Keys, NEW b \in Bodies, Receive(r, k, b)
      PROVE  CallsTypeOK'
  BY <1>2, CallsAssumption DEF Receive, Goto, InFlight
<1>3. ASSUME NEW r \in Calls, Claim(r) \/ ClaimFails(r)
      PROVE  CallsTypeOK'
  <2>1. KeyOf(r) \in Keys /\ BodyOf(r) \in Bodies
    BY <1>3, AskType DEF Claim, ClaimFails
  <2>2. entry' \in [Keys -> Entry]
    BY <1>3, <2>1 DEF Claim, ClaimFails, Entry
  <2>3. PICK step \in {"run", "lookup", "runBare"} : stage' = [stage EXCEPT ![r] = step]
    BY <1>3 DEF Claim, ClaimFails, Goto
  <2>4. stage[r] = "claim" /\ UNCHANGED <<ask, applied, reply>> /\ exposed' \subseteq Keys
    BY <1>3, <2>1 DEF Claim, ClaimFails
  <2> QED
    BY <2>2, <2>3, <2>4 DEF InFlight, Entry
<1>4. ASSUME NEW r \in Calls, Lookup(r) \/ LookupFails(r)
      PROVE  CallsTypeOK'
  <2>1. KeyOf(r) \in Keys /\ BodyOf(r) \in Bodies
    BY <1>4, AskType DEF Lookup, LookupFails
  <2>2. stage[r] = "lookup" /\ UNCHANGED <<entry, ask, applied>> /\ exposed' \subseteq Keys
    BY <1>4, <2>1 DEF Lookup, LookupFails
  <2>3. CASE stage' = [stage EXCEPT ![r] = "runBare"] /\ UNCHANGED reply
    BY <2>2, <2>3 DEF InFlight
  <2>4. CASE \E what \in {"mismatch", "conflict", "replayed"} :
               stage' = [stage EXCEPT ![r] = "done"] /\ reply' = [reply EXCEPT ![r] = what]
    BY <2>2, <2>4 DEF InFlight
  <2> QED
    BY <1>4, <2>3, <2>4 DEF Lookup, LookupFails, Goto, Answer
<1>5. ASSUME NEW r \in Calls, Commit(r) \/ CommitUnacknowledged(r)
      PROVE  CallsTypeOK'
  <2>1. KeyOf(r) \in Keys /\ BodyOf(r) \in Bodies
    BY <1>5, AskType DEF Commit, CommitUnacknowledged
  <2>2. applied' \in [Keys -> [Bodies -> Nat]]
    <3>1. applied' = [applied EXCEPT ![KeyOf(r)] =
                        [applied[KeyOf(r)] EXCEPT ![BodyOf(r)] = @ + 1]]
      BY <1>5 DEF Commit, CommitUnacknowledged, Effect
    <3>2. [applied[KeyOf(r)] EXCEPT ![BodyOf(r)] = @ + 1] \in [Bodies -> Nat]
      BY <2>1
    <3> QED
      BY <3>1, <3>2
  <2>3. PICK step \in {"store", "sendBare", "release", "fail"} : stage' = [stage EXCEPT ![r] = step]
    BY <1>5 DEF Commit, CommitUnacknowledged, Goto
  <2>4. /\ stage[r] \in {"run", "runBare"} /\ UNCHANGED <<entry, ask, reply>>
        /\ exposed' \subseteq Keys
    BY <1>5, <2>1 DEF Commit, CommitUnacknowledged
  <2> QED
    BY <2>2, <2>3, <2>4 DEF InFlight
<1>6. ASSUME NEW r \in Calls, RollBack(r) \/ StoreFails(r) \/ ReleaseFails(r)
      PROVE  CallsTypeOK'
  BY <1>6 DEF RollBack, StoreFails, ReleaseFails, Goto, InFlight
<1>7. ASSUME NEW r \in Calls, Store(r) \/ Release(r)
      PROVE  CallsTypeOK'
  <2>1. KeyOf(r) \in Keys
    BY <1>7, AskType DEF Store, Release
  <2>2. entry' \in [Keys -> Entry]
    <3>1. entry \in [Keys -> Entry] /\ entry[KeyOf(r)] \in Entry
      BY <2>1 DEF Entry
    <3>2. [entry[KeyOf(r)] EXCEPT !.state = "answered"] \in Entry
      BY <3>1 DEF Entry
    <3>3. Free \in Entry
      BY DEF Free, Entry
    <3>4. \/ entry' = entry
          \/ entry' = [entry EXCEPT ![KeyOf(r)] =
                          [entry[KeyOf(r)] EXCEPT !.state = "answered"]]
          \/ entry' = [entry EXCEPT ![KeyOf(r)] = Free]
      BY <1>7 DEF Store, Release
    <3> QED
      BY <3>1, <3>2, <3>3, <3>4
  <2>3. PICK step \in {"send", "fail"} : stage' = [stage EXCEPT ![r] = step]
    BY <1>7 DEF Store, Release, Goto
  <2>4. stage[r] \in {"store", "release"} /\ UNCHANGED <<ask, applied, exposed, reply>>
    BY <1>7 DEF Store, Release
  <2> QED
    BY <2>2, <2>3, <2>4 DEF InFlight, Entry
<1>8. ASSUME NEW r \in Calls, Send(r)
      PROVE  CallsTypeOK'
  <2>1. PICK what \in {"created", "unstored", "failed"} :
          stage' = [stage EXCEPT ![r] = "done"] /\ reply' = [reply EXCEPT ![r] = what]
    BY <1>8 DEF Send, Answer, Goto
  <2>2. stage[r] \in {"send", "sendBare", "fail"} /\ UNCHANGED <<entry, ask, applied, exposed>>
    BY <1>8 DEF Send
  <2> QED
    BY <2>1, <2>2 DEF InFlight
<1>9. ASSUME NEW S \in SUBSET Calls, Crash(S)
      PROVE  CallsTypeOK'
  <2>1. UNCHANGED <<entry, ask, applied, exposed>>
    BY <1>9 DEF Crash
  <2>2. /\ stage' \in [Calls -> InFlight \cup {"idle", "done"}]
        /\ reply' \in [Calls -> Replies]
    BY <1>9 DEF Crash, Replies
  <2>3. ASSUME NEW r \in Calls
        PROVE  /\ (stage'[r] = "idle") <=> (ask'[r] = NoAsk)
               /\ (stage'[r] = "done") <=> (reply'[r] # "none")
    <3>1. CASE r \in S
      BY <1>9, <3>1, <2>1 DEF Crash, Moving, InFlight
    <3>2. CASE r \notin S
      BY <1>9, <3>2, <2>1 DEF Crash
    <3> QED
      BY <3>1, <3>2
  <2>4. \A r \in Calls : (stage'[r] = "idle") <=> (ask'[r] = NoAsk)
    BY <2>3
  <2>5. \A r \in Calls : (stage'[r] = "done") <=> (reply'[r] # "none")
    BY <2>3
  <2>6. /\ entry' \in [Keys -> Entry]
        /\ ask' \in [Calls -> Asks \cup {NoAsk}]
        /\ applied' \in [Keys -> [Bodies -> Nat]]
        /\ exposed' \subseteq Keys
    BY <2>1 DEF Entry, Asks
  <2> QED
    BY <2>2, <2>4, <2>5, <2>6 DEF Replies, Entry, Asks
<1>10. ASSUME NEW k \in Keys, Purge(k)
       PROVE  CallsTypeOK'
  BY <1>10 DEF Purge, Free
<1> QED
  BY <1>1, <1>2, <1>3, <1>4, <1>5, <1>6, <1>7, <1>8, <1>9, <1>10 DEF CallsNext

\* Type correctness of the middleware: a request is answered exactly when it is
\* done, and has been sent exactly when it is not idle.
THEOREM IdempotencyTypeOK == CallsSpec => []CallsTypeOK
<1>1. CallsInit => CallsTypeOK
  BY InitIInv DEF IInv
<1> QED
  BY <1>1, StepTypeOK, PTL DEF CallsSpec
-----------------------------------------------------------------------------
(* The rest of the inductive invariant *)

\* A request that holds an entry is the only one to.
LEMMA OneHolder ==
  ASSUME HolderInv, NEW r \in Calls, NEW q \in Calls, KeyOf(r) = KeyOf(q),
         stage[r] \in {"run", "store", "release"}, stage[q] \in {"run", "store", "release"}
  PROVE  r = q
  BY DEF HolderInv, Holds

LEMMA StepHolderInv == IInv /\ CallsTypeOK' /\ [CallsNext]_callsVars => HolderInv'
<1> SUFFICES ASSUME IInv, [CallsNext]_callsVars,
                    NEW q \in Calls, stage'[q] \in {"run", "store", "release"}
             PROVE  Holds(q)'
  BY DEF HolderInv
<1> USE DEF IInv, Holds, KeyOf, BodyOf
<1>0. /\ stage \in [Calls -> Pcs]
      /\ entry \in [Keys -> Entry]
  BY DEF CallsTypeOK, Pcs, Entry
<1>1. CASE UNCHANGED callsVars
  BY <1>1 DEF callsVars, HolderInv
<1>2. ASSUME NEW r \in Calls, NEW k \in Keys, NEW b \in Bodies, Receive(r, k, b)
      PROVE  Holds(q)'
  BY <1>0, <1>2 DEF Receive, Goto, HolderInv, CallsTypeOK
<1>3. ASSUME NEW r \in Calls, Claim(r)
      PROVE  Holds(q)'
  <2>1. KeyOf(r) \in Keys
    BY <1>3, AskType DEF Claim
  <2>2. CASE q = r
    BY <1>0, <1>3, <2>1, <2>2 DEF Claim, Goto, CallsTypeOK
  <2>3. CASE q # r
    <3>1. stage[q] \in {"run", "store", "release"} /\ ask' = ask
      BY <1>0, <1>3, <2>3 DEF Claim, Goto
    <3>2. Holds(q)
      BY <3>1 DEF HolderInv
    <3>3. entry'[KeyOf(q)] = entry[KeyOf(q)]
      BY <1>0, <1>3, <3>1, <3>2, AskType DEF Claim
    <3> QED
      BY <3>1, <3>2, <3>3
  <2> QED
    BY <2>2, <2>3
<1>4. ASSUME NEW r \in Calls, ClaimFails(r)
      PROVE  Holds(q)'
  <2> QED
    <3>1. stage[q] \in {"run", "store", "release"} /\ ask' = ask
      BY <1>0, <1>4 DEF ClaimFails, Goto
    <3>2. Holds(q)
      BY <3>1 DEF HolderInv
    <3>3. entry'[KeyOf(q)] = entry[KeyOf(q)]
      BY <1>0, <1>4, <3>1, <3>2, AskType DEF ClaimFails
    <3> QED
      BY <3>1, <3>2, <3>3
<1>5. ASSUME NEW r \in Calls,
             Lookup(r) \/ LookupFails(r) \/ StoreFails(r) \/ ReleaseFails(r) \/ Send(r)
      PROVE  Holds(q)'
  <2>1. /\ UNCHANGED <<entry, ask>>
        /\ \E step \in {"runBare", "done", "sendBare", "fail"} : stage' = [stage EXCEPT ![r] = step]
    BY <1>5 DEF Lookup, LookupFails, StoreFails, ReleaseFails, Send, Answer, Goto
  <2> QED
    BY <1>0, <2>1 DEF HolderInv
<1>6. ASSUME NEW r \in Calls, Commit(r) \/ CommitUnacknowledged(r) \/ RollBack(r)
      PROVE  Holds(q)'
  <2>1. UNCHANGED <<entry, ask>>
    BY <1>6 DEF Commit, CommitUnacknowledged, RollBack
  <2>2. stage[q] \in {"run", "store", "release"}
    BY <1>0, <1>6 DEF Commit, CommitUnacknowledged, RollBack, Goto
  <2> QED
    BY <2>1, <2>2 DEF HolderInv
<1>7. ASSUME NEW r \in Calls, Store(r) \/ Release(r)
      PROVE  Holds(q)'
  <2>1. q # r /\ stage[q] \in {"run", "store", "release"}
    BY <1>0, <1>7 DEF Store, Release, Goto
  <2>2. stage[r] \in {"store", "release"}
    BY <1>7 DEF Store, Release
  <2>3. KeyOf(q) # KeyOf(r)
    BY <2>1, <2>2, OneHolder
  <2>4. ask' = ask /\ entry'[KeyOf(q)] = entry[KeyOf(q)]
    BY <1>0, <1>7, <2>1, <2>3, AskType DEF Store, Release
  <2> QED
    BY <2>1, <2>4 DEF HolderInv
<1>8. ASSUME NEW S \in SUBSET Calls, Crash(S)
      PROVE  Holds(q)'
  BY <1>0, <1>8 DEF Crash, HolderInv
<1>9. ASSUME NEW k \in Keys, Purge(k)
      PROVE  Holds(q)'
  <2>1. stage' = stage /\ ask' = ask /\ KeyOf(q) # k
    BY <1>9 DEF Purge, Moving, InFlight
  <2> QED
    BY <1>9, <2>1 DEF Purge, HolderInv, CallsTypeOK
<1> QED
  BY <1>1, <1>2, <1>3, <1>4, <1>5, <1>6, <1>7, <1>8, <1>9 DEF CallsNext

LEMMA StepBareInv == IInv /\ [CallsNext]_callsVars => BareInv'
<1> SUFFICES ASSUME IInv, [CallsNext]_callsVars, NEW q \in Calls, stage'[q] = "runBare"
             PROVE  KeyOf(q)' \in exposed'
  BY DEF BareInv
<1> USE DEF IInv, KeyOf
<1>0. stage \in [Calls -> Pcs]
  BY DEF CallsTypeOK, Pcs
<1>1. CASE UNCHANGED callsVars
  BY <1>1 DEF callsVars, BareInv
<1>2. ASSUME NEW r \in Calls, NEW k \in Keys, NEW b \in Bodies, Receive(r, k, b)
      PROVE  KeyOf(q)' \in exposed'
  BY <1>0, <1>2 DEF Receive, Goto, BareInv, CallsTypeOK
<1>3. ASSUME NEW r \in Calls, ClaimFails(r) \/ Lookup(r) \/ LookupFails(r)
      PROVE  KeyOf(q)' \in exposed'
  BY <1>0, <1>3 DEF ClaimFails, Lookup, LookupFails, Goto, Answer, BareInv
<1>4. ASSUME NEW r \in Calls,
             \/ Claim(r) \/ Commit(r) \/ CommitUnacknowledged(r) \/ RollBack(r)
             \/ Store(r) \/ StoreFails(r) \/ Release(r) \/ ReleaseFails(r) \/ Send(r)
      PROVE  KeyOf(q)' \in exposed'
  <2>1. ask' = ask /\ exposed \subseteq exposed'
    BY <1>4 DEF Claim, Commit, CommitUnacknowledged, RollBack, Store, StoreFails, Release,
                ReleaseFails, Send
  <2>2. \E step \in Pcs \ {"runBare"} : stage' = [stage EXCEPT ![r] = step]
    BY <1>4 DEF Claim, Commit, CommitUnacknowledged, RollBack, Store, StoreFails, Release,
                ReleaseFails, Send, Goto, Answer, Pcs, InFlight
  <2> QED
    BY <1>0, <2>1, <2>2 DEF BareInv
<1>5. ASSUME NEW S \in SUBSET Calls, Crash(S)
      PROVE  KeyOf(q)' \in exposed'
  BY <1>0, <1>5 DEF Crash, BareInv
<1>6. ASSUME NEW k \in Keys, Purge(k)
      PROVE  KeyOf(q)' \in exposed'
  <2>1. stage' = stage /\ ask' = ask /\ KeyOf(q) # k
    BY <1>6 DEF Purge, Moving, InFlight
  <2> QED
    BY <1>6, <2>1 DEF Purge, BareInv
<1> QED
  BY <1>1, <1>2, <1>3, <1>4, <1>5, <1>6 DEF CallsNext

LEMMA StepUntouchedInv == IInv /\ [CallsNext]_callsVars => UntouchedInv'
<1> SUFFICES ASSUME IInv, [CallsNext]_callsVars PROVE UntouchedInv'
  OBVIOUS
<1> USE DEF IInv, KeyOf, BodyOf, Once!Untouched
<1>0. /\ stage \in [Calls -> Pcs]
      /\ entry \in [Keys -> Entry]
      /\ applied \in [Keys -> [Bodies -> Nat]]
  BY DEF CallsTypeOK, Pcs, Entry
<1>1. CASE UNCHANGED callsVars
  BY <1>1 DEF callsVars, UntouchedInv
<1>2. ASSUME NEW r \in Calls, NEW k \in Keys, NEW b \in Bodies, Receive(r, k, b)
      PROVE  UntouchedInv'
  BY <1>0, <1>2 DEF Receive, Goto, UntouchedInv, CallsTypeOK
<1>3. ASSUME NEW r \in Calls, Claim(r)
      PROVE  UntouchedInv'
  <2>1. KeyOf(r) \in Keys
    BY <1>3, AskType DEF Claim
  <2>2. CASE entry[KeyOf(r)].state = "free"
    <3>1. /\ UNCHANGED <<ask, applied, exposed>>
          /\ \A q \in Calls : q # r => stage'[q] = stage[q]
          /\ \A k \in Keys : entry'[k].state = "free" => entry[k].state = "free"
      BY <1>0, <1>3, <2>1, <2>2 DEF Claim, Goto
    <3>2. KeyOf(r) \notin exposed => Once!Untouched(KeyOf(r))
      BY <2>1, <2>2 DEF UntouchedInv
    <3> QED
      BY <3>1, <3>2 DEF UntouchedInv
  <2>3. CASE entry[KeyOf(r)].state # "free"
    BY <1>0, <1>3, <2>1, <2>3 DEF Claim, Goto, UntouchedInv
  <2> QED
    BY <2>2, <2>3
<1>4. ASSUME NEW r \in Calls, ClaimFails(r)
      PROVE  UntouchedInv'
  BY <1>0, <1>4, AskType DEF ClaimFails, Goto, UntouchedInv
<1>5. ASSUME NEW r \in Calls,
             \/ Lookup(r) \/ LookupFails(r) \/ RollBack(r)
             \/ StoreFails(r) \/ ReleaseFails(r) \/ Send(r)
      PROVE  UntouchedInv'
  <2>1. /\ UNCHANGED <<entry, ask, applied>>
        /\ exposed \subseteq exposed'
    BY <1>5 DEF Lookup, LookupFails, RollBack, StoreFails, ReleaseFails, Send
  <2>2. \A q \in Calls : stage'[q] \in {"run", "release"} => stage[q] \in {"run", "release"}
    BY <1>0, <1>5 DEF Lookup, LookupFails, RollBack, StoreFails, ReleaseFails, Send, Goto, Answer
  <2> QED
    BY <2>1, <2>2 DEF UntouchedInv
<1>6. ASSUME NEW r \in Calls, Commit(r) \/ CommitUnacknowledged(r)
      PROVE  UntouchedInv'
  <2>1. UNCHANGED <<entry, ask>> /\ exposed \subseteq exposed'
    BY <1>6 DEF Commit, CommitUnacknowledged
  <2>2. ASSUME NEW k \in Keys, k # KeyOf(r), Once!Untouched(k)
        PROVE  Once!Untouched(k)'
    BY <1>0, <1>6, <2>2 DEF Commit, CommitUnacknowledged, Effect
  <2>3. \A q \in Calls : stage'[q] \in {"run", "release"} =>
          \/ stage[q] \in {"run", "release"} /\ q # r
          \/ q = r /\ KeyOf(r) \in exposed'
    BY <1>0, <1>6 DEF Commit, CommitUnacknowledged, Goto
  <2>4. CASE KeyOf(r) \in exposed'
    <3>1. \A q \in Calls : stage'[q] \in {"run", "release"} => KeyOf(q) \in Keys
      BY <2>3, <1>6, AskType DEF Commit, CommitUnacknowledged
    <3> QED
      BY <2>1, <2>2, <2>3, <2>4, <3>1 DEF UntouchedInv
  <2>5. CASE KeyOf(r) \notin exposed'
    <3>1. stage[r] = "run" /\ exposed' = exposed
      BY <1>6, <2>5 DEF Commit, CommitUnacknowledged, BareInv
    <3>2. entry[KeyOf(r)].state = "claimed"
      BY <3>1 DEF HolderInv, Holds
    <3>3. ASSUME NEW q \in Calls, stage'[q] \in {"run", "release"}
          PROVE  stage[q] \in {"run", "release"} /\ KeyOf(q) # KeyOf(r) /\ KeyOf(q) \in Keys
      BY <2>3, <2>5, <3>1, <3>3, OneHolder, AskType
    <3>4. \A k \in Keys \ exposed' : entry'[k].state = "free" => Once!Untouched(k)'
      BY <2>1, <2>2, <3>2 DEF UntouchedInv
    <3>5. \A q \in Calls : stage'[q] \in {"run", "release"} /\ KeyOf(q)' \notin exposed' =>
            Once!Untouched(KeyOf(q))'
      BY <2>1, <2>2, <3>3 DEF UntouchedInv
    <3> QED
      BY <3>4, <3>5 DEF UntouchedInv
  <2> QED
    BY <2>4, <2>5
<1>7. ASSUME NEW r \in Calls, Store(r) \/ Release(r)
      PROVE  UntouchedInv'
  <2>1. KeyOf(r) \in Keys
    BY <1>7, AskType DEF Store, Release
  <2>2. UNCHANGED <<ask, applied, exposed>>
    BY <1>7 DEF Store, Release
  <2>3. \A q \in Calls : stage'[q] \in {"run", "release"} => stage[q] \in {"run", "release"}
    BY <1>0, <1>7 DEF Store, Release, Goto
  <2>4. \A k \in Keys : entry'[k].state = "free" =>
          entry[k].state = "free" \/ (k = KeyOf(r) /\ stage[r] = "release")
    <3>1. CASE Release(r)
      BY <1>0, <2>1, <3>1 DEF Release
    <3>2. CASE Store(r)
      <4>1. [entry[KeyOf(r)] EXCEPT !.state = "answered"].state = "answered"
        BY <1>0, <2>1 DEF Entry
      <4>2. \/ entry' = entry
            \/ entry' = [entry EXCEPT ![KeyOf(r)] =
                            [entry[KeyOf(r)] EXCEPT !.state = "answered"]]
        BY <3>2 DEF Store
      <4> QED
        BY <1>0, <2>1, <4>1, <4>2
    <3> QED
      BY <1>7, <3>1, <3>2
  <2> QED
    BY <2>2, <2>3, <2>4 DEF UntouchedInv
<1>8. ASSUME NEW S \in SUBSET Calls, Crash(S)
      PROVE  UntouchedInv'
  BY <1>0, <1>8 DEF Crash, UntouchedInv
<1>9. ASSUME NEW k \in Keys, Purge(k)
      PROVE  UntouchedInv'
  <2>1. /\ UNCHANGED <<stage, ask>>
        /\ \A q \in Calls : stage[q] \in {"run", "release"} => KeyOf(q) # k
    BY <1>9 DEF Purge, Moving, InFlight
  <2>2. Once!Untouched(k)'
    BY <1>0, <1>9 DEF Purge
  <2>3. \A j \in Keys \ {k} : /\ applied'[j] = applied[j] /\ entry'[j] = entry[j]
                              /\ j \in exposed <=> j \in exposed'
    BY <1>0, <1>9 DEF Purge
  <2>4. \A q \in Calls : stage[q] \in {"run", "release"} => KeyOf(q) \in Keys
    BY AskType
  <2> QED
    BY <2>1, <2>2, <2>3, <2>4 DEF UntouchedInv
<1> QED
  BY <1>1, <1>2, <1>3, <1>4, <1>5, <1>6, <1>7, <1>8, <1>9 DEF CallsNext

LEMMA StepAppliedInv == IInv /\ CallsTypeOK' /\ [CallsNext]_callsVars => AppliedInv'
<1> SUFFICES ASSUME IInv, CallsTypeOK', [CallsNext]_callsVars PROVE AppliedInv'
  OBVIOUS
<1> USE DEF IInv, KeyOf, BodyOf
<1>0. /\ stage \in [Calls -> Pcs]
      /\ entry \in [Keys -> Entry]
      /\ applied \in [Keys -> [Bodies -> Nat]]
  BY DEF CallsTypeOK, Pcs, Entry
<1> DEFINE Late == {"store", "send", "sendBare"}
<1>1. CASE UNCHANGED callsVars
  BY <1>1 DEF callsVars, AppliedInv
<1>2. ASSUME NEW r \in Calls, NEW k \in Keys, NEW b \in Bodies, Receive(r, k, b)
      PROVE  AppliedInv'
  BY <1>0, <1>2 DEF Receive, Goto, AppliedInv, CallsTypeOK
<1>3. ASSUME NEW r \in Calls, Claim(r) \/ ClaimFails(r)
      PROVE  AppliedInv'
  <2>1. UNCHANGED <<ask, applied>> /\ \A q \in Calls : stage'[q] \in Late => stage[q] \in Late
    BY <1>0, <1>3 DEF Claim, ClaimFails, Goto
  <2>2. \A k \in Keys : entry'[k].state = "answered" => entry'[k] = entry[k]
    BY <1>0, <1>3 DEF Claim, ClaimFails
  <2> QED
    BY <2>1, <2>2 DEF AppliedInv
<1>4. ASSUME NEW r \in Calls,
             \/ Lookup(r) \/ LookupFails(r) \/ RollBack(r)
             \/ StoreFails(r) \/ ReleaseFails(r) \/ Send(r)
      PROVE  AppliedInv'
  <2>1. UNCHANGED <<entry, ask, applied>>
    BY <1>4 DEF Lookup, LookupFails, RollBack, StoreFails, ReleaseFails, Send
  <2>2. \A q \in Calls : stage'[q] \in Late => stage[q] \in Late
    BY <1>0, <1>4 DEF Lookup, LookupFails, RollBack, StoreFails, ReleaseFails, Send, Goto, Answer
  <2> QED
    BY <2>1, <2>2 DEF AppliedInv
<1>5. ASSUME NEW r \in Calls, Commit(r) \/ CommitUnacknowledged(r)
      PROVE  AppliedInv'
  <2>1. KeyOf(r) \in Keys /\ BodyOf(r) \in Bodies
    BY <1>5, AskType DEF Commit, CommitUnacknowledged
  <2>2. UNCHANGED <<entry, ask>>
    BY <1>5 DEF Commit, CommitUnacknowledged
  <2>3. /\ applied'[KeyOf(r)][BodyOf(r)] > 0
        /\ \A k \in Keys, b \in Bodies : applied[k][b] > 0 => applied'[k][b] > 0
    <3>1. applied' = [applied EXCEPT ![KeyOf(r)] =
                        [applied[KeyOf(r)] EXCEPT ![BodyOf(r)] = @ + 1]]
      BY <1>5 DEF Commit, CommitUnacknowledged, Effect
    <3>2. applied[KeyOf(r)] \in [Bodies -> Nat] /\ applied[KeyOf(r)][BodyOf(r)] \in Nat
      BY <1>0, <2>1
    <3>3. applied'[KeyOf(r)] = [applied[KeyOf(r)] EXCEPT ![BodyOf(r)] = @ + 1]
      BY <1>0, <2>1, <3>1
    <3>4. applied'[KeyOf(r)][BodyOf(r)] > 0
      BY <2>1, <3>2, <3>3
    <3>5. ASSUME NEW k \in Keys, NEW b \in Bodies, applied[k][b] > 0
          PROVE  applied'[k][b] > 0
      BY <1>0, <2>1, <3>1, <3>2, <3>3, <3>4, <3>5
    <3> QED
      BY <3>4, <3>5
  <2>4. \A q \in Calls : stage'[q] \in Late => stage[q] \in Late \/ q = r
    BY <1>0, <1>5 DEF Commit, CommitUnacknowledged, Goto
  <2>5. \A q \in Calls : stage[q] \in Late => KeyOf(q) \in Keys /\ BodyOf(q) \in Bodies
    BY AskType
  <2> QED
    BY <2>2, <2>3, <2>4, <2>5 DEF AppliedInv
<1>6. ASSUME NEW r \in Calls, Store(r) \/ Release(r)
      PROVE  AppliedInv'
  <2>1. KeyOf(r) \in Keys /\ BodyOf(r) \in Bodies
    BY <1>6, AskType DEF Store, Release
  <2>2. UNCHANGED <<ask, applied>> /\ \A q \in Calls : stage'[q] \in Late => stage[q] \in Late
    BY <1>0, <1>6 DEF Store, Release, Goto
  <2>3. ASSUME NEW k \in Keys, entry'[k].state = "answered"
        PROVE  \/ entry'[k] = entry[k]
               \/ stage[r] = "store" /\ k = KeyOf(r) /\ entry'[k].body = BodyOf(r)
    <3>1. CASE k # KeyOf(r)
      BY <1>0, <1>6, <2>1, <3>1 DEF Store, Release
    <3>2. CASE k = KeyOf(r) /\ Release(r)
      BY <1>0, <2>1, <2>3, <3>2 DEF Release, Free
    <3>3. CASE k = KeyOf(r) /\ Store(r)
      <4>1. Holds(r) /\ stage[r] = "store"
        BY <3>3 DEF Store, HolderInv
      <4>2. entry' = [entry EXCEPT ![k] = [entry[k] EXCEPT !.state = "answered"]]
        BY <3>3, <4>1 DEF Store, Holds
      <4>3. entry[k] \in Entry /\ entry'[k] = [entry[k] EXCEPT !.state = "answered"]
        BY <1>0, <4>2
      <4>4. entry'[k].body = entry[k].body
        BY <4>3 DEF Entry
      <4> QED
        BY <3>3, <4>1, <4>4 DEF Holds
    <3> QED
      BY <1>6, <3>1, <3>2, <3>3
  <2> QED
    BY <2>1, <2>2, <2>3 DEF AppliedInv
<1>7. ASSUME NEW S \in SUBSET Calls, Crash(S)
      PROVE  AppliedInv'
  BY <1>0, <1>7 DEF Crash, AppliedInv
<1>8. ASSUME NEW k \in Keys, Purge(k)
      PROVE  AppliedInv'
  <2>1. /\ UNCHANGED <<stage, ask>>
        /\ \A q \in Calls : stage[q] \in Late => KeyOf(q) \in Keys \ {k}
    BY <1>8, AskType DEF Purge, Moving, InFlight
  <2>2. \A j \in Keys \ {k} : applied'[j] = applied[j] /\ entry'[j] = entry[j]
    BY <1>0, <1>8 DEF Purge
  <2>3. entry'[k].state = "free"
    BY <1>0, <1>8 DEF Purge, Free
  <2> QED
    BY <2>1, <2>2, <2>3 DEF AppliedInv
<1> QED
  BY <1>1, <1>2, <1>3, <1>4, <1>5, <1>6, <1>7, <1>8 DEF CallsNext

\* The inductive invariant holds in every reachable state.
THEOREM IdempotencyInvariant == CallsSpec => []IInv
<1>1. IInv /\ [CallsNext]_callsVars => IInv'
  BY StepTypeOK, StepHolderInv, StepBareInv, StepUntouchedInv, StepAppliedInv DEF IInv
<1> QED
  BY InitIInv, <1>1, PTL DEF CallsSpec

-----------------------------------------------------------------------------
(* The refinement *)

\* Every step of the middleware is a step of the promise, or none.
LEMMA StepKeepsPromise == IInv /\ CallsTypeOK' /\ [CallsNext]_callsVars => [Once!Next]_(Once!vars)
<1> SUFFICES ASSUME IInv, CallsTypeOK', [CallsNext]_callsVars PROVE [Once!Next]_(Once!vars)
  OBVIOUS
<1> USE DEF Once!vars, KeyOf, BodyOf
<1>0. /\ stage \in [Calls -> Pcs] /\ reply \in [Calls -> Replies]
      /\ applied \in [Keys -> [Bodies -> Nat]]
      /\ \A r \in Calls : stage[r] # "done" => reply[r] = "none"
      /\ \A r \in Calls : stage[r] # "idle" => ask[r] # NoAsk
  BY DEF IInv, CallsTypeOK, Pcs, Replies
<1>1. CASE UNCHANGED callsVars
  BY <1>1 DEF callsVars
<1>2. ASSUME NEW r \in Calls, NEW k \in Keys, NEW b \in Bodies, Receive(r, k, b)
      PROVE  Once!Next
  <2>1. Once!Submit(r, k, b)
    BY <1>2 DEF Receive, Once!Submit, IInv, CallsTypeOK
  <2> QED
    BY <2>1 DEF Once!Next
<1>3. ASSUME NEW r \in Calls,
             Claim(r) \/ RollBack(r) \/ Store(r) \/ StoreFails(r) \/ Release(r) \/ ReleaseFails(r)
      PROVE  UNCHANGED Once!vars
  BY <1>3 DEF Claim, RollBack, Store, StoreFails, Release, ReleaseFails
<1>4. ASSUME NEW r \in Calls, ClaimFails(r) \/ LookupFails(r)
      PROVE  Once!Next
  <2>1. KeyOf(r) \in Keys
    BY <1>4, AskType DEF ClaimFails, LookupFails, IInv
  <2>2. Once!Expose(KeyOf(r))
    BY <1>4 DEF ClaimFails, LookupFails, Once!Expose
  <2> QED
    BY <2>1, <2>2 DEF Once!Next
<1>5. ASSUME NEW r \in Calls, Lookup(r)
      PROVE  Once!Next
  <2>1. KeyOf(r) \in Keys /\ BodyOf(r) \in Bodies
    BY <1>5, AskType DEF Lookup, IInv
  <2>2. ask[r] # NoAsk /\ reply[r] = "none"
    BY <1>0, <1>5 DEF Lookup
  <2>3. CASE entry[KeyOf(r)].state = "free"
    <3>1. Once!Expose(KeyOf(r))
      BY <1>5, <2>3 DEF Lookup, Once!Expose
    <3> QED
      BY <2>1, <3>1 DEF Once!Next
  <2>4. CASE \E what \in {"mismatch", "conflict"} :
               reply' = [reply EXCEPT ![r] = what] /\ UNCHANGED <<ask, applied, exposed>>
    <3>1. PICK what \in Once!Refusals : reply' = [reply EXCEPT ![r] = what]
      BY <2>4 DEF Once!Refusals
    <3>2. reply' = [q \in Calls |-> IF q \in {r} THEN what ELSE reply[q]]
      BY <1>0, <3>1
    <3>3. Once!Refuse({r})
      BY <2>2, <2>4, <3>1, <3>2 DEF Once!Refuse
    <3> QED
      BY <3>3 DEF Once!Next
  <2>5. CASE /\ entry[KeyOf(r)].state = "answered" /\ entry[KeyOf(r)].body = BodyOf(r)
             /\ Answer(r, "replayed") /\ UNCHANGED <<ask, applied, exposed>>
    <3>1. applied[KeyOf(r)][BodyOf(r)] > 0
      BY <2>1, <2>5 DEF IInv, AppliedInv
    <3>2. Once!Succeed(r)
      BY <2>2, <2>5, <3>1 DEF Answer, Once!Succeed, Once!Successes
    <3> QED
      BY <3>2 DEF Once!Next
  <2> QED
    BY <1>5, <2>3, <2>4, <2>5 DEF Lookup, Answer
<1>6. ASSUME NEW r \in Calls, Commit(r) \/ CommitUnacknowledged(r)
      PROVE  Once!Next
  <2>1. KeyOf(r) \in Keys /\ BodyOf(r) \in Bodies
    BY <1>6, AskType DEF Commit, CommitUnacknowledged, IInv
  <2>2. Once!Untouched(KeyOf(r)) \/ KeyOf(r) \in exposed
    BY <1>6 DEF Commit, CommitUnacknowledged, IInv, UntouchedInv, BareInv
  <2>3. Once!Apply(KeyOf(r), BodyOf(r))
    BY <1>6, <2>2 DEF Commit, CommitUnacknowledged, Effect, Once!Apply
  <2> QED
    BY <2>1, <2>3 DEF Once!Next
<1>7. ASSUME NEW r \in Calls, Send(r)
      PROVE  Once!Next
  <2>1. ask[r] # NoAsk /\ reply[r] = "none" /\ UNCHANGED <<ask, applied, exposed>>
    BY <1>0, <1>7 DEF Send
  <2>2. CASE stage[r] = "fail"
    <3>1. reply' = [q \in Calls |-> IF q \in {r} THEN "failed" ELSE reply[q]]
      BY <1>0, <1>7, <2>2 DEF Send, Answer
    <3>2. Once!Refuse({r})
      BY <2>1, <3>1 DEF Once!Refuse, Once!Refusals
    <3> QED
      BY <3>2 DEF Once!Next
  <2>3. CASE stage[r] \in {"send", "sendBare"}
    <3>1. applied[KeyOf(r)][BodyOf(r)] > 0
      BY <2>3 DEF IInv, AppliedInv
    <3>2. Once!Succeed(r)
      BY <1>7, <2>1, <2>3, <3>1 DEF Send, Answer, Once!Succeed, Once!Successes
    <3> QED
      BY <3>2 DEF Once!Next
  <2> QED
    BY <1>7, <2>2, <2>3 DEF Send
<1>8. ASSUME NEW S \in SUBSET Calls, Crash(S)
      PROVE  Once!Next
  <2>1. Once!Refuse(S)
    BY <1>0, <1>8 DEF Crash, Moving, InFlight, Once!Refuse, Once!Refusals
  <2> QED
    BY <2>1 DEF Once!Next
<1>9. ASSUME NEW k \in Keys, Purge(k)
      PROVE  Once!Next
  <2>1. Once!Forget(k)
    BY <1>9 DEF Purge, Once!Forget, Once!Unapplied
  <2> QED
    BY <2>1 DEF Once!Next
<1> QED
  BY <1>1, <1>2, <1>3, <1>4, <1>5, <1>6, <1>7, <1>8, <1>9 DEF CallsNext

\* The middleware implements OnceOnly: outside exposed keys a mutation is
\* committed at most once per key, and success is only reported of a change that
\* was made, whatever crashes, lost answers and failed bookkeeping there are.
THEOREM IdempotencyKeepsPromise == CallsSpec => KeepsPromise
<1>1. CallsInit => Once!Init
  BY DEF CallsInit, Once!Init, Once!Unapplied
<1>2. IInv /\ IInv' /\ [CallsNext]_callsVars => [Once!Next]_(Once!vars)
  BY StepKeepsPromise DEF IInv
<1> QED
  BY <1>1, <1>2, IdempotencyInvariant, PTL DEF CallsSpec, KeepsPromise, Once!Spec

-----------------------------------------------------------------------------
(* Answers on record *)

\* A stored success is on record until it has been sent.
SentInv ==
  \A r \in Calls : stage[r] = "send" =>
    entry[KeyOf(r)].state = "answered" /\ entry[KeyOf(r)].body = BodyOf(r)

\* Only a purge changes an entry that is answered.
LEMMA AnsweredStays ==
  ASSUME IInv, [CallsNext]_callsVars, NEW k \in Keys, entry[k].state = "answered"
  PROVE  entry'[k] = entry[k] \/ Purge(k)
<1> USE DEF KeyOf, BodyOf
<1>0. entry \in [Keys -> Entry]
  BY DEF IInv, CallsTypeOK, Entry
<1>1. ASSUME NEW r \in Calls, Claim(r) \/ ClaimFails(r)
      PROVE  entry'[k] = entry[k]
  BY <1>0, <1>1 DEF Claim, ClaimFails
<1>2. ASSUME NEW r \in Calls, Store(r) \/ Release(r)
      PROVE  entry'[k] = entry[k]
  <2>1. stage[r] \in {"store", "release"}
    BY <1>2 DEF Store, Release
  <2>2. entry[KeyOf(r)].state = "claimed"
    BY <2>1 DEF IInv, HolderInv, Holds
  <2> QED
    BY <1>0, <1>2, <2>2 DEF Store, Release
<1>3. ASSUME NEW j \in Keys, Purge(j)
      PROVE  entry'[k] = entry[k] \/ Purge(k)
  BY <1>0, <1>3 DEF Purge
<1>4. ASSUME NEW r \in Calls,
             \/ \E j \in Keys, b \in Bodies : Receive(r, j, b)
             \/ Lookup(r) \/ LookupFails(r) \/ Commit(r) \/ CommitUnacknowledged(r)
             \/ RollBack(r) \/ StoreFails(r) \/ ReleaseFails(r) \/ Send(r)
      PROVE  entry' = entry
  BY <1>4 DEF Receive, Lookup, LookupFails, Commit, CommitUnacknowledged, RollBack,
              StoreFails, ReleaseFails, Send
<1>5. ASSUME NEW S \in SUBSET Calls, Crash(S)
      PROVE  entry' = entry
  BY <1>5 DEF Crash
<1> QED
  BY <1>1, <1>2, <1>3, <1>4, <1>5 DEF CallsNext, callsVars

LEMMA StepSentInv == IInv /\ SentInv /\ [CallsNext]_callsVars => SentInv'
<1> SUFFICES ASSUME IInv, SentInv, [CallsNext]_callsVars, NEW q \in Calls, stage'[q] = "send"
             PROVE  (entry[KeyOf(q)].state = "answered" /\ entry[KeyOf(q)].body = BodyOf(q))'
  BY DEF SentInv
<1> USE DEF KeyOf, BodyOf
<1>0. /\ stage \in [Calls -> Pcs]
      /\ entry \in [Keys -> Entry]
  BY DEF IInv, CallsTypeOK, Pcs, Entry
<1>1. CASE stage[q] = "send"
  <2>1. entry[KeyOf(q)].state = "answered" /\ entry[KeyOf(q)].body = BodyOf(q)
    BY <1>1 DEF SentInv
  <2>2. KeyOf(q) \in Keys
    BY <1>1, AskType DEF IInv
  <2>3. ~ Purge(KeyOf(q))
    BY <1>1 DEF Purge, Moving, InFlight
  <2>4. entry'[KeyOf(q)] = entry[KeyOf(q)]
    BY <2>1, <2>2, <2>3, AnsweredStays
  <2>5. ask'[q] = ask[q]
    BY <1>0, <1>1 DEF CallsNext, callsVars, IInv, CallsTypeOK, Receive, Claim, ClaimFails, Lookup,
         LookupFails,
         Commit, CommitUnacknowledged, RollBack, Store, StoreFails, Release, ReleaseFails,
         Send, Crash, Purge
  <2> QED
    BY <2>1, <2>4, <2>5
<1>2. CASE stage[q] # "send"
  <2>1. Store(q)
    <3>1. stage' # stage
      BY <1>2
    <3>2. PICK r \in Calls :
            \/ \E j \in Keys, b \in Bodies : Receive(r, j, b)
            \/ Claim(r) \/ ClaimFails(r) \/ Lookup(r) \/ LookupFails(r) \/ Commit(r)
            \/ CommitUnacknowledged(r) \/ RollBack(r) \/ Store(r) \/ StoreFails(r)
            \/ Release(r) \/ ReleaseFails(r) \/ Send(r)
      <4>1. ASSUME NEW S \in SUBSET Calls, Crash(S)
            PROVE  FALSE
        BY <1>0, <1>2, <4>1 DEF Crash
      <4>2. ASSUME NEW k \in Keys, Purge(k)
            PROVE  FALSE
        BY <3>1, <4>2 DEF Purge
      <4> QED
        BY <3>1, <4>1, <4>2 DEF CallsNext, callsVars
    <3>3. CASE Store(r)
      <4>1. stage' = [stage EXCEPT ![r] = "send"]
        BY <3>3 DEF Store, Goto
      <4> QED
        BY <1>0, <1>2, <3>3, <4>1
    <3>4. CASE ~ Store(r)
      <4>1. \E step \in Pcs \ {"send"} : stage' = [stage EXCEPT ![r] = step]
        BY <3>2, <3>4 DEF Receive, Claim, ClaimFails, Lookup, LookupFails, Commit,
             CommitUnacknowledged, RollBack, StoreFails, Release, ReleaseFails, Send,
             Goto, Answer, Pcs, InFlight
      <4> QED
        BY <1>0, <1>2, <4>1
    <3> QED
      BY <3>3, <3>4
  <2>2. Holds(q) /\ KeyOf(q) \in Keys /\ ask' = ask
    BY <2>1, AskType DEF Store, IInv, HolderInv
  <2>3. entry' = [entry EXCEPT ![KeyOf(q)] = [entry[KeyOf(q)] EXCEPT !.state = "answered"]]
    BY <2>1, <2>2 DEF Store, Holds
  <2>4. entry[KeyOf(q)] \in Entry
    BY <1>0, <2>2
  <2>5. /\ entry'[KeyOf(q)].state = "answered"
        /\ entry'[KeyOf(q)].body = entry[KeyOf(q)].body
    BY <1>0, <2>2, <2>3, <2>4 DEF Entry
  <2> QED
    BY <2>2, <2>5 DEF Holds
<1> QED
  BY <1>1, <1>2

\* "Persist the outgoing response against the key, BEFORE the bytes go out": a
\* "created" leaves the server only with its answer on record.
THEOREM IdempotencyStoredFirst == CallsSpec => AnswerStoredBeforeSent
<1>1. CallsInit => SentInv
  BY DEF CallsInit, SentInv
<1>2. IInv /\ SentInv /\ [CallsNext]_callsVars =>
        \A r \in Calls : reply[r] # "created" /\ reply'[r] = "created" =>
          entry[KeyOf(r)].state = "answered" /\ entry[KeyOf(r)].body = BodyOf(r)
  <2> SUFFICES ASSUME IInv, SentInv, [CallsNext]_callsVars, NEW q \in Calls,
                      reply[q] # "created", reply'[q] = "created"
               PROVE  entry[KeyOf(q)].state = "answered" /\ entry[KeyOf(q)].body = BodyOf(q)
    OBVIOUS
  <2>0. reply \in [Calls -> Replies]
    BY DEF IInv, CallsTypeOK, Replies
  <2>1. PICK r \in Calls : Lookup(r) \/ Send(r)
    <3>1. ASSUME NEW S \in SUBSET Calls, Crash(S)
          PROVE  FALSE
      BY <2>0, <3>1 DEF Crash
    <3>2. ASSUME UNCHANGED reply
          PROVE  FALSE
      BY <3>2
    <3> QED
      BY <3>1, <3>2 DEF CallsNext, callsVars, Receive, Claim, ClaimFails, LookupFails, Commit,
           CommitUnacknowledged, RollBack, Store, StoreFails, Release, ReleaseFails, Purge
  <2>2. stage[q] = "send"
    BY <2>0, <2>1 DEF Lookup, Send, Answer
  <2> QED
    BY <2>2 DEF SentInv
<1> QED
  BY <1>1, <1>2, StepSentInv, IdempotencyInvariant, PTL DEF CallsSpec, AnswerStoredBeforeSent

\* An answer on record stays there, with its body, until the purge.
THEOREM IdempotencyAnswersKept == CallsSpec => AnswersKept
<1>1. IInv /\ [CallsNext]_callsVars =>
        \A k \in Keys : entry[k].state = "answered" => entry'[k] = entry[k] \/ Purge(k)
  BY AnsweredStays
<1> QED
  BY <1>1, IdempotencyInvariant, PTL DEF CallsSpec, AnswersKept
=============================================================================
