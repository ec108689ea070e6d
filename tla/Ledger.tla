------------------------------- MODULE Ledger -------------------------------
(***************************************************************************)
(* The expense ledger of one trip: participants, expenses with their       *)
(* payment and share rows, settlements, and the requests that change them  *)
(* (modules/ledger over PostgreSQL at READ COMMITTED).                     *)
(*                                                                         *)
(* Committed rows are the variables `person`, `expense`, `row` and         *)
(* `settlement`.  A handler whose outcome rests on something it read       *)
(* earlier in its transaction is a request with a program counter, and     *)
(* its uncommitted writes are its own (`wrote`) until it commits:          *)
(*   - addParticipant and createExpense count and read, then insert;       *)
(*   - removeParticipant reads a balance, or rewrites rows in six          *)
(*     statements, and deactivates.                                        *)
(* Every other handler decides and writes in one guarded statement and is  *)
(* one action.                                                             *)
(*                                                                         *)
(* Amounts are the stored base-currency amounts.  The native amounts obey  *)
(* the same statements and the same two trigger sums.  The activity row,   *)
(* the notification and the broadcast of each handler are left out, and so *)
(* are the itinerary link of an expense and the payout details of a        *)
(* participant.                                                            *)
(***************************************************************************)
EXTENDS Integers, FiniteSets, Functions, Policy

CONSTANTS
  Participants,     \* ids of trip_participants rows
  Expenses,         \* ids of expenses rows
  Settlements,      \* ids of settlements rows
  Requests,         \* the requests with a transaction of several steps: this bounds them
  Accesses,         \* TripAccess records a request may carry
  Bills,            \* resolved expenses a client may submit, see BillType
  Amounts,          \* settlement amounts a client may submit
  ParticipantLimit, \* limits.participantsPerTrip
  ExpenseLimit,     \* limits.expensesPerTrip
  NoRow,            \* no row with that key
  Nobody            \* no participant: null in the code

Kinds == {"share", "payment"}

\* The key of an expense_shares or expense_payments row: (expense, participant).
Cells == Kinds \X Expenses \X Participants

\* What resolvePayments and resolveSplit hand to the repository.
BillType ==
  [total : Int, share : [Participants -> Int \cup {NoRow}],
   payment : [Participants -> Int \cup {NoRow}]]

ASSUME ConstantsAssumption ==
  /\ NoRow \notin Int
  /\ Nobody \notin Participants
  /\ Bills \subseteq BillType
  /\ Amounts \subseteq Int
  /\ ParticipantLimit \in Nat /\ ExpenseLimit \in Nat
  /\ \A a \in Accesses : a.role \in Roles /\ a.participant \in Participants \cup {Nobody}

ASSUME FiniteAssumption ==
  IsFiniteSet(Participants) /\ IsFiniteSet(Expenses) /\ IsFiniteSet(Settlements)

VARIABLES
  person,      \* trip_participants: "absent", "active" or "inactive" (is_active)
  expense,     \* expenses: [state, total, author], state none / live / deleted
  row,         \* committed expense_shares and expense_payments, by cell
  settlement,  \* settlements: [state, from, to, amount, confirmed]
  pc,          \* where each request is in its handler
  job,         \* what each request was asked, and what it has read so far
  wrote,       \* cells each open transaction has written: it holds their locks
  draft,       \* the values it wrote there
  undone       \* history: expenses brought back by restoreExpense

vars == <<person, expense, row, settlement, pc, job, wrote, draft, undone>>
store == <<person, expense, row, settlement>>

\* removeParticipant's statements, in order, once a reassignment is under way.
RewriteSteps ==
  {"joinShares", "mergeShares", "dropShares", "moveShares",
   "joinPayments", "mergePayments", "dropPayments", "movePayments"}

Steps ==
  {"idle", "insertParticipant", "insertExpense", "deactivate", "done"} \cup RewriteSteps

KindOf(step) ==
  IF step \in {"joinShares", "mergeShares", "dropShares", "moveShares"}
  THEN "share" ELSE "payment"

After(step) ==
  CASE step = "joinShares"    -> "mergeShares"
    [] step = "mergeShares"   -> "dropShares"
    [] step = "dropShares"    -> "moveShares"
    [] step = "moveShares"    -> "joinPayments"
    [] step = "joinPayments"  -> "mergePayments"
    [] step = "mergePayments" -> "dropPayments"
    [] step = "dropPayments"  -> "movePayments"
    [] step = "movePayments"  -> "deactivate"

Authors == {a.user : a \in Accesses} \cup {Nobody}

ExpenseType == [state : {"none", "live", "deleted"}, total : Int, author : Authors]

SettlementType ==
  [state : {"none", "open", "voided"}, from : Participants \cup {Nobody},
   to : Participants \cup {Nobody}, amount : Int, confirmed : BOOLEAN]

JobType ==
  [from : Participants \cup {Nobody}, to : Participants \cup {Nobody},
   seen : SUBSET Participants, author : Authors,
   matched : [Expenses -> Int \cup {NoRow}]]

NoMatch == [e \in Expenses |-> NoRow]
NoJob == [from |-> Nobody, to |-> Nobody, seen |-> {}, author |-> Nobody, matched |-> NoMatch]
NoDraft == [c \in Cells |-> NoRow]

-----------------------------------------------------------------------------
(* Reading the ledger *)

AmountIn(v) == IF v = NoRow THEN 0 ELSE v

\* SUM over the rows of one kind of expense e, in a table of rows t.
RowSum(t, k, e) == SumFunction([p \in Participants |-> AmountIn(t[<<k, e, p>>])])

IsLive(e) == expense[e].state = "live"
Live == {e \in Expenses : IsLive(e)}
Active == {p \in Participants : person[p] = "active"}

\* The sums assert_expense_balanced compares, in a table of rows t.
SumsAgree(t, e, total) == \A k \in Kinds : RowSum(t, k, e) = total

Balanced(e) == SumsAgree(row, e, expense[e].total)

\* What p paid, or owes, over the expenses that are not deleted.
Total(k, p) == SumFunction([e \in Live |-> AmountIn(row[<<k, e, p>>])])

\* (mutant) the received side counts voided settlements.
MovedVoidedToo(side, p) ==
  SumFunction([s \in {x \in Settlements :
                       /\ settlement[x].state \in (IF side = "to" THEN {"open", "voided"} ELSE {"open"})
                       /\ settlement[x][side] = p} |->
                 settlement[s].amount])

\* What p sent ("from") or received ("to") in settlements that are not voided.
Moved(side, p) ==
  SumFunction([s \in {x \in Settlements : /\ settlement[x].state = "open"
                                         /\ settlement[x][side] = p} |->
                 settlement[s].amount])

\* BalanceRepository.forTrip: paying and sending raise a net, owing and receiving lower it.
Net(p) == Total("payment", p) - Total("share", p) + Moved("from", p) - Moved("to", p)

\* hasLedgerHistory: rows of deleted expenses and voided settlements count too.
HasLedgerHistory(p) ==
  \/ \E k \in Kinds, e \in Expenses : row[<<k, e, p>>] # NoRow
  \/ \E s \in Settlements : /\ settlement[s].state # "none"
                            /\ p \in {settlement[s].from, settlement[s].to}

\* What request r's transaction sees: its own writes over the committed rows.
View(r, c) == IF c \in wrote[r] THEN draft[r][c] ELSE row[c]

\* A row another open transaction has written is locked: the statement waits.
Unlocked(r, cells) == \A q \in Requests \ {r} : wrote[q] \cap cells = {}

-----------------------------------------------------------------------------
TypeOK ==
  /\ person \in [Participants -> {"absent", "active", "inactive"}]
  /\ expense \in [Expenses -> ExpenseType]
  /\ row \in [Cells -> Int \cup {NoRow}]
  /\ settlement \in [Settlements -> SettlementType]
  /\ pc \in [Requests -> Steps]
  /\ job \in [Requests -> JobType]
  /\ wrote \in [Requests -> SUBSET Cells]
  /\ draft \in [Requests -> [Cells -> Int \cup {NoRow}]]
  /\ undone \subseteq Expenses
  /\ \A r \in Requests : pc[r] \in RewriteSteps => {job[r].from, job[r].to} \subseteq Participants
  /\ \A r \in Requests : pc[r] = "deactivate" => job[r].from \in Participants

\* trips.service creates the trip with its owner as the first participant; the
\* others join by addParticipant or by accepting an invite.
Init ==
  /\ \E present \in SUBSET Participants :
       /\ present # {}
       /\ person = [p \in Participants |-> IF p \in present THEN "active" ELSE "absent"]
  /\ expense = [e \in Expenses |-> [state |-> "none", total |-> 0, author |-> Nobody]]
  /\ row = [c \in Cells |-> NoRow]
  /\ settlement = [s \in Settlements |-> [state |-> "none", from |-> Nobody, to |-> Nobody,
                                          amount |-> 0, confirmed |-> FALSE]]
  /\ pc = [r \in Requests |-> "idle"]
  /\ job = [r \in Requests |-> NoJob]
  /\ wrote = [r \in Requests |-> {}]
  /\ draft = [r \in Requests |-> NoDraft]
  /\ undone = {}

\* The transaction ends, committed or rolled back, and its locks go with it.
Finish(r) ==
  /\ pc' = [pc EXCEPT ![r] = "done"]
  /\ job' = [job EXCEPT ![r] = NoJob]
  /\ wrote' = [wrote EXCEPT ![r] = {}]
  /\ draft' = [draft EXCEPT ![r] = NoDraft]

\* A thrown error, a violated constraint, a deadlock PostgreSQL breaks or a lost
\* connection: withTransaction rolls everything back.
Abort(r) ==
  /\ pc[r] \notin {"idle", "done"}
  /\ Finish(r)
  /\ UNCHANGED <<store, undone>>

-----------------------------------------------------------------------------
(* Participants *)

AddParticipantCount(r, a) ==
  /\ pc[r] = "idle"
  /\ May(a, "participant:manage")
  /\ Cardinality(Active) < ParticipantLimit
  /\ pc' = [pc EXCEPT ![r] = "insertParticipant"]
  /\ UNCHANGED <<store, job, wrote, draft, undone>>

AddParticipantInsert(r, p) ==
  /\ pc[r] = "insertParticipant"
  /\ person[p] = "absent"
  /\ person' = [person EXCEPT ![p] = "active"]
  /\ Finish(r)
  /\ UNCHANGED <<expense, row, settlement, undone>>

\* (mutant) a person with history is always reassigned, to nobody when no one is named.
RemoveParticipantReadAnyTarget(r, a, p, target) ==
  /\ pc[r] = "idle"
  /\ May(a, "participant:manage")
  /\ person[p] # "absent"
  /\ target # p
  /\ pc' = [pc EXCEPT ![r] = IF HasLedgerHistory(p) THEN "joinShares" ELSE "deactivate"]
  /\ job' = [job EXCEPT ![r].from = p, ![r].to = target]
  /\ UNCHANGED <<store, wrote, draft, undone>>

\* removeParticipant up to its first write.  Nothing here asks whether p, or the
\* reassignment target, is still active.
RemoveParticipantRead(r, a, p, target) ==
  /\ pc[r] = "idle"
  /\ May(a, "participant:manage")
  /\ person[p] # "absent"
  /\ LET rewrites == HasLedgerHistory(p) /\ target # Nobody IN
     /\ rewrites => target # p /\ person[target] # "absent"
     /\ HasLedgerHistory(p) /\ target = Nobody => Net(p) = 0
     /\ pc' = [pc EXCEPT ![r] = IF rewrites THEN "joinShares" ELSE "deactivate"]
     /\ job' = [job EXCEPT ![r].from = p, ![r].to = IF rewrites THEN target ELSE Nobody]
  /\ UNCHANGED <<store, wrote, draft, undone>>

\* Write the cells of `values` in r's transaction, wait for their locks first.
Write(r, values) ==
  /\ Unlocked(r, DOMAIN values)
  /\ wrote' = [wrote EXCEPT ![r] = @ \cup DOMAIN values]
  /\ draft' = [draft EXCEPT ![r] =
       [c \in Cells |-> IF c \in DOMAIN values THEN values[c] ELSE @[c]]]

Advance(r) == pc' = [pc EXCEPT ![r] = After(@)]

\* `update target ... from source`: the join is evaluated on the statement's
\* snapshot, and the source rows it matched are not read again.
JoinRows(r) ==
  /\ pc[r] \in {"joinShares", "joinPayments"}
  /\ LET k == KindOf(pc[r])
         From(e) == <<k, e, job[r].from>>
         To(e) == <<k, e, job[r].to>>
     IN job' = [job EXCEPT ![r].matched =
          [e \in Expenses |-> IF View(r, To(e)) # NoRow THEN View(r, From(e)) ELSE NoRow]]
  /\ Advance(r)
  /\ UNCHANGED <<store, wrote, draft, undone>>

\* ... and each target row is locked, read in its latest version, and raised.
MergeRows(r) ==
  /\ pc[r] \in {"mergeShares", "mergePayments"}
  /\ LET k == KindOf(pc[r])
         To(e) == <<k, e, job[r].to>>
         hit == {e \in Expenses : job[r].matched[e] # NoRow /\ View(r, To(e)) # NoRow}
     IN /\ Unlocked(r, {To(e) : e \in {x \in Expenses : job[r].matched[x] # NoRow}})
        /\ Write(r, [c \in {To(e) : e \in hit} |-> View(r, c) + job[r].matched[c[2]]])
  /\ job' = [job EXCEPT ![r].matched = NoMatch]
  /\ Advance(r)
  /\ UNCHANGED <<store, undone>>

\* `delete ... where participant = from and the target has a row there too`.
DropRows(r) ==
  /\ pc[r] \in {"dropShares", "dropPayments"}
  /\ LET k == KindOf(pc[r])
         both == {e \in Expenses : /\ View(r, <<k, e, job[r].from>>) # NoRow
                                   /\ View(r, <<k, e, job[r].to>>) # NoRow}
     IN Write(r, [c \in {<<k, e, job[r].from>> : e \in both} |-> NoRow])
  /\ Advance(r)
  /\ UNCHANGED <<store, job, undone>>

\* `set participant = to where participant = from`: a row the target got in the
\* meantime violates the unique key, and only Abort is left.
MoveRows(r) ==
  /\ pc[r] \in {"moveShares", "movePayments"}
  /\ LET k == KindOf(pc[r])
         From(e) == <<k, e, job[r].from>>
         To(e) == <<k, e, job[r].to>>
         mine == {e \in Expenses : View(r, From(e)) # NoRow}
     IN /\ \A e \in mine : View(r, To(e)) = NoRow
        /\ Write(r, [c \in {From(e) : e \in mine} \cup {To(e) : e \in mine} |->
                       IF c[3] = job[r].from THEN NoRow ELSE View(r, From(c[2]))])
  /\ Advance(r)
  /\ UNCHANGED <<store, job, undone>>

\* The committed rows once r's writes are applied.
Merged(r) == [c \in Cells |-> View(r, c)]

Touched(r) == {c[2] : c \in wrote[r]}

\* (mutant) only trg_payments_balanced is installed.
TriggersPassPaymentsOnly(r) ==
  \A e \in Touched(r) : IsLive(e) => RowSum(Merged(r), "payment", e) = expense[e].total

\* The deferred constraint triggers, at COMMIT: one check for each expense with a
\* written row, skipped when the expense is deleted by then.
TriggersPass(r) == \A e \in Touched(r) : IsLive(e) => SumsAgree(Merged(r), e, expense[e].total)

\* settlements: both ends move to the target; CHECK settlements_distinct.
Reassigned(r, s) ==
  LET swap(p) == IF p = job[r].from THEN job[r].to ELSE p IN
  [settlement[s] EXCEPT !.from = swap(@), !.to = swap(@)]

SettlementsMoved(r) ==
  IF job[r].to = Nobody THEN settlement
  ELSE [s \in Settlements |-> Reassigned(r, s)]

\* (mutant) no CHECK settlements_distinct.
NoDistinctCheck(table) == DOMAIN table = Settlements

Distinct(table) == \A s \in Settlements : table[s].state # "none" => table[s].from # table[s].to

RemoveParticipantCommit(r) ==
  /\ pc[r] = "deactivate"
  /\ Distinct(SettlementsMoved(r))
  /\ TriggersPass(r)
  /\ settlement' = SettlementsMoved(r)
  /\ row' = Merged(r)
  /\ person' = [person EXCEPT ![job[r].from] = "inactive"]
  /\ Finish(r)
  /\ UNCHANGED <<expense, undone>>

-----------------------------------------------------------------------------
(* Expenses *)

\* createExpense reads the count and the active participants ...
CreateExpenseRead(r, a) ==
  /\ pc[r] = "idle"
  /\ May(a, "expense:create")
  /\ Cardinality(Live) < ExpenseLimit
  /\ pc' = [pc EXCEPT ![r] = "insertExpense"]
  /\ job' = [job EXCEPT ![r].seen = Active, ![r].author = a.user]
  /\ UNCHANGED <<store, wrote, draft, undone>>

InBill(bill) == {p \in Participants : bill.share[p] # NoRow \/ bill.payment[p] # NoRow}

\* The rows of a new expense e.
Inserted(e, bill) ==
  [c \in Cells |-> IF c[2] # e THEN row[c]
                   ELSE IF c[1] = "share" THEN bill.share[c[3]] ELSE bill.payment[c[3]]]

\* ... and inserts the expense with rows for people it saw; CHECK expenses_nonzero
\* and the deferred triggers decide at COMMIT.
CreateExpenseCommit(r, e, bill) ==
  /\ pc[r] = "insertExpense"
  /\ expense[e].state = "none"
  /\ InBill(bill) \subseteq job[r].seen
  /\ bill.total # 0
  /\ SumsAgree(Inserted(e, bill), e, bill.total)
  /\ expense' = [expense EXCEPT ![e] = [state |-> "live", total |-> bill.total,
                                        author |-> job[r].author]]
  /\ row' = Inserted(e, bill)
  /\ Finish(r)
  /\ UNCHANGED <<person, settlement, undone>>

DeleteExpense(a, e) ==
  /\ May(a, "expense:create")
  /\ IsLive(e)
  /\ MayOn(a, "expense:edit-any", expense[e].author)
  /\ expense' = [expense EXCEPT ![e].state = "deleted"]
  /\ UNCHANGED <<person, row, settlement, pc, job, wrote, draft, undone>>

\* restore() clears deleted_at and looks at nothing else: no trigger is on expenses.
RestoreExpense(a, e) ==
  /\ May(a, "expense:create")
  /\ expense[e].state = "deleted"
  /\ MayOn(a, "expense:edit-any", expense[e].author)
  /\ expense' = [expense EXCEPT ![e].state = "live"]
  /\ undone' = undone \cup {e}
  /\ UNCHANGED <<person, row, settlement, pc, job, wrote, draft>>

-----------------------------------------------------------------------------
(* Settlements *)

RecordSettlement(a, s, from, to, amount) ==
  /\ May(a, "settlement:record-own")
  /\ settlement[s].state = "none"
  /\ person[from] # "absent" /\ person[to] # "absent"
  /\ a.role = "OWNER" \/ a.participant \in {from, to}
  /\ from # to
  /\ amount > 0
  /\ settlement' = [settlement EXCEPT ![s] = [state |-> "open", from |-> from, to |-> to,
                                              amount |-> amount, confirmed |-> FALSE]]
  /\ UNCHANGED <<person, expense, row, pc, job, wrote, draft, undone>>

\* (mutant) a voided settlement can still be confirmed.
ConfirmVoidedToo(a, s) ==
  /\ May(a, "settlement:confirm-own")
  /\ settlement[s].state # "none"
  /\ a.role = "OWNER" \/ a.participant = settlement[s].to
  /\ settlement' = [settlement EXCEPT ![s].confirmed = TRUE]
  /\ UNCHANGED <<person, expense, row, pc, job, wrote, draft, undone>>

ConfirmSettlement(a, s) ==
  /\ May(a, "settlement:confirm-own")
  /\ settlement[s].state = "open"
  /\ a.role = "OWNER" \/ a.participant = settlement[s].to
  /\ settlement' = [settlement EXCEPT ![s].confirmed = TRUE]
  /\ UNCHANGED <<person, expense, row, pc, job, wrote, draft, undone>>

VoidSettlement(a, s) ==
  /\ May(a, "settlement:void")
  /\ settlement[s].state = "open"
  /\ settlement' = [settlement EXCEPT ![s].state = "voided"]
  /\ UNCHANGED <<person, expense, row, pc, job, wrote, draft, undone>>

-----------------------------------------------------------------------------
Next ==
  \/ \E r \in Requests, a \in Accesses :
       \/ AddParticipantCount(r, a)
       \/ CreateExpenseRead(r, a)
       \/ \E p \in Participants, target \in Participants \cup {Nobody} :
            RemoveParticipantRead(r, a, p, target)
  \/ \E r \in Requests :
       \/ \E p \in Participants : AddParticipantInsert(r, p)
       \/ \E e \in Expenses, bill \in Bills : CreateExpenseCommit(r, e, bill)
       \/ JoinRows(r)
       \/ MergeRows(r)
       \/ DropRows(r)
       \/ MoveRows(r)
       \/ RemoveParticipantCommit(r)
       \/ Abort(r)
  \/ \E a \in Accesses, e \in Expenses : DeleteExpense(a, e) \/ RestoreExpense(a, e)
  \/ \E a \in Accesses, s \in Settlements :
       \/ ConfirmSettlement(a, s)
       \/ VoidSettlement(a, s)
       \/ \E from, to \in Participants, amount \in Amounts :
            RecordSettlement(a, s, from, to, amount)

Spec == Init /\ [][Next]_vars

-----------------------------------------------------------------------------
(* Properties *)

\* An expense that has stayed live since it was created is balanced, both ways,
\* whatever removals and creations overlapped on its rows: what the deferred
\* triggers of 0003_ledger_invariants.sql give (FR-SPLIT-17, FR-SPLIT-18).
UntouchedExpensesBalanced == \A e \in Live \ undone : Balanced(e)

\* assert_expense_balanced's header claims more: no live expense is ever
\* unbalanced.  restoreExpense writes no share and no payment, so no trigger
\* looks at rows that were rewritten while the expense was deleted.
LiveExpensesBalanced == \A e \in Live : Balanced(e)

\* assertBalanced refuses to answer (LedgerImbalanceError) only when some live
\* expense is unbalanced: settlements, voids, removals and reassignments never
\* cost the group its balances page.
BalancesNeverRefuse ==
  LiveExpensesBalanced => SumFunction([p \in Participants |-> Net(p)]) = 0

\* A settlement is a positive transfer between two different people, and stays
\* one when a reassignment rewrites its ends (settlements_distinct).
SettlementsSound ==
  \A s \in Settlements : settlement[s].state # "none" =>
    settlement[s].from # settlement[s].to /\ settlement[s].amount > 0

\* Settlement history is permanent (FR-SPLIT-31): a settlement never disappears
\* or changes its amount, and once voided it is never reopened or confirmed.
SettlementHistoryPermanent ==
  [][\A s \in Settlements : settlement[s].state # "none" =>
       /\ settlement'[s].state # "none"
       /\ settlement'[s].amount = settlement[s].amount
       /\ settlement[s].state = "voided" =>
            /\ settlement'[s].state = "voided"
            /\ settlement'[s].confirmed = settlement[s].confirmed]_vars

\* A removal moves a balance, it makes none: with every live expense balanced,
\* ending it keeps the joint net of the person removed and the person who takes
\* over, and the net of everyone else (FR-SPLIT-04).
RemovalConserves ==
  [][\A r \in Requests :
       pc[r] = "deactivate" /\ pc'[r] = "done" /\ LiveExpensesBalanced =>
         LET pair == {job[r].from, job[r].to} \ {Nobody} IN
         /\ SumFunction([p \in pair |-> Net(p)]) = SumFunction([p \in pair |-> Net(p)'])
         /\ \A q \in Participants \ pair : Net(q)' = Net(q)]_vars

=============================================================================
