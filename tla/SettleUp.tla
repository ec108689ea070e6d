------------------------------- MODULE SettleUp -------------------------------
(***************************************************************************)
(* From submitted expenses to settle-up advice: each expense is converted  *)
(* and split by Money, stored if the database accepts it, and the balances *)
(* of what is stored are turned into transfers by both algorithms of       *)
(* money/settle.ts.  Group members record suggested transfers one by one.  *)
(*                                                                         *)
(* This is the sequential side of the ledger; Ledger has its interleavings. *)
(***************************************************************************)
EXTENDS Money, Sequences

CONSTANTS
  Participants,  \* participant ids, integers
  Inputs,        \* CreateExpenseBody values: [total, rate, payments, split]
  MaxBills       \* bound: how many expenses are stored

\* Amounts of people on the trip, each of them named once: everything else is refused
\* by the contracts or by assertParticipantsBelong.
IsAmounts(f) ==
  /\ DOMAIN f \subseteq Participants
  /\ \A p \in DOMAIN f : f[p] \in Int

\* SplitInput: at least one person, and weights that allocate() does not refuse.
IsSplit(split) ==
  \/ /\ split.method = "EQUAL"
     /\ split.who \subseteq Participants /\ split.who # {}
  \/ /\ split.method \in {"SHARES", "PERCENT"}
     /\ IsAmounts(split.given)
     /\ \A p \in DOMAIN split.given : split.given[p] >= 0
     /\ Total(split.given) > 0
  \/ /\ split.method = "ADJUSTMENT"
     /\ split.who \subseteq Participants /\ split.who # {}
     /\ IsAmounts(split.given)
  \/ /\ split.method = "EXACT"
     /\ IsAmounts(split.given)

IsBody(input) ==
  /\ input.total \in Int /\ input.total # 0
  /\ input.rate.num \in Nat /\ input.rate.den \in Nat \ {0}
  /\ IsAmounts(input.payments)
  /\ IsSplit(input.split)

ASSUME ConstantsAssumption ==
  /\ Participants \subseteq Int /\ IsFiniteSet(Participants)
  /\ \A input \in Inputs : IsBody(input)
  /\ MaxBills \in Nat

VARIABLES
  bills,    \* the stored expenses: base total, base shares and base payments
  settled,  \* settlements: the total each person has sent each other person
  attempt   \* the last submitted body and what the resolver made of it

vars == <<bills, settled, attempt>>

Refused == [outcome |-> "refused"]

Resolved(input) ==
  LET totalBase == ConvertMinor(input.total, input.rate) IN
  IF SplitAccepted(input.split, input.total) /\ PaymentsAccepted(input.payments, input.total)
  THEN [outcome |-> "resolved", input |-> input, totalBase |-> totalBase,
        shares |-> ResolveSplit(input.split, input.total, totalBase),
        payments |-> ResolvePayments(input.payments, totalBase)]
  ELSE Refused

\* The four sums assert_expense_balanced compares at COMMIT.
SumsAgree(a) ==
  /\ Total(a.shares.native) = a.input.total /\ Total(a.shares.base) = a.totalBase
  /\ Total(a.payments.native) = a.input.total /\ Total(a.payments.base) = a.totalBase

-----------------------------------------------------------------------------
(* Balances *)

At(f, p) == IF p \in DOMAIN f THEN f[p] ELSE 0

SumOver(S, f(_)) == SumFunction([x \in S |-> f(x)])

\* BalanceRepository.forTrip
Net(p) ==
  LET billed(i) == At(bills[i].payments, p) - At(bills[i].shares, p)
      moved(q) == settled[<<p, q>>] - settled[<<q, p>>]
  IN SumOver(DOMAIN bills, billed) + SumOver(Participants, moved)

Balances == [p \in Participants |-> Net(p)]
IsFullySettled(net) == \A p \in DOMAIN net : net[p] = 0

-----------------------------------------------------------------------------
(* Settle-up *)

Transfer(from, to, amount) == [from |-> from, to |-> to, amount |-> amount]

\* The members of S in the order Before.
Listed(S, Before(_, _)) ==
  CHOOSE list \in [1 .. Cardinality(S) -> S] :
    \A i, j \in 1 .. Cardinality(S) : i < j => Before(list[i], list[j])

\* One side of partition(): largest first, then by id.
Ranked(S, net) ==
  Listed(S, LAMBDA p, q : \/ Abs(net[p]) > Abs(net[q])
                          \/ Abs(net[p]) = Abs(net[q]) /\ p < q)

\* One turn of simplify()'s loop: the two people pointed at settle what they can, and
\* whoever is square is passed over.  `left` is what each position still holds.
Turn(debtors, creditors, s) ==
  IF s.d > Len(debtors) \/ s.c > Len(creditors) THEN s
  ELSE LET from == debtors[s.d]
           to == creditors[s.c]
           amount == IF s.left[from] < s.left[to] THEN s.left[from] ELSE s.left[to]
           left == [s.left EXCEPT ![from] = @ - amount, ![to] = @ - amount]
       IN [d |-> IF left[from] = 0 THEN s.d + 1 ELSE s.d,
           c |-> IF left[to] = 0 THEN s.c + 1 ELSE s.c,
           left |-> left,
           made |-> Append(s.made, Transfer(from, to, amount))]

\* The transfers made when a pointer has passed its list, after one turn a position at most.
Matched(debtors, creditors, amounts) ==
  LET turns == Len(debtors) + Len(creditors)
      run[n \in 0 .. turns] ==
        IF n = 0 THEN [d |-> 1, c |-> 1, left |-> amounts, made |-> <<>>]
        ELSE Turn(debtors, creditors, run[n - 1])
  IN run[turns].made

\* assertBalanced throws: there is no advice.
Simplify(net) ==
  IF Total(net) # 0 THEN <<>>
  ELSE Matched(Ranked({p \in DOMAIN net : net[p] < 0}, net),
               Ranked({p \in DOMAIN net : net[p] > 0}, net),
               [p \in DOMAIN net |-> Abs(net[p])])

\* (mutant) each sharer is apportioned against the original payments.
PairwiseOfOriginal(bill) ==
  LET owed(p, q) == IF p \in DOMAIN bill.shares /\ q \in DOMAIN bill.payments
                    THEN Allocate(bill.shares[p], [x \in {y \in DOMAIN bill.payments : bill.payments[y] # 0}
                                                     |-> Abs(bill.payments[x])])[q] ELSE 0
  IN [e \in Participants \X Participants |-> owed(e[1], e[2])]

ById(S) == Listed(S, <)

\* One share is allocated over what each payer has left; a refund works in magnitudes.
Draw(bill, p, acc) ==
  LET sign == Sign(Total(bill.payments))
      payers == {q \in DOMAIN acc.left : acc.left[q] > 0}
      portion == Allocate(bill.shares[p] * sign, [q \in payers |-> acc.left[q]])
  IN IF bill.shares[p] = 0 \/ payers = {} THEN acc
     ELSE [left |-> [q \in DOMAIN acc.left |-> acc.left[q] - At(portion, q)],
           owed |-> [e \in DOMAIN acc.owed |->
                       acc.owed[e] + IF e[1] = p THEN At(portion, e[2]) * sign ELSE 0]]

\* What each sharer of one expense owes each payer: the shares are drawn in id order.
PairwiseOf(bill) ==
  LET sharers == ById(DOMAIN bill.shares)
      start == [left |-> [q \in DOMAIN bill.payments |->
                            bill.payments[q] * Sign(Total(bill.payments))],
                owed |-> [e \in Participants \X Participants |-> 0]]
      drawn[n \in 0 .. Len(sharers)] ==
        IF n = 0 THEN start ELSE Draw(bill, sharers[n], drawn[n - 1])
  IN drawn[Len(sharers)].owed

\* pairwiseDebts(): it reads expenses only.
PairwiseDebts ==
  [e \in Participants \X Participants |->
     LET owed(i) == PairwiseOf(bills[i])[e] IN SumOver(DOMAIN bills, owed)]

\* nettedPairwise(): one transfer for each pair whose mutual debts differ.
NettedPairwise(debt) ==
  LET netted(p, q) == debt[<<p, q>>] - debt[<<q, p>>]
      pairs == {e \in Participants \X Participants : e[1] # e[2] /\ netted(e[1], e[2]) > 0}
  IN [e \in pairs |-> Transfer(e[1], e[2], netted(e[1], e[2]))]

\* The transfers are listed by their place or by their pair.
ApplyTransfers(net, transfers) ==
  [p \in DOMAIN net |->
     LET effect(i) == LET t == transfers[i] IN
                      (IF t.from = p THEN t.amount ELSE 0) - (IF t.to = p THEN t.amount ELSE 0)
     IN net[p] + SumOver(DOMAIN transfers, effect)]

-----------------------------------------------------------------------------
Init ==
  /\ bills = <<>>
  /\ settled = [e \in Participants \X Participants |-> 0]
  /\ attempt = Refused

CreateExpense(input) ==
  /\ Len(bills) < MaxBills
  /\ attempt' = Resolved(input)
  /\ bills' = IF attempt'.outcome = "resolved" /\ SumsAgree(attempt')
              THEN Append(bills, [total |-> attempt'.totalBase, shares |-> attempt'.shares.base,
                                  payments |-> attempt'.payments.base])
              ELSE bills
  /\ UNCHANGED settled

\* (mutant) the two ends are stored the wrong way round.
RecordBackwards(i) ==
  LET t == Simplify(Balances)[i] IN
  /\ settled' = [settled EXCEPT ![<<t.to, t.from>>] = @ + t.amount]
  /\ UNCHANGED <<bills, attempt>>

\* settleUp suggests, a member pays outside the system and records it.
RecordSuggestion(i) ==
  LET t == Simplify(Balances)[i] IN
  /\ settled' = [settled EXCEPT ![<<t.from, t.to>>] = @ + t.amount]
  /\ UNCHANGED <<bills, attempt>>

Next ==
  \/ \E input \in Inputs : CreateExpense(input)
  \/ \E i \in DOMAIN Simplify(Balances) : RecordSuggestion(i)

Spec == Init /\ [][Next]_vars

-----------------------------------------------------------------------------
(* Properties *)

IsResolved == attempt.outcome = "resolved"

\* Everything the client spelled out as an amount is non-negative.
PlainAmounts(input) ==
  /\ \A p \in DOMAIN input.payments : input.payments[p] >= 0 \/ DOMAIN input.payments = {p}
  /\ input.split.method = "EXACT" => \A p \in DOMAIN input.split.given : input.split.given[p] >= 0

\* No split loses or invents a minor unit in either currency (FR-SPLIT-17): an
\* accepted expense is one the triggers accept, when the amounts the client spelled
\* out are not negative.
SplitSumsExactly == IsResolved /\ PlainAmounts(attempt.input) => SumsAgree(attempt)

Weighted == {"SHARES", "PERCENT"}

\* A weighted split is fair: nobody is more than one minor unit from their exact
\* proportion, and a larger weight never pays less than a smaller one.
WeightedSplitFair ==
  IsResolved /\ attempt.input.split.method \in Weighted =>
    LET w == attempt.input.split.given
        share == attempt.shares.base
    IN \A p, q \in DOMAIN w :
         /\ Abs(share[p] * Total(w) - attempt.totalBase * w[p]) < Total(w)
         /\ w[p] > w[q] => Abs(share[p]) >= Abs(share[q])

\* A split is exact and fair (resolveSplit, allocateProportional).
SplitsExactAndFair == SplitSumsExactly /\ WeightedSplitFair

Debtors == {p \in Participants : Net(p) < 0}
Creditors == {p \in Participants : Net(p) > 0}

\* What simplify() promises: recording every transfer squares everybody, each goes
\* from someone who owes to someone who is owed, and there are fewer of them than
\* people with a balance.
SimplifyClears ==
  LET transfers == Simplify(Balances) IN
  /\ IsFullySettled(ApplyTransfers(Balances, transfers))
  /\ \A i \in DOMAIN transfers : /\ transfers[i].from \in Debtors /\ transfers[i].to \in Creditors
                                /\ transfers[i].amount > 0
  /\ transfers # <<>> => Len(transfers) < Cardinality(Debtors \cup Creditors)

\* Following the advice one transfer at a time is safe: recording any suggested
\* transfer never flips who owes and who is owed, and never raises what anyone owes.
SuggestionsConverge ==
  [][settled' # settled =>
       \A p \in Participants : /\ Net(p)' = 0 \/ Sign(Net(p)') = Sign(Net(p))
                               /\ Abs(Net(p)') <= Abs(Net(p))]_vars

OneSigned(bill) ==
  /\ \A p \in DOMAIN bill.shares : Sign(bill.total) * bill.shares[p] >= 0
  /\ \A q \in DOMAIN bill.payments : Sign(bill.total) * bill.payments[q] >= 0

PairwiseLeaves == ApplyTransfers(Balances, NettedPairwise(PairwiseDebts))

\* pairwiseDebts wants "the transfers to clear every balance", settlements recorded or
\* not, of expenses whose shares and payments have one sign.
PairwiseClears ==
  (\A i \in DOMAIN bills : OneSigned(bills[i])) => IsFullySettled(PairwiseLeaves)

\* It holds while nothing is settled: rows and columns of each expense's matrix are
\* both exact, whatever the rounding.
PairwiseClearsExpenses == (\A e \in DOMAIN settled : settled[e] = 0) => PairwiseClears

\* Following either advice squares the group (settleUp, simplify, pairwiseDebts).
SettleUpClears == SimplifyClears /\ PairwiseClearsExpenses
=============================================================================
