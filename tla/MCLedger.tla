------------------------------ MODULE MCLedger ------------------------------
(* Bounded instances of Ledger for TLC. *)
EXTENDS Ledger, TLC

CONSTANTS ana, ben, mom, r1, r2, r3

MCParticipants == {ana, ben, mom}

\* The trip's owner, and a contributor with a ledger identity of their own.
MCAccesses == {[user |-> "ana", role |-> "OWNER", participant |-> ana],
               [user |-> "ben", role |-> "CONTRIBUTOR", participant |-> ben]}

OwnerOnly == {[user |-> "ana", role |-> "OWNER", participant |-> ana]}

Bill(total, payment, share) ==
  [total |-> total,
   payment |-> [p \in MCParticipants |-> IF p \in DOMAIN payment THEN payment[p] ELSE NoRow],
   share |-> [p \in MCParticipants |-> IF p \in DOMAIN share THEN share[p] ELSE NoRow]]

\* Two paid and all share; a refund two share; a bill whose shares do not
\* add up, which the resolver can produce for a refund.
Dinner == Bill(3, ana :> 2 @@ ben :> 1, ana :> 1 @@ ben :> 1 @@ mom :> 1)
Refund == Bill(-2, ben :> -2, ana :> -1 @@ ben :> -1)
Uneven == Bill(-2, ana :> -2, ana :> 1 @@ ben :> 1)
MCBills == {Dinner, Uneven}
AllBills == {Dinner, Refund, Uneven}
RequestSymmetry == Permutations(Requests)

=============================================================================
