----------------------------- MODULE MCDelivery -----------------------------
(* A bounded instance of Delivery for TLC. *)
EXTENDS Delivery, TLC

CONSTANTS ana, ben

MCUsers == {ana, ben}
\* What ana mentions is ben; what ben mentions is himself, so nobody.
MCMentions == {{ben}}

SocketSymmetry == Permutations(Sockets)
=============================================================================
