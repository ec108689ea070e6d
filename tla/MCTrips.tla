------------------------------ MODULE MCTrips -------------------------------
(* A small instance of Trips with its fairness: two days, a block, a request. *)
EXTENDS Trips

CONSTANTS b1, d1, d2, r1

AllDays == {d1, d2}
=============================================================================
