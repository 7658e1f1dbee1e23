----------------------------- MODULE MCPayments -----------------------------
(***************************************************************************)
(* Instances of Payments for TLC: two handlers; e1 and e2 are payments of  *)
(* one user, e3 is an event that is ignored, e4 names the user 0 and e5 a  *)
(* user id that is not a number.                                           *)
(***************************************************************************)
EXTENDS Payments, TLC

CONSTANTS h1, h2, e1, e2, e3, e4, e5, u1, zero

Named == e1 :> u1 @@ e2 :> u1 @@ e3 :> u1 @@ e4 :> zero @@ e5 :> Unreadable
UsersOf == [e \in Events |-> Named[e]]

Prices == e1 :> 1 @@ e2 :> 2 @@ e3 :> 1 @@ e4 :> 4 @@ e5 :> 8
Awards == [e \in Events |-> Prices[e]]

Symmetric == Permutations(Handlers)

Faults == [retry |-> 1, db |-> 1, redis |-> 1, crash |-> 1]
OneFailedWrite == [retry |-> 1, db |-> 1, redis |-> 0, crash |-> 0]
=============================================================================
