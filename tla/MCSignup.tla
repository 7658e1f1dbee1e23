------------------------------ MODULE MCSignup ------------------------------
(***************************************************************************)
(* An instance of Signup for TLC: a person who signs up twice with one     *)
(* email, a person who comes back twice from a provider, one invite they   *)
(* all were sent, and two subdomains.                                      *)
(***************************************************************************)
EXTENDS Signup, TLC

CONSTANTS p1, p2, o1, o2, i1

Persons == p1 :> "ann" @@ p2 :> "ann" @@ o1 :> "bob" @@ o2 :> "bob"
Choices == p1 :> "s1" @@ p2 :> "s2" @@ o1 :> "s1" @@ o2 :> "s1"
Links == p1 :> {i1} @@ p2 :> {i1} @@ o1 :> {i1} @@ o2 :> {}
=============================================================================
