----------------------------- MODULE MCJobStream -----------------------------
(***************************************************************************)
(* Instances of JobStream for TLC: two streams on one API process.         *)
(***************************************************************************)
EXTENDS JobStream, TLC

CONSTANTS s1, s2, a1, a2

Together == s1 :> a1 @@ s2 :> a1
=============================================================================
