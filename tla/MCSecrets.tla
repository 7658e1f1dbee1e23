------------------------------ MODULE MCSecrets ------------------------------
(***************************************************************************)
(* An instance of Secrets for TLC: two requests through one manager, whose *)
(* awaits interleave, and whose cache and Redis lose the secret apart.     *)
(***************************************************************************)
EXTENDS Secrets, TLC

CONSTANTS m1, r1, r2

Same == r1 :> m1 @@ r2 :> m1
=============================================================================
