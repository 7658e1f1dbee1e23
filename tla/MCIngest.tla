------------------------------ MODULE MCIngest ------------------------------
(***************************************************************************)
(* An instance of Ingest for TLC: two workers, which may have deliveries of*)
(* one upload at a time, and a fault of any kind.                          *)
(***************************************************************************)
EXTENDS Ingest

CONSTANTS u1, w1, w2

=============================================================================
