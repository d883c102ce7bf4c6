----------------------------- MODULE MCRowEdits -----------------------------
(* RowEdits for TLC: three keys, one of which two rows share. *)
EXTENDS RowEdits, TLC

CONSTANTS k1, k2, k3, r1, r2, r3, r4

TwinKeys == r1 :> k1 @@ r2 :> k2 @@ r3 :> k3 @@ r4 :> k3
=============================================================================
