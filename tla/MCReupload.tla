----------------------------- MODULE MCReupload -----------------------------
(* The documents table and one upload in batches of a limit.               *)
EXTENDS Reupload
=============================================================================
