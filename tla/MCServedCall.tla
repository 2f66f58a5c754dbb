---------------------------- MODULE MCServedCall ----------------------------
(* Small instances of ServedCall for TLC: one or two of the requests are ingests. *)
EXTENDS ServedCall

CONSTANTS r1, r2
=============================================================================
