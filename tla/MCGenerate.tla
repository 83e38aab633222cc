----------------------------- MODULE MCGenerate -----------------------------
(* Small instances of Generate for TLC.                                     *)
EXTENDS Generate
=============================================================================
