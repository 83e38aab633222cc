--------------------------- MODULE MCTokenBuffer ---------------------------
(* Instances of TokenBuffer for TLC.                                        *)
EXTENDS TokenBuffer
=============================================================================
