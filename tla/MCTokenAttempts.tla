--------------------------- MODULE MCTokenAttempts ---------------------------
(***************************************************************************)
(* TokenAttempts with two callers on one key.  Three entries are as many as *)
(* can be in use: one in the map and one held by each caller.              *)
(***************************************************************************)
EXTENDS TokenAttempts
=============================================================================
