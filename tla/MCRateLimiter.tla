---------------------------- MODULE MCRateLimiter ----------------------------
(***************************************************************************)
(* RateLimiter with one address, two requests and a day that is longer than *)
(* a minute and than any stall.  Three entries can be in use: one in the    *)
(* map and one held by each request.                                       *)
(***************************************************************************)
EXTENDS RateLimiter
=============================================================================
