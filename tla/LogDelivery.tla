----------------------------- MODULE LogDelivery -----------------------------
(***************************************************************************)
(* What POST /log promises its client, without loggers, locks or reloads:  *)
(* a record reaches only destinations it was meant for, and the final      *)
(* X-Log-Status says "success" exactly if it reached at least one.  Nothing *)
(* is delivered after the answer.                                          *)
(***************************************************************************)
CONSTANTS Requests, Dests

VARIABLES
    status,     \* of the request in each slot
    wanted,     \* destinations its rule asks for
    delivered   \* destinations that stored its record

vars == <<status, wanted, delivered>>

TypeOK ==
    /\ status \in [Requests -> {"idle", "accepted", "success", "error"}]
    /\ wanted \in [Requests -> SUBSET Dests]
    /\ delivered \in [Requests -> SUBSET Dests]

Init ==
    /\ status = [r \in Requests |-> "idle"]
    /\ wanted = [r \in Requests |-> {}]
    /\ delivered = [r \in Requests |-> {}]

Accept(r, ds) ==
    /\ status[r] # "accepted"
    /\ status' = [status EXCEPT ![r] = "accepted"]
    /\ wanted' = [wanted EXCEPT ![r] = ds]
    /\ delivered' = [delivered EXCEPT ![r] = {}]

Deliver(r, d) ==
    /\ status[r] = "accepted"
    /\ d \in wanted[r]
    /\ delivered' = [delivered EXCEPT ![r] = @ \cup {d}]
    /\ UNCHANGED <<status, wanted>>

Answer(r) ==
    /\ status[r] = "accepted"
    /\ status' = [status EXCEPT ![r] = IF delivered[r] = {} THEN "error" ELSE "success"]
    /\ UNCHANGED <<wanted, delivered>>

Next ==
    \E r \in Requests :
        \/ \E ds \in SUBSET Dests : Accept(r, ds)
        \/ \E d \in Dests : Deliver(r, d)
        \/ Answer(r)

Spec == Init /\ [][Next]_vars
=============================================================================
