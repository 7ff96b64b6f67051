---------------------------- MODULE MCLogDispatch ----------------------------
(***************************************************************************)
(* LogDispatch with one handler slot and four destinations.  "audit" is    *)
(* rotated in every configuration, "access" and "errors" are plain files    *)
(* that a reload may disable, "graylog" a GELF destination that one may     *)
(* add; the add_log_data of "errors" fails when BadAdds says so.           *)
(***************************************************************************)
EXTENDS LogDispatch

CONSTANTS access, audit, errors, graylog

MCConfigs ==
    {[d \in Dests |-> IF d \notin on THEN "off"
                      ELSE CASE d \in {access, errors} -> "file"
                             [] d = audit              -> "rotated"
                             [] OTHER                  -> "gelf"]
     : on \in {{access, audit, errors}, {audit, graylog}, {access, audit}}}

\* A list may name a destination twice, or one that is not enabled.
MCTargetLists == {<<audit, errors, access, audit>>}
=============================================================================
