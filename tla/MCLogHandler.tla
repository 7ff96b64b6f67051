----------------------------- MODULE MCLogHandler -----------------------------
(***************************************************************************)
(* LogHandler with ids as sequences of letters and a message as              *)
(* GenerateToken writes it, the parts joined by colons.  An id that contains *)
(* a colon is not valid: with it, two pairs of ids would sign the same text. *)
(***************************************************************************)
EXTENDS LogHandler, Sequences

MCSites == {<<"a">>, <<"a", ":", "b">>}
MCGtms == {<<"c">>, <<"b", ":", "c">>}
MCNoGtm == <<>>
MCValidIds == {<<"a">>, <<"c">>}

MCMessage(s, g, e) == s \o <<":">> \o g \o <<":", e>>
MCGarbage == [exp |-> 3, sig |-> <<>>]

\* Intranet pages are not logged, script downloads are for one container.
MCDecision == [k \in MCSites \X (MCGtms \cup {MCNoGtm}) \X {"public", "intranet"} |->
    IF k[3] = "intranet" THEN "off" ELSE IF k[2] = MCNoGtm THEN "log" ELSE "downloads"]
=============================================================================
