---------------------------- MODULE MCConfigReload ----------------------------
(***************************************************************************)
(* ConfigReload with an original and an edited configuration, one whose    *)
(* rules do not compile and one that is not valid (or half-written).       *)
(***************************************************************************)
EXTENDS ConfigReload
=============================================================================
