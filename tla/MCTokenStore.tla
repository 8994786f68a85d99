---------------------------- MODULE MCTokenStore ----------------------------
(***************************************************************************)
(* TokenStore for TLC.  The joiners' hosts run one unit ahead of real      *)
(* time, so that the expiry written in a token and the clock it is read    *)
(* against disagree; one of the TTLs asked for is too long.                *)
(***************************************************************************)
EXTENDS TokenStore

MCAskedTTLs == {-1, 4}

MCSkew == [p \in Process |-> IF p \in Joiners THEN 1 ELSE 0]
=============================================================================
