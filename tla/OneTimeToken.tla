---------------------------- MODULE OneTimeToken ----------------------------
(***************************************************************************)
(* What a store of join tokens promises, whatever it is made of: a token   *)
(* is issued once, may be revoked, is spent by at most one join attempt,   *)
(* and only the attempt that spent it may be told that it was accepted.    *)
(* An attempt that spent a token may never hear of it (the answer is lost):*)
(* the promise is "at most once", not "exactly once".                      *)
(*                                                                         *)
(* MemoryStore keeps the promise with a mutex (pkg/tokens/store.go),       *)
(* KubeStore with the API server's resource versions (TokenStore.tla).     *)
(***************************************************************************)

CONSTANTS Tokens,   \* identifiers of the tokens
          Attempts  \* join attempts, one per execution of `node join`

VARIABLES phase,     \* phase[t]: is token t unborn, live or revoked
          spentBy,   \* spentBy[t]: the attempts that spent token t
          accepted   \* pairs <<t, a>>: attempt a was told that t is accepted

vars == <<phase, spentBy, accepted>>

Init ==
  /\ phase = [t \in Tokens |-> "unborn"]
  /\ spentBy = [t \in Tokens |-> {}]
  /\ accepted = {}

Issue(t) ==
  /\ phase[t] = "unborn"
  /\ phase' = [phase EXCEPT ![t] = "live"]
  /\ UNCHANGED <<spentBy, accepted>>

Revoke(t) ==
  /\ phase[t] = "live"
  /\ phase' = [phase EXCEPT ![t] = "revoked"]
  /\ UNCHANGED <<spentBy, accepted>>

Spend(t, a) ==
  /\ phase[t] = "live"
  /\ spentBy[t] = {}
  /\ spentBy' = [spentBy EXCEPT ![t] = {a}]
  /\ UNCHANGED <<phase, accepted>>

Accept(t, a) ==
  /\ a \in spentBy[t]
  /\ accepted' = accepted \cup {<<t, a>>}
  /\ UNCHANGED <<phase, spentBy>>

Next ==
  \E t \in Tokens :
    \/ Issue(t)
    \/ Revoke(t)
    \/ \E a \in Attempts : Spend(t, a) \/ Accept(t, a)

Spec == Init /\ [][Next]_vars
=============================================================================
