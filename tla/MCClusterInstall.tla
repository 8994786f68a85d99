-------------------------- MODULE MCClusterInstall --------------------------
(* ClusterInstall for TLC: a bootstrap, a reuse, an air-gapped dry run, an  *)
(* air-gapped install that asks for an unknown output format, and command   *)
(* lines that each lack something.                                          *)
EXTENDS ClusterInstall

Plain == [NoOptions EXCEPT !.values = TRUE, !.output = TRUE]

Bootstrap == [Plain EXCEPT !.bootstrap = TRUE]

Reuse == [Plain EXCEPT !.endpoint = TRUE]

MCOptionSets ==
  {Bootstrap, Reuse,
   [Bootstrap EXCEPT !.airgapped = TRUE, !.bundle = TRUE, !.dryRun = TRUE],
   [Bootstrap EXCEPT !.airgapped = TRUE, !.bundle = TRUE, !.output = FALSE],
   [Bootstrap EXCEPT !.values = FALSE]}

\* As shipped, and with each component logging in turn.
MCDepSets ==
  {[p \in Phases |-> "noop"],
   [p \in Phases |-> IF p = "helm" THEN "logging" ELSE "plain"],
   [p \in Phases |-> IF p = "helm" THEN "plain" ELSE "logging"]}
=============================================================================
