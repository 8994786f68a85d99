---------------------------- MODULE StagedInstall ---------------------------
(***************************************************************************)
(* What `cluster install` promises of the commands it runs: it knows from  *)
(* the start which of them it has to run, runs each at most once and Helm  *)
(* only after a script that has succeeded, reports success only if all of  *)
(* them have, and does nothing more once it has reported. Who logs what,   *)
(* and the many ways to fail in between, are nowhere to be seen.           *)
(***************************************************************************)

CONSTANTS Installs,  \* executions of `cluster install`
          Commands   \* "bootstrap", the k3s script, and "helm"

VARIABLES acts,      \* does Helm act, or is it the no-op that is shipped?
          task,      \* what each install is to do
          ran,       \* how its commands ended, "no" if they were not run
          released,  \* installs whose release the cluster has taken
          exit       \* its exit status

vars == <<acts, task, ran, released, exit>>

Needed(t) ==
  CASE t = "bootstrap" -> {"bootstrap", "helm"}
    [] t = "reuse" -> {"helm"}
    [] OTHER -> {}

Init ==
  /\ acts \in BOOLEAN
  /\ task = [i \in Installs |-> "unknown"]
  /\ ran = [i \in Installs |-> [c \in Commands |-> "no"]]
  /\ released = {}
  /\ exit = [i \in Installs |-> "none"]

Begin(i) ==
  /\ task[i] = "unknown" /\ exit[i] = "none"
  /\ \E t \in {"bootstrap", "reuse", "dry run"} : task' = [task EXCEPT ![i] = t]
  /\ UNCHANGED <<acts, ran, released, exit>>

\* A release may have been changed by a command that then fails.
Run(i, c, outcome) ==
  /\ c \in Needed(task[i]) /\ ran[i][c] = "no" /\ exit[i] = "none"
  /\ c = "helm" => \A d \in Needed(task[i]) \ {c} : ran[i][d] = "ok"
  /\ ran' = [ran EXCEPT ![i][c] = outcome]
  /\ released' \in {released, IF c = "helm" THEN released \cup {i} ELSE released}
  /\ c = "helm" /\ outcome = "ok" /\ acts => i \in released'
  /\ UNCHANGED <<acts, task, exit>>

\* An install that was killed leaves a Helm behind, which may yet release.
Orphaned(i) ==
  /\ "helm" \in Needed(task[i]) /\ ran[i]["helm"] = "no" /\ exit[i] = "none"
  /\ \A d \in Needed(task[i]) \ {"helm"} : ran[i][d] = "ok"
  /\ released' = released \cup {i}
  /\ UNCHANGED <<acts, task, ran, exit>>

Succeed(i) ==
  /\ task[i] /= "unknown" /\ exit[i] = "none"
  /\ \A c \in Needed(task[i]) : ran[i][c] = "ok"
  /\ exit' = [exit EXCEPT ![i] = "ok"]
  /\ UNCHANGED <<acts, task, ran, released>>

Fail(i) ==
  /\ exit[i] = "none"
  /\ exit' = [exit EXCEPT ![i] = "error"]
  /\ UNCHANGED <<acts, task, ran, released>>

Next ==
  \E i \in Installs :
    \/ Begin(i) \/ Orphaned(i) \/ Succeed(i) \/ Fail(i)
    \/ \E c \in Commands, outcome \in {"ok", "error"} : Run(i, c, outcome)

Spec == Init /\ [][Next]_vars
=============================================================================
