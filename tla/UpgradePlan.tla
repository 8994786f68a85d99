---------------------------- MODULE UpgradePlan -----------------------------
(***************************************************************************)
(* `chainctl cluster upgrade` (runClusterUpgrade) and the client it drives *)
(* (Planner, ControllerClient): the namespace is created unless it exists, *)
(* then the one Plan resource is created, or read and updated if there is  *)
(* one.  Operators run the command concurrently, the upgrade controller    *)
(* writes the plan's status, administrators delete plan or namespace, and  *)
(* an answer of the API server may never come or be lost on its way.       *)
(***************************************************************************)
EXTENDS Naturals

CONSTANTS Operators,   \* executions of `cluster upgrade`, each with its version
          NoOperator,
          MaxRevision  \* bound on the API server's revisions

ASSUME OperatorsAssumption ==
  /\ NoOperator \notin Operators
  /\ MaxRevision \in Nat

VARIABLES
  client,     \* does the planner have a ControllerClient (the shipped one does not)?
  namespace,  \* does the namespace system-upgrade exist?
  plan,       \* the Plan resource
  revision,   \* revision of the API server's last write
  pc,         \* the call each operator's process is in
  answer,     \* what the API server answered to it
  seen,       \* the plan as the operator's Get returned it
  submitted,  \* operators whose spec has been written to the plan
  event,      \* the outcome event of the upgrade phase, if it has been written
  exit        \* exit status of the process

vars == <<client, namespace, plan, revision, pc, answer, seen, submitted, event, exit>>

clusterVars == <<namespace, plan, revision, submitted>>

\* A plan: whose spec it holds, whether the controller has recorded status in
\* it, and when it was last written.
NoPlan == [by |-> NoOperator]
Plan == [by : Operators, status : BOOLEAN, revision : Nat \ {0}]

Calls == {"namespace", "create", "get", "update"}

TypeOK ==
  /\ client \in BOOLEAN
  /\ namespace \in BOOLEAN
  /\ plan \in Plan \cup {NoPlan}
  /\ revision \in Nat
  /\ pc \in [Operators -> {"idle", "report", "done"} \cup Calls]
  /\ answer \in [Operators -> {"none", "ok", "exists", "not_found", "conflict", "error", "lost"}]
  /\ seen \in [Operators -> Plan \cup {NoPlan}]
  /\ submitted \subseteq Operators
  /\ event \in [Operators -> {"none", "success", "failure"}]
  /\ exit \in [Operators -> {"none", "ok", "error"}]

Init ==
  /\ client \in BOOLEAN
  /\ namespace \in BOOLEAN
  /\ plan = NoPlan
  /\ revision = 0
  /\ pc = [o \in Operators |-> "idle"]
  /\ answer = [o \in Operators |-> "none"]
  /\ seen = [o \in Operators |-> NoPlan]
  /\ submitted = {}
  /\ event = [o \in Operators |-> "none"]
  /\ exit = [o \in Operators |-> "none"]

-----------------------------------------------------------------------------
(* The operator's process *)

\* The next call, or the end of the calls.
Proceed(o, from, to) ==
  /\ pc[o] = from
  /\ pc' = [pc EXCEPT ![o] = to]
  /\ answer' = [answer EXCEPT ![o] = "none"]

End(o, status) ==
  /\ pc' = [pc EXCEPT ![o] = "done"]
  /\ exit' = [exit EXCEPT ![o] = status]

\* No endpoint, no version, or the start event cannot be written.
Reject(o) ==
  /\ pc[o] = "idle"
  /\ End(o, "error")
  /\ UNCHANGED <<client, clusterVars, answer, seen, event>>

\* The noopClient of a planner without a client has nothing to do.
PlanNothing(o) ==
  /\ ~client
  /\ Proceed(o, "idle", "report")
  /\ UNCHANGED <<client, clusterVars, seen, event, exit>>

\* EnsureController creates the namespace.
EnsureController(o) ==
  /\ client
  /\ Proceed(o, "idle", "namespace")
  /\ UNCHANGED <<client, clusterVars, seen, event, exit>>

SubmitPlan_ignoresErrors(o) ==
  /\ answer[o] \in {"ok", "exists", "error", "lost"}
  /\ Proceed(o, "namespace", "report")
  /\ UNCHANGED <<client, clusterVars, seen, event, exit>>

\* The namespace is there, new or not: SubmitPlan creates the plan.
SubmitPlan(o) ==
  /\ answer[o] \in {"ok", "exists"}
  /\ Proceed(o, "namespace", "create")
  /\ UNCHANGED <<client, clusterVars, seen, event, exit>>

ReadExisting_afterErrors(o) ==
  /\ answer[o] \in {"exists", "error", "lost"}
  /\ Proceed(o, "create", "get")
  /\ UNCHANGED <<client, clusterVars, seen, event, exit>>

\* There is a plan already: SubmitPlan reads it.
ReadExisting(o) ==
  /\ answer[o] = "exists"
  /\ Proceed(o, "create", "get")
  /\ UNCHANGED <<client, clusterVars, seen, event, exit>>

\* The plan that was read is sent back with this operator's spec.
SendUpdate(o) ==
  /\ answer[o] = "ok"
  /\ Proceed(o, "get", "update")
  /\ UNCHANGED <<client, clusterVars, seen, event, exit>>

Submitted(o) ==
  /\ answer[o] = "ok"
  /\ pc[o] \in {"create", "update"}
  /\ Proceed(o, pc[o], "report")
  /\ UNCHANGED <<client, clusterVars, seen, event, exit>>

\* The answers that end the calls.
Fatal(o) ==
  \/ pc[o] \in Calls /\ answer[o] \in {"error", "lost"}
  \/ pc[o] \in {"create", "get", "update"} /\ answer[o] = "not_found"
  \/ pc[o] = "update" /\ answer[o] = "conflict"

CallFails_retriesLost(o) ==
  /\ Fatal(o)
  /\ IF answer[o] = "lost"
     THEN Proceed(o, pc[o], pc[o]) /\ UNCHANGED <<event, exit>>
     ELSE /\ event' = [event EXCEPT ![o] = "failure"]
          /\ End(o, "error") /\ UNCHANGED answer
  /\ UNCHANGED <<client, clusterVars, seen>>

\* Any other answer ends the command; nothing is tried again. The outcome event
\* may be impossible to write.
CallFails(o) ==
  /\ Fatal(o)
  /\ \E e \in {"failure", "none"} : event' = [event EXCEPT ![o] = e]
  /\ End(o, "error")
  /\ UNCHANGED <<client, clusterVars, answer, seen>>

\* The outcome event is written and "scheduled" printed, unless either fails.
Report(o) ==
  /\ pc[o] = "report"
  /\ \/ /\ event' = [event EXCEPT ![o] = "success"]
        /\ \E status \in {"ok", "error"} : End(o, status)
     \/ End(o, "error") /\ UNCHANGED event
  /\ UNCHANGED <<client, clusterVars, answer, seen>>

-----------------------------------------------------------------------------
(* The API server (external) *)

Answer(o, call, a) ==
  /\ pc[o] = call
  /\ answer[o] = "none"
  /\ answer' = [answer EXCEPT ![o] = a]

\* A write at the server, at a new revision.
Write(p) ==
  /\ revision < MaxRevision
  /\ revision' = revision + 1
  /\ plan' = p

ServerNamespace(o) ==
  /\ Answer(o, "namespace", IF namespace THEN "exists" ELSE "ok")
  /\ namespace' = TRUE
  /\ UNCHANGED <<client, plan, revision, pc, seen, submitted, event, exit>>

NewPlan_noSpec(o) == [by |-> NoOperator, status |-> FALSE, revision |-> revision + 1]

\* The object that Create sends.
NewPlan(o) == [by |-> o, status |-> FALSE, revision |-> revision + 1]

ServerCreate(o) ==
  /\ \/ /\ ~namespace
        /\ Answer(o, "create", "not_found")
        /\ UNCHANGED <<plan, revision, submitted>>
     \/ /\ namespace /\ plan /= NoPlan
        /\ Answer(o, "create", "exists")
        /\ UNCHANGED <<plan, revision, submitted>>
     \/ /\ namespace /\ plan = NoPlan
        /\ Answer(o, "create", "ok")
        /\ Write(NewPlan(o))
        /\ submitted' = submitted \cup {o}
  /\ UNCHANGED <<client, namespace, pc, seen, event, exit>>

ServerGet(o) ==
  /\ Answer(o, "get", IF plan = NoPlan THEN "not_found" ELSE "ok")
  /\ seen' = [seen EXCEPT ![o] = plan]
  /\ UNCHANGED <<client, clusterVars, pc, event, exit>>

UpdatedPlan_patch(o) == [seen[o] EXCEPT !.by = o, !.revision = plan.revision]

\* The object that Update sends: what was read, with another spec.
UpdatedPlan(o) == [seen[o] EXCEPT !.by = o]

\* The server takes an object whose resource version it holds.
ServerUpdate(o) ==
  /\ pc[o] = "update"
  /\ \/ /\ plan = NoPlan
        /\ Answer(o, "update", "not_found")
        /\ UNCHANGED <<plan, revision, submitted>>
     \/ /\ plan /= NoPlan /\ plan.revision /= UpdatedPlan(o).revision
        /\ Answer(o, "update", "conflict")
        /\ UNCHANGED <<plan, revision, submitted>>
     \/ /\ plan /= NoPlan /\ plan.revision = UpdatedPlan(o).revision
        /\ Answer(o, "update", "ok")
        /\ Write([UpdatedPlan(o) EXCEPT !.revision = revision + 1])
        /\ submitted' = submitted \cup {o}
  /\ UNCHANGED <<client, namespace, pc, seen, event, exit>>

\* The server refuses, or is not reached.
ServerFails(o) ==
  /\ \E call \in Calls : Answer(o, call, "error")
  /\ UNCHANGED <<client, clusterVars, pc, seen, event, exit>>

\* The call took effect, but the connection breaks before the answer arrives.
AnswerLost(o) ==
  /\ pc[o] \in Calls
  /\ answer[o] = "ok"
  /\ answer' = [answer EXCEPT ![o] = "lost"]
  /\ UNCHANGED <<client, clusterVars, pc, seen, event, exit>>

\* The upgrade controller records its progress in the plan.
ControllerMarks ==
  /\ plan /= NoPlan
  /\ Write([plan EXCEPT !.status = TRUE, !.revision = revision + 1])
  /\ UNCHANGED <<client, namespace, pc, answer, seen, submitted, event, exit>>

DeletePlan ==
  /\ plan /= NoPlan
  /\ Write(NoPlan)
  /\ UNCHANGED <<client, namespace, pc, answer, seen, submitted, event, exit>>

DeleteNamespace ==
  /\ namespace
  /\ namespace' = FALSE
  /\ Write(NoPlan)
  /\ UNCHANGED <<client, pc, answer, seen, submitted, event, exit>>

-----------------------------------------------------------------------------
OperatorStep(o) ==
  \/ Reject(o) \/ PlanNothing(o) \/ EnsureController(o) \/ SubmitPlan(o)
  \/ ReadExisting(o) \/ SendUpdate(o) \/ Submitted(o) \/ CallFails(o) \/ Report(o)

ServerStep(o) ==
  \/ ServerNamespace(o) \/ ServerCreate(o) \/ ServerGet(o) \/ ServerUpdate(o)
  \/ ServerFails(o)

Next ==
  \/ \E o \in Operators : OperatorStep(o) \/ ServerStep(o) \/ AnswerLost(o)
  \/ ControllerMarks \/ DeletePlan \/ DeleteNamespace

Spec == Init /\ [][Next]_vars

-----------------------------------------------------------------------------
(* The inductive invariant *)

\* Who is about to update has read a plan.
ReadInv ==
  \A o \in Operators :
    pc[o] = "update" \/ (pc[o] = "get" /\ answer[o] = "ok") => seen[o] /= NoPlan

\* A revision stands for one state of the plan: who has read the revision that
\* the plan is at has read the plan.
RevisionInv ==
  /\ plan /= NoPlan => plan.revision <= revision
  /\ \A o \in Operators : seen[o] /= NoPlan =>
       /\ seen[o].revision <= revision
       /\ plan /= NoPlan /\ plan.revision = seen[o].revision => plan = seen[o]

\* Who has been told so, and goes on as if it were so, has submitted.
SubmitInv ==
  \A o \in Operators :
    \/ pc[o] \in {"create", "update"} /\ answer[o] = "ok"
    \/ client /\ (pc[o] = "report" \/ exit[o] = "ok")
    => o \in submitted

IInv == TypeOK /\ ReadInv /\ RevisionInv /\ SubmitInv

\* Who has submitted sends nothing more, whatever the answer to its call or
\* wherever that is lost; and who has an exit status has ended.
OnceInv ==
  \A o \in Operators :
    /\ o \in submitted =>
         \/ pc[o] \in {"create", "update"} /\ answer[o] \in {"ok", "lost"}
         \/ pc[o] \in {"report", "done"}
    /\ exit[o] = "ok" => pc[o] = "done"

\* Who has an outcome event makes no more calls.
EventInv == \A o \in Operators : event[o] /= "none" => pc[o] = "done"

-----------------------------------------------------------------------------
(* Properties *)

\* "scheduled" is true: whatever is deleted and whoever else submits, an
\* operator whose command succeeds through a client has had its version
\* written to the plan.
ScheduledWasSubmitted ==
  \A o \in Operators : client /\ exit[o] = "ok" => o \in submitted

\* An operator replaces another one's plan only as it has read it: what was
\* submitted in between is never overwritten unseen.
NoBlindOverwrite ==
  [][ \A o \in Operators :
        plan /= NoPlan /\ plan'.by = o /\ plan.by /= o => seen[o] = plan ]_vars

\* Resubmitting changes the spec only: what the controller has recorded in a
\* plan stays as long as the object lives.
StatusSurvives ==
  [][ plan /= NoPlan /\ plan' /= NoPlan /\ plan.status => plan'.status ]_vars

\* Create, and else Get and Update, act as one step at the moment at which the
\* server takes the plan: whatever others write, delete or refuse meanwhile,
\* each command submits at most once and what it confirms has been submitted.
Submission == INSTANCE PlanSubmission WITH
  by        <- plan.by,
  status    <- plan /= NoPlan /\ plan.status,
  confirmed <- {o \in Operators : client /\ exit[o] = "ok"}

SubmitsAtomically == Submission!Spec

\* The outcome event tells whether the version was submitted, also when the
\* command fails afterwards (its output cannot be produced) or its last call
\* does: "success" means it was, and "failure" that it was not, unless the
\* answer to the call that submitted it was lost.
OutcomeIsTold ==
  \A o \in Operators : client =>
    /\ event[o] = "success" => o \in submitted
    /\ event[o] = "failure" => o \notin submitted \/ answer[o] = "lost"
=============================================================================
