------------------------- MODULE UpgradePlanProofs --------------------------
(***************************************************************************)
(* What holds of UpgradePlan for every number of operators and revisions:  *)
(* the inductive invariant IInv and the safety properties it implies.      *)
(***************************************************************************)
EXTENDS UpgradePlan, TLAPS

USE OperatorsAssumption
USE DEF clusterVars, Calls

-----------------------------------------------------------------------------
(* The inductive invariant *)

\* An absent plan is told from every plan by its operator.
LEMMA NoPlanIsNone == NoPlan \notin Plan /\ \A p \in Plan : p.by \in Operators
BY DEF NoPlan, Plan

\* The controller's write to a plan leaves a plan.
LEMMA StatusIsWritten ==
  ASSUME NEW p \in Plan, NEW r \in Nat \ {0}
  PROVE  /\ [p EXCEPT !.status = TRUE, !.revision = r] \in Plan
         /\ [p EXCEPT !.status = TRUE, !.revision = r].revision = r
<1>1. [p EXCEPT !.status = TRUE, !.revision = r] \in Plan
  BY DEF Plan
<1>2. [p EXCEPT !.status = TRUE, !.revision = r].revision = r
  BY DEF Plan
<1> QED
  BY <1>1, <1>2

\* An operator's write to a plan leaves a plan.
LEMMA SpecIsWritten ==
  ASSUME NEW p \in Plan, NEW o \in Operators, NEW r \in Nat \ {0}
  PROVE  /\ [[p EXCEPT !.by = o] EXCEPT !.revision = r] \in Plan
         /\ [[p EXCEPT !.by = o] EXCEPT !.revision = r].revision = r
<1>1. [p EXCEPT !.by = o] \in Plan
  BY DEF Plan
<1>2. ASSUME NEW q \in Plan
      PROVE  [q EXCEPT !.revision = r] \in Plan /\ [q EXCEPT !.revision = r].revision = r
  BY DEF Plan
<1> QED
  BY <1>1, <1>2

\* Nothing has been called, read or written.
LEMMA InitIInv == Init => IInv
<1> SUFFICES ASSUME Init PROVE IInv
  OBVIOUS
<1>1. TypeOK
  BY DEF Init, TypeOK
<1>2. ReadInv /\ RevisionInv /\ SubmitInv
  BY DEF Init, ReadInv, RevisionInv, SubmitInv
<1> QED
  BY <1>1, <1>2 DEF IInv

\* A step of a process to its next call, or past its calls, reads and writes
\* nothing.
LEMMA ProcessStep ==
  ASSUME IInv, NEW o \in Operators,
         UNCHANGED <<client, clusterVars, seen>>,
         pc' \in [Operators -> {"idle", "report", "done"} \cup Calls],
         answer' \in [Operators -> {"none", "ok", "exists", "not_found", "conflict", "error", "lost"}],
         event' \in [Operators -> {"none", "success", "failure"}],
         exit' \in [Operators -> {"none", "ok", "error"}],
         \A q \in Operators \ {o} : pc'[q] = pc[q] /\ answer'[q] = answer[q] /\ exit'[q] = exit[q],
         pc'[o] = "update" => seen[o] /= NoPlan,
         pc'[o] \in Calls => answer'[o] = "none",
         client /\ pc'[o] = "report" => o \in submitted,
         client /\ exit'[o] = "ok" => o \in submitted
  PROVE  IInv'
<1>1. TypeOK'
  BY DEF IInv, TypeOK
<1>2. ReadInv'
  BY DEF IInv, ReadInv
<1>3. RevisionInv'
  BY DEF IInv, RevisionInv
<1>4. SubmitInv'
  BY DEF IInv, SubmitInv
<1> QED
  BY <1>1, <1>2, <1>3, <1>4 DEF IInv

\* The steps of a process, one by one.
LEMMA OperatorStepKeepsIInv ==
  ASSUME IInv, NEW o \in Operators, OperatorStep(o)
  PROVE  IInv'
<1> USE DEF IInv, TypeOK
<1>1. CASE Reject(o)
  <2>1. /\ pc' = [pc EXCEPT ![o] = "done"] /\ exit' = [exit EXCEPT ![o] = "error"]
        /\ UNCHANGED <<client, clusterVars, answer, seen, event>>
    BY <1>1 DEF Reject, End
  <2> QED
    BY <2>1, ProcessStep
<1>2. CASE PlanNothing(o)
  <2>1. /\ ~client
        /\ pc' = [pc EXCEPT ![o] = "report"] /\ answer' = [answer EXCEPT ![o] = "none"]
        /\ UNCHANGED <<client, clusterVars, seen, event, exit>>
    BY <1>2 DEF PlanNothing, Proceed
  <2> QED
    BY <2>1, ProcessStep
<1>3. CASE EnsureController(o)
  <2>1. /\ pc[o] = "idle"
        /\ pc' = [pc EXCEPT ![o] = "namespace"] /\ answer' = [answer EXCEPT ![o] = "none"]
        /\ UNCHANGED <<client, clusterVars, seen, event, exit>>
    BY <1>3 DEF EnsureController, Proceed
  <2> QED
    BY <2>1, ProcessStep DEF SubmitInv
<1>4. CASE SubmitPlan(o)
  <2>1. /\ pc' = [pc EXCEPT ![o] = "create"] /\ answer' = [answer EXCEPT ![o] = "none"]
        /\ UNCHANGED <<client, clusterVars, seen, event, exit>>
    BY <1>4 DEF SubmitPlan, Proceed
  <2> QED
    BY <2>1, ProcessStep DEF SubmitInv
<1>5. CASE ReadExisting(o)
  <2>1. /\ pc' = [pc EXCEPT ![o] = "get"] /\ answer' = [answer EXCEPT ![o] = "none"]
        /\ UNCHANGED <<client, clusterVars, seen, event, exit>>
    BY <1>5 DEF ReadExisting, Proceed
  <2> QED
    BY <2>1, ProcessStep DEF SubmitInv
<1>6. CASE SendUpdate(o)
  <2>1. /\ pc' = [pc EXCEPT ![o] = "update"] /\ answer' = [answer EXCEPT ![o] = "none"]
        /\ UNCHANGED <<client, clusterVars, seen, event, exit>>
        /\ seen[o] /= NoPlan
    BY <1>6 DEF SendUpdate, Proceed, ReadInv
  <2> QED
    BY <2>1, ProcessStep DEF SubmitInv
<1>7. CASE Submitted(o)
  <2>1. /\ pc' = [pc EXCEPT ![o] = "report"] /\ answer' = [answer EXCEPT ![o] = "none"]
        /\ UNCHANGED <<client, clusterVars, seen, event, exit>>
        /\ o \in submitted
    BY <1>7 DEF Submitted, Proceed, SubmitInv
  <2> QED
    BY <2>1, ProcessStep
<1>8. CASE CallFails(o)
  <2>1. /\ pc' = [pc EXCEPT ![o] = "done"] /\ exit' = [exit EXCEPT ![o] = "error"]
        /\ \E e \in {"failure", "none"} : event' = [event EXCEPT ![o] = e]
        /\ UNCHANGED <<client, clusterVars, answer, seen>>
    BY <1>8 DEF CallFails, End
  <2> QED
    BY <2>1, ProcessStep
<1>9. CASE Report(o)
  <2>1. /\ pc[o] = "report" /\ pc' = [pc EXCEPT ![o] = "done"]
        /\ \E status \in {"ok", "error"} : exit' = [exit EXCEPT ![o] = status]
        /\ event' = event \/ event' = [event EXCEPT ![o] = "success"]
        /\ UNCHANGED <<client, clusterVars, answer, seen>>
    BY <1>9 DEF Report, End
  <2> QED
    BY <2>1, ProcessStep DEF SubmitInv
<1> QED
  BY <1>1, <1>2, <1>3, <1>4, <1>5, <1>6, <1>7, <1>8, <1>9 DEF OperatorStep

\* A write at a new revision makes what has been read older than the plan.
LEMMA WriteKeepsRevisions ==
  ASSUME TypeOK, RevisionInv, NEW p \in Plan \cup {NoPlan}, Write(p), UNCHANGED seen,
         p /= NoPlan => p.revision = revision + 1
  PROVE  RevisionInv' /\ revision' \in Nat /\ plan' \in Plan \cup {NoPlan}
<1>1. revision \in Nat /\ revision' = revision + 1 /\ plan' = p
  BY DEF TypeOK, Write
<1>2. \A o \in Operators : seen[o] /= NoPlan => seen[o] \in Plan /\ seen[o].revision \in Nat
  BY DEF TypeOK, Plan
<1>3. plan' /= NoPlan => plan'.revision = revision'
  BY <1>1
<1>4. ASSUME NEW o \in Operators, seen[o] /= NoPlan
      PROVE  /\ seen'[o].revision <= revision'
             /\ plan' /= NoPlan => plan'.revision /= seen'[o].revision
  BY <1>1, <1>2, <1>3, <1>4 DEF RevisionInv
<1> QED
  BY <1>1, <1>3, <1>4 DEF RevisionInv

\* Whatever the server answers, ReadInv and SubmitInv hold for the others.
LEMMA AnswerStep ==
  ASSUME IInv, NEW o \in Operators,
         answer' \in [Operators -> {"none", "ok", "exists", "not_found", "conflict", "error", "lost"}],
         \A q \in Operators \ {o} : answer'[q] = answer[q],
         UNCHANGED <<client, pc, event, exit>>,
         namespace' \in BOOLEAN, plan' \in Plan \cup {NoPlan}, revision' \in Nat,
         seen' \in [Operators -> Plan \cup {NoPlan}],
         \A q \in Operators : seen'[q] = seen[q] \/ (q = o /\ pc[o] = "get"),
         pc[o] = "get" /\ answer'[o] = "ok" => seen'[o] /= NoPlan,
         submitted' \subseteq Operators, submitted \subseteq submitted',
         pc[o] \in {"create", "update"} /\ answer'[o] = "ok" => o \in submitted',
         RevisionInv'
  PROVE  IInv'
<1>1. TypeOK'
  BY DEF IInv, TypeOK
<1>2. ReadInv'
  BY DEF IInv, TypeOK, ReadInv
<1>3. SubmitInv'
  BY DEF IInv, TypeOK, SubmitInv
<1> QED
  BY <1>1, <1>2, <1>3 DEF IInv

\* What an answered call of the server does.
LEMMA ServerStepKeepsIInv ==
  ASSUME IInv, NEW o \in Operators, ServerStep(o)
  PROVE  IInv'
<1>0. TypeOK /\ RevisionInv
  BY DEF IInv
<1>1. CASE ServerNamespace(o)
  <2>1. /\ pc[o] = "namespace"
        /\ \E a \in {"exists", "ok"} : answer' = [answer EXCEPT ![o] = a]
        /\ namespace' = TRUE
        /\ UNCHANGED <<client, plan, revision, pc, seen, submitted, event, exit>>
    BY <1>1 DEF ServerNamespace, Answer
  <2>2. RevisionInv'
    BY <1>0, <2>1 DEF RevisionInv
  <2> QED
    BY <1>0, <2>1, <2>2, AnswerStep DEF TypeOK
<1>2. CASE ServerCreate(o)
  <2>1. CASE /\ answer' \in {[answer EXCEPT ![o] = "not_found"], [answer EXCEPT ![o] = "exists"]}
             /\ pc[o] = "create"
             /\ UNCHANGED <<client, namespace, plan, revision, pc, seen, submitted, event, exit>>
    <3>1. RevisionInv'
      BY <1>0, <2>1 DEF RevisionInv
    <3> QED
      BY <1>0, <2>1, <3>1, AnswerStep DEF TypeOK
  <2>2. CASE /\ pc[o] = "create" /\ answer' = [answer EXCEPT ![o] = "ok"]
             /\ Write(NewPlan(o)) /\ submitted' = submitted \cup {o}
             /\ UNCHANGED <<client, namespace, pc, seen, event, exit>>
    <3>1. NewPlan(o) \in Plan /\ NewPlan(o).revision = revision + 1
      BY <1>0 DEF NewPlan, Plan, TypeOK
    <3>2. RevisionInv' /\ revision' \in Nat /\ plan' \in Plan \cup {NoPlan}
      BY <1>0, <2>2, <3>1, WriteKeepsRevisions
    <3> QED
      BY <1>0, <2>2, <3>2, AnswerStep DEF TypeOK
  <2> QED
    BY <1>2, <2>1, <2>2 DEF ServerCreate, Answer
<1>3. CASE ServerGet(o)
  <2>1. /\ pc[o] = "get"
        /\ \/ plan = NoPlan /\ answer' = [answer EXCEPT ![o] = "not_found"]
           \/ plan /= NoPlan /\ answer' = [answer EXCEPT ![o] = "ok"]
        /\ seen' = [seen EXCEPT ![o] = plan]
        /\ UNCHANGED <<client, namespace, plan, revision, submitted, pc, event, exit>>
    BY <1>3 DEF ServerGet, Answer
  <2>2. /\ seen' \in [Operators -> Plan \cup {NoPlan}] /\ seen'[o] = plan
        /\ \A q \in Operators \ {o} : seen'[q] = seen[q]
    BY <1>0, <2>1 DEF TypeOK
  <2>3. RevisionInv'
    BY <1>0, <2>1, <2>2 DEF RevisionInv
  <2>4. CASE plan = NoPlan
    BY <1>0, <2>1, <2>2, <2>3, <2>4, AnswerStep DEF TypeOK
  <2>5. CASE plan /= NoPlan
    BY <1>0, <2>1, <2>2, <2>3, <2>5, AnswerStep DEF TypeOK
  <2> QED
    BY <2>4, <2>5
<1>4. CASE ServerUpdate(o)
  <2>1. CASE /\ answer' \in {[answer EXCEPT ![o] = "not_found"], [answer EXCEPT ![o] = "conflict"]}
             /\ pc[o] = "update"
             /\ UNCHANGED <<client, namespace, plan, revision, pc, seen, submitted, event, exit>>
    <3>1. RevisionInv'
      BY <1>0, <2>1 DEF RevisionInv
    <3> QED
      BY <1>0, <2>1, <3>1, AnswerStep DEF TypeOK
  <2>2. CASE /\ pc[o] = "update" /\ answer' = [answer EXCEPT ![o] = "ok"]
             /\ Write([UpdatedPlan(o) EXCEPT !.revision = revision + 1])
             /\ submitted' = submitted \cup {o}
             /\ UNCHANGED <<client, namespace, pc, seen, event, exit>>
    <3> DEFINE p == [UpdatedPlan(o) EXCEPT !.revision = revision + 1]
    <3>1. seen[o] \in Plan
      BY <1>0, <2>2 DEF IInv, ReadInv, TypeOK
    <3>2. p \in Plan /\ p.revision = revision + 1
      <4>1. revision + 1 \in Nat \ {0}
        BY <1>0 DEF TypeOK
      <4> QED
        BY <3>1, <4>1, SpecIsWritten DEF UpdatedPlan
    <3> HIDE DEF p
    <3>3. Write(p)
      BY <2>2 DEF p
    <3>4. RevisionInv' /\ revision' \in Nat /\ plan' \in Plan \cup {NoPlan}
      BY <1>0, <2>2, <3>2, <3>3, WriteKeepsRevisions
    <3> QED
      BY <1>0, <2>2, <3>4, AnswerStep DEF TypeOK
  <2> QED
    BY <1>4, <2>1, <2>2 DEF ServerUpdate, Answer
<1>5. CASE ServerFails(o)
  <2>1. /\ answer' = [answer EXCEPT ![o] = "error"]
        /\ UNCHANGED <<client, clusterVars, pc, seen, event, exit>>
    BY <1>5 DEF ServerFails, Answer
  <2>2. RevisionInv'
    BY <1>0, <2>1 DEF RevisionInv
  <2> QED
    BY <1>0, <2>1, <2>2, AnswerStep DEF TypeOK
<1> QED
  BY <1>1, <1>2, <1>3, <1>4, <1>5 DEF ServerStep

\* A lost answer leaves its reader nothing to rely on.
LEMMA AnswerLostKeepsIInv ==
  ASSUME IInv, NEW o \in Operators, AnswerLost(o)
  PROVE  IInv'
<1>1. /\ answer' = [answer EXCEPT ![o] = "lost"]
      /\ UNCHANGED <<client, clusterVars, pc, seen, event, exit>>
  BY DEF AnswerLost
<1>2. RevisionInv'
  BY <1>1 DEF IInv, RevisionInv
<1>3. answer'[o] = "lost"
  BY <1>1 DEF IInv, TypeOK
<1> QED
  BY <1>1, <1>2, <1>3, AnswerStep DEF IInv, TypeOK

\* The controller and the administrators write at a new revision.
LEMMA OthersKeepIInv ==
  ASSUME IInv, ControllerMarks \/ DeletePlan \/ DeleteNamespace
  PROVE  IInv'
<1>1. PICK p \in Plan \cup {NoPlan} : Write(p) /\ (p /= NoPlan => p.revision = revision + 1)
  <2>1. CASE ControllerMarks
    <3> DEFINE q == [plan EXCEPT !.status = TRUE, !.revision = revision + 1]
    <3>0. plan \in Plan /\ revision + 1 \in Nat \ {0}
      BY <2>1 DEF ControllerMarks, IInv, TypeOK
    <3>1. q \in Plan /\ q.revision = revision + 1
      BY <3>0, StatusIsWritten
    <3> QED
      BY <2>1, <3>1 DEF ControllerMarks
  <2>2. CASE DeletePlan \/ DeleteNamespace
    BY <2>2 DEF DeletePlan, DeleteNamespace
  <2> QED
    BY <2>1, <2>2
<1>2. /\ namespace' \in BOOLEAN
      /\ UNCHANGED <<client, pc, answer, seen, submitted, event, exit>>
  BY DEF ControllerMarks, DeletePlan, DeleteNamespace, IInv, TypeOK
<1>3. RevisionInv' /\ revision' \in Nat /\ plan' \in Plan \cup {NoPlan}
  BY <1>1, <1>2, WriteKeepsRevisions DEF IInv
<1>4. TypeOK'
  BY <1>2, <1>3 DEF IInv, TypeOK
<1>5. ReadInv' /\ SubmitInv'
  BY <1>2 DEF IInv, ReadInv, SubmitInv
<1> QED
  BY <1>3, <1>4, <1>5 DEF IInv

\* A step that changes nothing.
LEMMA StutterKeepsIInv == IInv /\ UNCHANGED vars => IInv'
BY DEF IInv, TypeOK, ReadInv, RevisionInv, SubmitInv, vars

\* IInv is invariant: processes read before they update, and a revision stands
\* for one state of the plan.
THEOREM Invariance == Spec => []IInv
<1>1. Init => IInv
  BY InitIInv
<1>2. IInv /\ [Next]_vars => IInv'
  <2> SUFFICES ASSUME IInv, [Next]_vars PROVE IInv'
    OBVIOUS
  <2>1. ASSUME NEW o \in Operators, OperatorStep(o) PROVE IInv'
    BY <2>1, OperatorStepKeepsIInv
  <2>2. ASSUME NEW o \in Operators, ServerStep(o) PROVE IInv'
    BY <2>2, ServerStepKeepsIInv
  <2>3. ASSUME NEW o \in Operators, AnswerLost(o) PROVE IInv'
    BY <2>3, AnswerLostKeepsIInv
  <2>4. CASE ControllerMarks \/ DeletePlan \/ DeleteNamespace
    BY <2>4, OthersKeepIInv
  <2>5. CASE UNCHANGED vars
    BY <2>5, StutterKeepsIInv
  <2> QED
    BY <2>1, <2>2, <2>3, <2>4, <2>5 DEF Next
<1> QED
  BY <1>1, <1>2, PTL DEF Spec

-----------------------------------------------------------------------------
(* What follows *)

\* Every variable keeps its type.
THEOREM TypeCorrect == Spec => []TypeOK
BY Invariance, PTL DEF IInv

\* A command that succeeds through a client has had its version written to the
\* plan, whatever else was written, deleted, refused or lost.
THEOREM SuccessMeansSubmitted == Spec => []ScheduledWasSubmitted
<1>1. IInv => ScheduledWasSubmitted
  BY DEF IInv, SubmitInv, ScheduledWasSubmitted
<1> QED
  BY <1>1, Invariance, PTL

\* The step behind the next two theorems: only an update that was computed from
\* the plan as it is replaces a plan by another one.
LEMMA PlanIsReplaced ==
  ASSUME IInv, [Next]_vars, plan /= NoPlan, plan' /= NoPlan
  PROVE  \/ plan' = plan
         \/ plan'.by = plan.by /\ plan'.status = TRUE
         \/ \E o \in Operators : plan'.by = o /\ seen[o] = plan /\ plan'.status = plan.status
<1>0. plan \in Plan
  BY DEF IInv, TypeOK
<1>1. CASE \E o \in Operators : ServerUpdate(o)
  <2>1. PICK o \in Operators : ServerUpdate(o)
    BY <1>1
  <2>2. CASE plan' = plan
    BY <2>2
  <2>3. CASE /\ pc[o] = "update" /\ plan.revision = UpdatedPlan(o).revision
             /\ Write([UpdatedPlan(o) EXCEPT !.revision = revision + 1])
    <3>1. seen[o] \in Plan
      BY <2>3 DEF IInv, ReadInv, TypeOK
    <3>2. plan.revision = seen[o].revision
      BY <2>3, <3>1 DEF UpdatedPlan, Plan
    <3>3. seen[o] = plan
      BY <3>1, <3>2, NoPlanIsNone DEF IInv, RevisionInv
    <3>4. plan' = [[seen[o] EXCEPT !.by = o] EXCEPT !.revision = revision + 1]
      BY <2>3 DEF Write, UpdatedPlan
    <3>5. plan'.by = o /\ plan'.status = plan.status
      BY <1>0, <3>3, <3>4 DEF Plan
    <3> QED
      BY <3>3, <3>5
  <2> QED
    BY <2>1, <2>2, <2>3 DEF ServerUpdate
<1>2. CASE ControllerMarks
  BY <1>0, <1>2 DEF ControllerMarks, Write, Plan
<1>3. CASE DeletePlan \/ DeleteNamespace
  BY <1>3 DEF DeletePlan, DeleteNamespace, Write
<1>4. CASE UNCHANGED vars
  BY <1>4 DEF vars
<1>5. ASSUME NEW o \in Operators, OperatorStep(o) \/ AnswerLost(o)
      PROVE  plan' = plan
  BY <1>5 DEF OperatorStep, AnswerLost, Reject, PlanNothing, EnsureController, SubmitPlan,
              ReadExisting, SendUpdate, Submitted, CallFails, Report
<1>6. ASSUME NEW o \in Operators, ServerNamespace(o) \/ ServerCreate(o) \/ ServerGet(o) \/ ServerFails(o)
      PROVE  plan' = plan
  BY <1>6 DEF ServerNamespace, ServerCreate, ServerGet, ServerFails
<1> QED
  BY <1>1, <1>2, <1>3, <1>4, <1>5, <1>6 DEF Next, ServerStep

\* No operator's version is overwritten by one who has not read it.
THEOREM OverwritesAreSeen == Spec => NoBlindOverwrite
<1>1. IInv /\ [Next]_vars =>
        \A o \in Operators : plan /= NoPlan /\ plan'.by = o /\ plan.by /= o => seen[o] = plan
  <2> SUFFICES ASSUME IInv, [Next]_vars, NEW o \in Operators,
                      plan /= NoPlan, plan'.by = o, plan.by /= o
               PROVE  seen[o] = plan
    OBVIOUS
  <2>1. plan' /= NoPlan
    BY DEF NoPlan
  <2> QED
    BY <2>1, PlanIsReplaced
<1> QED
  BY <1>1, Invariance, PTL DEF Spec, NoBlindOverwrite

\* Resubmitting never takes from a plan what the controller has recorded in it.
THEOREM StatusIsKept == Spec => StatusSurvives
<1>1. IInv /\ [Next]_vars => (plan /= NoPlan /\ plan' /= NoPlan /\ plan.status => plan'.status)
  BY PlanIsReplaced
<1> QED
  BY <1>1, Invariance, PTL DEF Spec, StatusSurvives

-----------------------------------------------------------------------------
(* The command submits in one step *)

\* A step of one operator, its server's answers included, keeps OnceInv if it
\* does for that operator.
LEMMA OnceByOperator ==
  ASSUME OnceInv, NEW o \in Operators,
         \A q \in Operators \ {o} :
           /\ pc'[q] = pc[q] /\ answer'[q] = answer[q] /\ exit'[q] = exit[q]
           /\ q \in submitted' <=> q \in submitted,
         o \in submitted' =>
           \/ pc'[o] \in {"create", "update"} /\ answer'[o] \in {"ok", "lost"}
           \/ pc'[o] \in {"report", "done"},
         exit'[o] = "ok" => pc'[o] = "done"
  PROVE  OnceInv'
BY DEF OnceInv

\* Nobody has submitted who can still send a create or an update.
LEMMA NextOnceInv == ASSUME IInv, OnceInv, [Next]_vars PROVE OnceInv'
<1> USE DEF IInv, TypeOK
<1>1. ASSUME NEW o \in Operators, OperatorStep(o) PROVE OnceInv'
  <2>1. CASE Reject(o) \/ CallFails(o) \/ Report(o)
    <3>1. /\ pc' = [pc EXCEPT ![o] = "done"] /\ UNCHANGED <<answer, submitted>>
          /\ \E status \in {"ok", "error"} : exit' = [exit EXCEPT ![o] = status]
      BY <2>1 DEF Reject, CallFails, Report, End
    <3> QED
      BY <3>1, OnceByOperator
  <2>2. CASE PlanNothing(o) \/ Submitted(o)
    <3>1. /\ pc[o] /= "done" /\ pc' = [pc EXCEPT ![o] = "report"]
          /\ answer' = [answer EXCEPT ![o] = "none"] /\ UNCHANGED <<submitted, exit>>
      BY <2>2 DEF PlanNothing, Submitted, Proceed
    <3> QED
      BY <3>1, OnceByOperator DEF OnceInv
  <2>3. CASE EnsureController(o) \/ SubmitPlan(o) \/ ReadExisting(o) \/ SendUpdate(o)
    <3>1. /\ pc[o] \in {"idle", "namespace", "get"} \/ (pc[o] = "create" /\ answer[o] = "exists")
          /\ \E call \in Calls : pc' = [pc EXCEPT ![o] = call]
          /\ answer' = [answer EXCEPT ![o] = "none"] /\ UNCHANGED <<submitted, exit>>
      BY <2>3 DEF EnsureController, SubmitPlan, ReadExisting, SendUpdate, Proceed
    <3>2. o \notin submitted /\ exit[o] /= "ok"
      BY <3>1 DEF OnceInv
    <3> QED
      BY <3>1, <3>2, OnceByOperator
  <2> QED
    BY <1>1, <2>1, <2>2, <2>3 DEF OperatorStep
<1>2. ASSUME NEW o \in Operators, ServerStep(o) PROVE OnceInv'
  <2>1. /\ pc[o] \in Calls /\ answer[o] = "none" /\ UNCHANGED <<pc, exit>>
        /\ \E a \in {"ok", "exists", "not_found", "conflict", "error"} : answer' = [answer EXCEPT ![o] = a]
    BY <1>2 DEF ServerStep, ServerNamespace, ServerCreate, ServerGet, ServerUpdate, ServerFails, Answer
  <2>2. \/ submitted' = submitted
        \/ /\ submitted' = submitted \cup {o} /\ pc[o] \in {"create", "update"}
           /\ answer' = [answer EXCEPT ![o] = "ok"]
    BY <1>2 DEF ServerStep, ServerNamespace, ServerCreate, ServerGet, ServerUpdate, ServerFails, Answer
  <2>3. o \notin submitted
    BY <2>1 DEF OnceInv
  <2> QED
    BY <2>1, <2>2, <2>3, OnceByOperator DEF OnceInv
<1>3. ASSUME NEW o \in Operators, AnswerLost(o) PROVE OnceInv'
  <2>1. answer[o] = "ok" /\ answer' = [answer EXCEPT ![o] = "lost"] /\ UNCHANGED <<pc, exit, submitted>>
    BY <1>3 DEF AnswerLost
  <2> QED
    BY <2>1, OnceByOperator DEF OnceInv
<1>4. CASE ControllerMarks \/ DeletePlan \/ DeleteNamespace \/ UNCHANGED vars
  BY <1>4 DEF ControllerMarks, DeletePlan, DeleteNamespace, OnceInv, vars
<1> QED
  BY <1>1, <1>2, <1>3, <1>4 DEF Next

\* What a server's write is to those who see only the plan.
LEMMA SubmitStep ==
  ASSUME IInv, OnceInv, NEW o \in Operators, ServerCreate(o) \/ ServerUpdate(o),
         UNCHANGED <<client, exit>>
  PROVE  Submission!Submit(o) \/ UNCHANGED Submission!vars
<1>1. CASE UNCHANGED <<plan, submitted>>
  BY <1>1 DEF Submission!vars
<1>2. CASE ~UNCHANGED <<plan, submitted>>
  <2>1. /\ pc[o] \in {"create", "update"} /\ answer[o] = "none"
        /\ submitted' = submitted \cup {o}
    BY <1>2 DEF ServerCreate, ServerUpdate, Answer
  <2>2. o \notin submitted
    BY <2>1 DEF OnceInv
  <2>3. /\ plan'.by = o
        /\ (plan' /= NoPlan /\ plan'.status) = (plan /= NoPlan /\ plan.status)
    <3>1. CASE ServerCreate(o)
      BY <1>2, <3>1 DEF ServerCreate, Write, NewPlan, NoPlan
    <3>2. CASE ServerUpdate(o)
      <4>1. /\ pc[o] = "update" /\ plan /= NoPlan /\ plan.revision = UpdatedPlan(o).revision
            /\ plan' = [UpdatedPlan(o) EXCEPT !.revision = revision + 1]
        BY <1>2, <3>2 DEF ServerUpdate, Write
      <4>2. seen[o] \in Plan
        BY <4>1 DEF IInv, ReadInv, TypeOK
      <4>3. plan.revision = seen[o].revision
        BY <4>1, <4>2 DEF UpdatedPlan, Plan
      <4>4. seen[o] = plan
        BY <4>1, <4>2, <4>3, NoPlanIsNone DEF IInv, RevisionInv
      <4>5. plan' = [[plan EXCEPT !.by = o] EXCEPT !.revision = revision + 1]
        BY <4>1, <4>4 DEF UpdatedPlan
      <4>6. plan'.by = o /\ plan'.status = plan.status /\ plan' /= NoPlan
        BY <4>2, <4>4, <4>5 DEF Plan, NoPlan
      <4> QED
        BY <4>1, <4>6
    <3> QED
      BY <3>1, <3>2
  <2> QED
    BY <2>1, <2>2, <2>3 DEF Submission!Submit
<1> QED
  BY <1>1, <1>2

\* The create, get and update of SubmitPlan implement one step, with any number
\* of operators and whatever the rest of the cluster does: the steps of the
\* promise are the server's acceptance of a create or an update, the report of
\* a success, and what the controller and administrators do.
THEOREM ImplementsSubmission == Spec => SubmitsAtomically
<1>1. Init => Submission!Init /\ OnceInv
  BY DEF Init, NoPlan, Submission!Init, OnceInv
<1>2. IInv /\ OnceInv /\ [Next]_vars => [Submission!Next]_(Submission!vars)
  <2> SUFFICES ASSUME IInv, OnceInv, [Next]_vars
               PROVE  Submission!Next \/ UNCHANGED Submission!vars
    OBVIOUS
  <2>1. ASSUME NEW o \in Operators, ServerCreate(o) \/ ServerUpdate(o)
        PROVE  Submission!Submit(o) \/ UNCHANGED Submission!vars
    BY <2>1, SubmitStep DEF ServerCreate, ServerUpdate
  <2>2. ASSUME NEW o \in Operators, Report(o)
        PROVE  Submission!Confirm(o) \/ UNCHANGED Submission!vars
    <3>1. /\ UNCHANGED <<client, plan, submitted>> /\ pc[o] = "report"
          /\ \E status \in {"ok", "error"} : exit' = [exit EXCEPT ![o] = status]
      BY <2>2 DEF Report, End
    <3>2. exit \in [Operators -> {"none", "ok", "error"}] /\ exit[o] /= "ok"
      BY <3>1 DEF IInv, TypeOK, OnceInv
    <3>3. client => o \in submitted
      BY <3>1 DEF IInv, SubmitInv
    <3>4. CASE client /\ exit' = [exit EXCEPT ![o] = "ok"]
      <4> DEFINE confirmed == {q \in Operators : client /\ exit[q] = "ok"}
      <4>1. confirmed' = confirmed \cup {o} /\ o \notin confirmed
        BY <3>1, <3>2, <3>4
      <4> QED
        BY <3>1, <3>3, <3>4, <4>1 DEF Submission!Confirm
    <3>5. CASE ~client \/ exit' = [exit EXCEPT ![o] = "error"]
      <4>1. {q \in Operators : client /\ exit[q] = "ok"}' = {q \in Operators : client /\ exit[q] = "ok"}
        BY <3>1, <3>2, <3>5
      <4> QED
        BY <3>1, <4>1 DEF Submission!vars
    <3> QED
      BY <3>1, <3>4, <3>5
  <2>3. CASE ControllerMarks
    <3>1. plan \in Plan /\ plan' = [plan EXCEPT !.status = TRUE, !.revision = revision + 1]
          /\ UNCHANGED <<client, submitted, exit>>
      BY <2>3 DEF ControllerMarks, Write, IInv, TypeOK
    <3>2. plan'.by = plan.by /\ plan'.status = TRUE /\ plan' /= NoPlan /\ plan.by /= NoOperator
      BY <3>1 DEF Plan, NoPlan
    <3> QED
      BY <3>1, <3>2 DEF Submission!Next, Submission!Mark
  <2>4. CASE DeletePlan \/ DeleteNamespace
    BY <2>4 DEF DeletePlan, DeleteNamespace, Write, NoPlan, Submission!Next, Submission!Delete
  <2>5. ASSUME NEW o \in Operators, CallFails(o) \/ Reject(o)
        PROVE  UNCHANGED Submission!vars
    <3>1. UNCHANGED <<client, plan, submitted>> /\ pc[o] /= "done" /\ exit' = [exit EXCEPT ![o] = "error"]
      BY <2>5 DEF CallFails, Fatal, Reject, End
    <3>2. exit \in [Operators -> {"none", "ok", "error"}] /\ exit[o] /= "ok"
      BY <3>1 DEF IInv, TypeOK, OnceInv
    <3>3. {q \in Operators : client /\ exit[q] = "ok"}' = {q \in Operators : client /\ exit[q] = "ok"}
      BY <3>1, <3>2
    <3> QED
      BY <3>1, <3>3 DEF Submission!vars
  <2>6. ASSUME NEW o \in Operators,
               \/ PlanNothing(o) \/ EnsureController(o) \/ SubmitPlan(o) \/ ReadExisting(o)
               \/ SendUpdate(o) \/ Submitted(o) \/ ServerNamespace(o) \/ ServerGet(o)
               \/ ServerFails(o) \/ AnswerLost(o)
        PROVE  UNCHANGED Submission!vars
    BY <2>6 DEF PlanNothing, EnsureController, SubmitPlan, ReadExisting, SendUpdate, Submitted,
                ServerNamespace, ServerGet, ServerFails, AnswerLost, Submission!vars
  <2>7. CASE UNCHANGED vars
    BY <2>7 DEF vars, Submission!vars
  <2> QED
    BY <2>1, <2>2, <2>3, <2>4, <2>5, <2>6, <2>7 DEF Next, OperatorStep, ServerStep, Submission!Next
<1> QED
  BY Invariance, NextOnceInv, <1>1, <1>2, PTL DEF Spec, SubmitsAtomically, Submission!Spec
-----------------------------------------------------------------------------
(* The outcome event *)

\* A step of one operator that writes no event of another's and takes nothing
\* back keeps what the events tell if it does for that operator.
LEMMA ToldByOperator ==
  ASSUME EventInv, OutcomeIsTold, NEW o \in Operators, UNCHANGED client,
         \A q \in Operators \ {o} :
           /\ pc'[q] = pc[q] /\ answer'[q] = answer[q] /\ event'[q] = event[q]
           /\ q \in submitted' <=> q \in submitted,
         event'[o] /= "none" => pc'[o] = "done",
         client /\ event'[o] = "success" => o \in submitted',
         client /\ event'[o] = "failure" /\ o \in submitted' => answer'[o] = "lost"
  PROVE  (EventInv /\ OutcomeIsTold)'
BY DEF EventInv, OutcomeIsTold

\* "success" is written past a submission, "failure" before one or where its
\* answer was lost, and nobody submits after either.
LEMMA NextOutcome ==
  ASSUME IInv, OnceInv, EventInv, OutcomeIsTold, [Next]_vars
  PROVE  (EventInv /\ OutcomeIsTold)'
<1> USE DEF IInv, TypeOK
<1>1. ASSUME NEW o \in Operators, Report(o) PROVE (EventInv /\ OutcomeIsTold)'
  <2>1. /\ pc[o] = "report" /\ pc' = [pc EXCEPT ![o] = "done"]
        /\ event' = event \/ event' = [event EXCEPT ![o] = "success"]
        /\ UNCHANGED <<client, submitted, answer>>
    BY <1>1 DEF Report, End
  <2>2. event[o] = "none" /\ (client => o \in submitted)
    BY <2>1 DEF EventInv, SubmitInv
  <2> QED
    BY <2>1, <2>2, ToldByOperator
<1>2. ASSUME NEW o \in Operators, CallFails(o) PROVE (EventInv /\ OutcomeIsTold)'
  <2>1. /\ Fatal(o) /\ pc' = [pc EXCEPT ![o] = "done"]
        /\ \E e \in {"failure", "none"} : event' = [event EXCEPT ![o] = e]
        /\ UNCHANGED <<client, submitted, answer>>
    BY <1>2 DEF CallFails, End
  <2>2. o \in submitted => answer[o] = "lost"
    BY <2>1 DEF Fatal, OnceInv
  <2> QED
    BY <2>1, <2>2, ToldByOperator
<1>3. ASSUME NEW o \in Operators,
             \/ Reject(o) \/ PlanNothing(o) \/ EnsureController(o) \/ SubmitPlan(o)
             \/ ReadExisting(o) \/ SendUpdate(o) \/ Submitted(o)
      PROVE (EventInv /\ OutcomeIsTold)'
  <2>1. /\ pc[o] /= "done" /\ UNCHANGED <<client, submitted, event>>
        /\ \E p \in {"report", "done"} \cup Calls : pc' = [pc EXCEPT ![o] = p]
        /\ answer' = answer \/ answer' = [answer EXCEPT ![o] = "none"]
    BY <1>3 DEF Reject, PlanNothing, EnsureController, SubmitPlan, ReadExisting, SendUpdate,
                Submitted, Proceed, End
  <2>2. event[o] = "none"
    BY <2>1 DEF EventInv
  <2> QED
    BY <2>1, <2>2, ToldByOperator
<1>4. ASSUME NEW o \in Operators, ServerStep(o) \/ AnswerLost(o)
      PROVE (EventInv /\ OutcomeIsTold)'
  <2>1. /\ pc[o] \in Calls /\ UNCHANGED <<client, pc, event>>
        /\ \E a \in {"ok", "exists", "not_found", "conflict", "error", "lost"} :
             answer' = [answer EXCEPT ![o] = a]
        /\ submitted' = submitted \/ submitted' = submitted \cup {o}
    BY <1>4 DEF ServerStep, ServerNamespace, ServerCreate, ServerGet, ServerUpdate, ServerFails,
                AnswerLost, Answer
  <2>2. event[o] = "none"
    BY <2>1 DEF EventInv
  <2> QED
    BY <2>1, <2>2, ToldByOperator
<1>5. CASE ControllerMarks \/ DeletePlan \/ DeleteNamespace \/ UNCHANGED vars
  BY <1>5 DEF ControllerMarks, DeletePlan, DeleteNamespace, EventInv, OutcomeIsTold, vars
<1> QED
  BY <1>1, <1>2, <1>3, <1>4, <1>5 DEF Next, OperatorStep

\* The outcome event of the upgrade phase tells of every command whether its
\* version was submitted, a lost answer to the submission excepted: whatever
\* fails afterwards, and for any number of operators.
THEOREM EventsTellSubmission == Spec => []OutcomeIsTold
<1>1. Init => OnceInv /\ EventInv /\ OutcomeIsTold
  BY DEF Init, OnceInv, EventInv, OutcomeIsTold
<1>2. IInv /\ OnceInv /\ EventInv /\ OutcomeIsTold /\ [Next]_vars => (OnceInv /\ EventInv /\ OutcomeIsTold)'
  BY NextOnceInv, NextOutcome
<1> QED
  BY Invariance, <1>1, <1>2, PTL DEF Spec
=============================================================================
