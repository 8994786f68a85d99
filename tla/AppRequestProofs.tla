-------------------------- MODULE AppRequestProofs --------------------------
(***************************************************************************)
(* What holds of AppRequest for all options, environments and bundles: it  *)
(* implements AppAction, refuses before it acts, records what it did, and  *)
(* logs what it ran; and what SanitizeCommand makes of any command line.   *)
(***************************************************************************)
EXTENDS AppRequest, WellFoundedInduction, SequenceTheorems, TLAPS

USE DEF Resolved, Applied

\* There is one run.
LEMMA OneRun == ASSUME NEW r \in Runs PROVE Runs = {r}
BY RequestsAssumption

-----------------------------------------------------------------------------
(* The steps are those of AppAction *)

\* Every step of a request is the step of AppAction that it gives data to,
\* except that a load which fails silently is none.
LEMMA StepImplements == ASSUME [Next]_vars PROVE [Run!Next]_(Run!vars)
<1>1. ASSUME NEW r \in Runs, RefuseInputs(r) \/ RefuseStatePath(r) PROVE Run!Next
  BY <1>1 DEF RefuseInputs, RefuseStatePath, Run!Next
<1>2. ASSUME NEW r \in Runs, Accept(r) PROVE Run!Next
  BY <1>2 DEF Accept, Run!Next
<1>3. ASSUME NEW r \in Runs, RefuseSources(r) \/ RefuseReference(r) \/ ResolveFails(r) PROVE Run!Next
  BY <1>3 DEF RefuseSources, RefuseReference, ResolveFails, Run!Next, Run!ProgramStep
<1>4. ASSUME NEW r \in Runs, PullChart(r) \/ LoadBundle(r) PROVE Run!Next
  BY <1>4 DEF PullChart, LoadBundle, Run!Next, Run!ProgramStep
<1>5. ASSUME NEW r \in Runs, LoadFails(r) PROVE UNCHANGED Run!vars
  BY <1>5 DEF LoadFails, runVars, Run!vars
<1>6. ASSUME NEW r \in Runs, StartHelm(r) \/ ApplyRelease(r) PROVE Run!Next
  BY <1>6 DEF StartHelm, ApplyRelease, Run!Next, Run!ProgramStep
<1>7. ASSUME NEW r \in Runs, SettlePath(r) \/ PersistFails(r) \/ Replace(r) PROVE Run!Next
  BY <1>7 DEF SettlePath, PersistFails, Replace, Run!Next, Run!ProgramStep
<1>8. ASSUME NEW r \in Runs, Report(r) \/ ReportFails(r) PROVE Run!Next
  BY <1>8 DEF Report, ReportFails, Run!Next, Run!ProgramStep
<1>9. ASSUME NEW r \in Runs, Other(r) PROVE Run!Next
  BY <1>9 DEF Other, Run!Next, Run!ProgramStep
<1>10. CASE UNCHANGED vars
  BY <1>10 DEF vars, runVars, Run!vars
<1> QED
  BY <1>1, <1>2, <1>3, <1>4, <1>5, <1>6, <1>7, <1>8, <1>9, <1>10 DEF Next

\* A run with its data does nothing that AppAction does not allow, whatever
\* the options: what is proved of runs there holds of it.
THEOREM Implements == Spec => Run!Spec
<1>1. Init => Run!Init
  BY DEF Init
<1> QED
  BY <1>1, StepImplements, PTL DEF Spec, Run!Spec

-----------------------------------------------------------------------------
(* The inductive invariant *)

\* What is computed from the options and the environment does not change.
LEMMA Kept ==
  ASSUME UNCHANGED options
  PROVE  /\ Profile' = Profile /\ NamedPath' = NamedPath /\ ChartWord' = ChartWord
         /\ FromChart' = FromChart /\ FromBundle' = FromBundle
         /\ StatePath(request.statePath, request.stateName)' = StatePath(request.statePath, request.stateName)
         /\ StatePathRefused(request.statePath, request.stateName)' =
              StatePathRefused(request.statePath, request.stateName)
         /\ (request' = request) /\ (environment' = environment)
BY DEF options, Profile, NamedPath, ChartWord, FromChart, FromBundle, StatePath,
       StatePathRefused, StateDirectory, NoStateDirectory

\* Once a path is accepted it is the one the operator wants, and accepting it
\* again changes nothing.
LEMMA HintStays ==
  ASSUME IInv, NEW r \in Runs, pc[r] \in Resolved \cup {"resolve"}
  PROVE  ~StatePathRefused(hint, None) /\ StatePath(hint, None) = hint /\ hint = NamedPath
<1>1. /\ ~StatePathRefused(request.statePath, request.stateName)
      /\ hint = StatePath(request.statePath, request.stateName)
      /\ request \in Requests /\ environment \in Environments
  BY DEF IInv, HintInv
<1>2. CASE request.statePath /= None
  <2>1. hint = request.statePath /\ hint.absolute
    BY <1>1, <1>2 DEF StatePath, StatePathRefused
  <2> QED
    BY <1>2, <2>1 DEF StatePath, StatePathRefused, NamedPath
<1>3. CASE request.statePath = None
  <2> DEFINE name == IF request.stateName = None THEN "app.json" ELSE request.stateName
  <2>1. hint = [at |-> StateDirectory.at, absolute |-> TRUE, file |-> name]
    BY <1>1, <1>3 DEF StatePath
  <2>2. name \in {"app.json"} \cup {q.stateName : q \in Requests}
    BY <1>1
  <2>3. StateDirectory.at = IF environment.xdg = "unset" THEN "home" ELSE "xdg"
    BY DEF StateDirectory
  <2>4. hint \in [at : {"xdg", "home"}, absolute : BOOLEAN,
                  file : {"app.json"} \cup {q.stateName : q \in Requests}]
    BY <2>1, <2>2, <2>3
  <2>5. hint /= None /\ hint.absolute
    BY <2>1, <2>4, NoneAssumption
  <2>6. ~StatePathRefused(hint, None) /\ StatePath(hint, None) = hint
    BY <2>5 DEF StatePathRefused, StatePath
  <2>7. NamedPath = hint
    BY <1>3, <2>1, <2>3 DEF NamedPath, Default
  <2> QED
    BY <2>6, <2>7
<1> QED
  BY <1>2, <1>3

\* Nothing has happened yet.
LEMMA InitIInv == Init => IInv
<1> SUFFICES ASSUME Init PROVE IInv
  OBVIOUS
<1>1. pc = [r \in Runs |-> "idle"] /\ file = Run!NoFile /\ recorded = {}
  BY DEF Init, Run!Init, Run!NoFile
<1>2. StageInv /\ HintInv /\ LoadsInv /\ SourceInv /\ GivenInv
  BY <1>1 DEF Init, StageInv, HintInv, LoadsInv, SourceInv, GivenInv
<1>3. RefusedBeforeHelm /\ RecordTellsRun
  BY <1>1 DEF Init, RefusedBeforeHelm, RecordTellsRun
<1> QED
  BY <1>1, <1>2, <1>3 DEF Init, IInv, Run!Idle

\* A run that ends keeps what is known of it, and is refused only if it has
\* done nothing.
LEMMA EndStep ==
  ASSUME IInv, NEW r \in Runs, pc[r] \in Run!Idle \cup Run!Active,
         NEW e \in Run!Ended, pc' = [pc EXCEPT ![r] = e],
         UNCHANGED <<options, hint, loads, source, given, record, recorded, file>>,
         \/ refusal' = refusal
         \/ e = "done" /\ given = None /\ source = None /\ loads = 0 /\ file = Run!NoFile
  PROVE  IInv'
<1> USE DEF Run!Idle, Run!Active, Run!Ended
<1>1. Runs = {r} /\ pc' = [pc EXCEPT ![r] = e] /\ pc'[r] = e /\ pc' \in [Runs -> Run!Idle \cup Run!Active \cup Run!Ended]
  BY OneRun DEF IInv
<1>2. refusal = None \/ pc[r] = "done"
  BY DEF IInv, StageInv
<1>3. refusal = None
  BY <1>2
<1>4. StageInv'
  BY <1>1, <1>3 DEF IInv, StageInv, Run!NoFile
<1>5. HintInv' /\ SourceInv' /\ GivenInv'
  BY <1>1 DEF HintInv, SourceInv, GivenInv
<1>6. LoadsInv'
  BY Kept DEF IInv, LoadsInv
<1>7. RefusedBeforeHelm'
  BY <1>3 DEF RefusedBeforeHelm, Run!NoFile
<1>8. RecordTellsRun'
  BY Kept DEF IInv, RecordTellsRun
<1> QED
  BY <1>1, <1>4, <1>5, <1>6, <1>7, <1>8, Kept DEF IInv

\* A run that goes on, past the chart, without touching its data.
LEMMA MoveStep ==
  ASSUME IInv, NEW r \in Runs, pc[r] \in Resolved, NEW e \in Resolved,
         pc' = [pc EXCEPT ![r] = e], UNCHANGED <<options, hint, loads, source, given, record, recorded, refusal>>,
         e \in Applied => pc[r] \in Applied,
         pc[r] \in {"chmod", "report"} => e \in {"chmod", "report"}
  PROVE  IInv'
<1> USE DEF Run!Idle, Run!Active, Run!Ended
<1>1. Runs = {r} /\ pc'[r] = e /\ pc' \in [Runs -> Run!Idle \cup Run!Active \cup Run!Ended]
  BY OneRun DEF IInv
<1>2. refusal = None
  BY DEF IInv, StageInv
<1>3. StageInv'
  BY <1>1, <1>2 DEF IInv, StageInv, Run!NoFile
<1>4. HintInv'
  BY <1>1, Kept DEF IInv, HintInv
<1>5. SourceInv'
  <2>1. PulledVersion(request.chart)' = PulledVersion(request.chart)
    BY DEF options, PulledVersion
  <2> QED
    BY <1>1, <2>1, Kept DEF IInv, SourceInv
<1>6. GivenInv'
  BY <1>1, Kept DEF IInv, GivenInv
<1>7. LoadsInv'
  BY Kept DEF IInv, LoadsInv
<1>8. RefusedBeforeHelm'
  BY <1>2 DEF RefusedBeforeHelm
<1>9. RecordTellsRun'
  BY Kept DEF IInv, RecordTellsRun
<1> QED
  BY <1>1, <1>3, <1>4, <1>5, <1>6, <1>7, <1>8, <1>9, Kept DEF IInv

-----------------------------------------------------------------------------
(* The actions *)

\* Options, paths and sources are refused before anything is done; every other
\* failure keeps what is known.
LEMMA EndingsKeep ==
  ASSUME IInv, NEW r \in Runs,
         \/ RefuseInputs(r) \/ RefuseStatePath(r) \/ RefuseSources(r) \/ RefuseReference(r)
         \/ ResolveFails(r) \/ PersistFails(r) \/ Report(r) \/ ReportFails(r)
  PROVE  IInv'
<1> USE DEF Run!Step, Run!Fail, Run!fileVars, Run!clusterVars, options, progress, Refuse
<1>1. pc[r] \in {"idle", "resolve"} => source = None /\ given = None /\ file = Run!NoFile
  BY DEF IInv, StageInv
<1>2. ~FromBundle => loads = 0
  BY DEF IInv, LoadsInv
<1>3. pc[r] = "idle" => loads = 0
  BY DEF IInv, StageInv
<1>4. CASE RefuseInputs(r) \/ RefuseStatePath(r)
  <2>1. pc[r] = "idle" /\ pc' = [pc EXCEPT ![r] = "done"] /\ UNCHANGED <<options, hint, loads, source, given, record, recorded, file>>
    BY <1>4 DEF RefuseInputs, RefuseStatePath, Run!Reject
  <2> QED
    BY <1>1, <1>3, <2>1, EndStep DEF Run!Idle, Run!Ended
<1>5. CASE RefuseSources(r) \/ RefuseReference(r)
  <2>1. /\ pc[r] = "resolve" /\ pc' = [pc EXCEPT ![r] = "done"]
        /\ UNCHANGED <<options, hint, loads, source, given, record, recorded, file>>
    BY <1>5 DEF RefuseSources, RefuseReference, Run!ResolveFails
  <2>2. ~FromBundle
    BY <1>5 DEF RefuseSources, RefuseReference, FromChart, FromBundle
  <2> QED
    BY <1>1, <1>2, <2>1, <2>2, EndStep DEF Run!Active, Run!Ended
<1>6. CASE ResolveFails(r)
  <2>1. /\ pc[r] = "resolve" /\ pc' = [pc EXCEPT ![r] = "done"]
        /\ UNCHANGED <<options, hint, loads, source, given, record, recorded, file, refusal>>
    BY <1>6 DEF ResolveFails, Run!ResolveFails
  <2> QED
    BY <2>1, EndStep DEF Run!Active, Run!Ended
<1>7. CASE PersistFails(r)
  <2>1. /\ pc[r] \in {"directory", "temp"} /\ pc' = [pc EXCEPT ![r] = "done"]
        /\ UNCHANGED <<options, hint, loads, source, given, record, recorded, file>>
    BY <1>7 DEF PersistFails, Run!DirectoryFails
  <2>2. refusal' = refusal
    BY <1>7, <2>1, HintStays DEF PersistFails
  <2> QED
    BY <2>1, <2>2, EndStep DEF Run!Active, Run!Ended
<1>8. CASE Report(r) \/ ReportFails(r)
  <2>1. /\ pc[r] = "report" /\ pc' = [pc EXCEPT ![r] = "done"]
        /\ UNCHANGED <<options, hint, loads, source, given, record, recorded, file, refusal>>
    BY <1>8 DEF Report, ReportFails, Run!EmitOutput, Run!OutputFails
  <2> QED
    BY <2>1, EndStep DEF Run!Active, Run!Ended
<1> QED
  BY <1>4, <1>5, <1>6, <1>7, <1>8

\* A step after which the run stands where it stood, with what it knew.
LEMMA StillKeeps ==
  ASSUME IInv,
         UNCHANGED <<pc, file, options, hint, loads, source, given, record, recorded, refusal>>
  PROVE  IInv'
<1>1. StageInv' /\ LoadsInv' /\ GivenInv'
  BY Kept DEF IInv, StageInv, LoadsInv, GivenInv, Run!NoFile
<1>2. HintInv'
  BY Kept DEF IInv, HintInv
<1>3. SourceInv'
  <2>1. PulledVersion(request.chart)' = PulledVersion(request.chart)
    BY DEF options, PulledVersion
  <2> QED
    BY <2>1, Kept DEF IInv, SourceInv
<1>4. RefusedBeforeHelm' /\ RecordTellsRun'
  BY Kept DEF IInv, RefusedBeforeHelm, RecordTellsRun, Run!NoFile
<1> QED
  BY <1>1, <1>2, <1>3, <1>4, Kept DEF IInv, Run!Idle, Run!Active, Run!Ended

\* Helm's start, the path settled once more, and the steps without data.
LEMMA MovesKeep ==
  ASSUME IInv, NEW r \in Runs, StartHelm(r) \/ SettlePath(r) \/ Other(r)
  PROVE  IInv'
<1> USE DEF Run!Step, Run!Fail, Run!fileVars, Run!clusterVars, options, progress
<1>1. CASE StartHelm(r)
  <2>1. /\ pc[r] = "start" /\ pc' = [pc EXCEPT ![r] = "helm"]
        /\ UNCHANGED <<options, hint, loads, source, given, record, recorded, refusal>>
    BY <1>1 DEF StartHelm, Run!PhaseStarts
  <2> QED
    BY <2>1, MoveStep
<1>2. CASE SettlePath(r)
  <2>1. /\ pc[r] = "directory" /\ pc' = [pc EXCEPT ![r] = "temp"]
        /\ UNCHANGED <<options, hint, loads, source, given, record, recorded, refusal>>
    BY <1>2 DEF SettlePath, Run!EnsureDirectory
  <2> QED
    BY <2>1, MoveStep
<1>3. CASE Run!PhaseCompletes(r) /\ UNCHANGED <<options, progress>>
  <2>1. pc[r] = "complete" /\ pc' = [pc EXCEPT ![r] = "directory"] /\ recorded' = recorded
    BY <1>3 DEF Run!PhaseCompletes
  <2> QED
    BY <1>3, <2>1, MoveStep
<1>4. CASE (Run!CreateTemp(r) \/ Run!EncodeTemp(r) \/ Run!ChmodState(r)) /\ UNCHANGED <<options, progress>>
  <2>1. /\ \/ pc[r] = "temp" /\ pc' = [pc EXCEPT ![r] = "encode"]
           \/ pc[r] = "encode" /\ pc' = [pc EXCEPT ![r] = "rename"]
           \/ pc[r] = "chmod" /\ pc' = [pc EXCEPT ![r] = "report"]
        /\ recorded' = recorded
    BY <1>4 DEF Run!CreateTemp, Run!EncodeTemp, Run!ChmodState
  <2> QED
    BY <1>4, <2>1, MoveStep
<1>5. CASE (\/ Run!StartEventFails(r) \/ Run!CompletionEventFails(r) \/ Run!TempFails(r)
            \/ Run!ChmodFails(r) \/ Run!Crash(r)) /\ UNCHANGED <<options, progress>>
  <2>1. /\ pc[r] \in Run!Active /\ UNCHANGED <<file, recorded>>
        /\ pc' = [pc EXCEPT ![r] = "done"] \/ pc' = [pc EXCEPT ![r] = "crashed"]
    BY <1>5 DEF Run!StartEventFails, Run!CompletionEventFails, Run!TempFails, Run!ChmodFails,
                Run!Crash, Run!Active
  <2> QED
    BY <1>5, <2>1, EndStep DEF Run!Ended
<1>6. CASE Run!SinkBreaks(r) /\ UNCHANGED <<options, progress>>
  <2>1. UNCHANGED <<pc, file, recorded>>
    BY <1>6 DEF Run!SinkBreaks
  <2> QED
    BY <1>6, <2>1, StillKeeps
<1> QED
  BY <1>1, <1>2, <1>3, <1>4, <1>5, <1>6 DEF Other

\* The run is accepted with a path that the operator may have.
LEMMA AcceptKeeps ==
  ASSUME IInv, NEW r \in Runs, Accept(r)
  PROVE  IInv'
<1> USE DEF Run!Idle, Run!Active, Run!Ended
<1>1. /\ pc[r] = "idle" /\ pc' = [pc EXCEPT ![r] = "resolve"] /\ file' = file
      /\ UNCHANGED <<options, loads, source, given, record, recorded, refusal>>
  BY DEF Accept, Run!Begin, Run!Step, Run!fileVars
<1>2. Runs = {r} /\ pc'[r] = "resolve" /\ pc' \in [Runs -> Run!Idle \cup Run!Active \cup Run!Ended]
  BY <1>1, OneRun DEF IInv
<1>3. StageInv'
  BY <1>1, <1>2 DEF IInv, StageInv, Run!NoFile
<1>4. HintInv'
  BY <1>1, Kept DEF Accept, HintInv
<1>5. SourceInv' /\ GivenInv'
  BY <1>2 DEF SourceInv, GivenInv
<1>6. LoadsInv' /\ RefusedBeforeHelm' /\ RecordTellsRun'
  BY <1>1, Kept DEF IInv, StageInv, LoadsInv, RefusedBeforeHelm, RecordTellsRun, Run!NoFile
<1> QED
  BY <1>1, <1>2, <1>3, <1>4, <1>5, <1>6, Kept DEF IInv

\* One of the two sources, the one that was named, is resolved.
LEMMA ResolveKeeps ==
  ASSUME IInv, NEW r \in Runs, PullChart(r) \/ LoadBundle(r)
  PROVE  IInv'
<1> USE DEF Run!Idle, Run!Active, Run!Ended
<1>1. /\ pc[r] = "resolve" /\ pc' = [pc EXCEPT ![r] = "start"] /\ file' = file
      /\ UNCHANGED <<options, hint, loads, given, record, recorded, refusal>>
  BY DEF PullChart, LoadBundle, Run!Resolve, Run!Step, Run!fileVars
<1>2. Runs = {r} /\ pc'[r] = "start" /\ pc' \in [Runs -> Run!Idle \cup Run!Active \cup Run!Ended]
  BY <1>1, OneRun DEF IInv
<1>3. refusal = None /\ recorded = {}
  BY <1>1 DEF IInv, StageInv
<1>4. StageInv'
  BY <1>1, <1>2, <1>3 DEF IInv, StageInv
<1>5. HintInv'
  BY <1>1, <1>2, Kept DEF IInv, HintInv
<1>6. SourceInv'
  <2>1. PulledVersion(request.chart)' = PulledVersion(request.chart)
    BY <1>1 DEF options, PulledVersion
  <2>2. CASE PullChart(r)
    BY <1>1, <1>2, <2>1, <2>2, Kept DEF PullChart, SourceInv
  <2>3. CASE LoadBundle(r)
    BY <1>1, <1>2, <2>3, Kept DEF LoadBundle, SourceInv
  <2> QED
    BY <2>2, <2>3
<1>7. GivenInv'
  BY <1>2 DEF GivenInv
<1>8. LoadsInv' /\ RefusedBeforeHelm' /\ RecordTellsRun'
  BY <1>1, <1>3, Kept DEF IInv, LoadsInv, RefusedBeforeHelm, RecordTellsRun
<1> QED
  BY <1>1, <1>2, <1>4, <1>5, <1>6, <1>7, <1>8, Kept DEF IInv

\* A silent failure of the first load is remembered, and nothing else.
LEMMA LoadFailsKeeps ==
  ASSUME IInv, NEW r \in Runs, LoadFails(r)
  PROVE  IInv'
<1>1. /\ pc[r] = "resolve" /\ FromBundle /\ UNCHANGED <<pc, file, options, hint, source, given, record, recorded, refusal>>
  BY DEF LoadFails, runVars
<1>2. Runs = {r} /\ refusal = None
  BY <1>1, OneRun DEF IInv, StageInv
<1>3. StageInv'
  BY <1>1, <1>2 DEF IInv, StageInv, Run!NoFile
<1>4. HintInv'
  BY <1>1, Kept DEF IInv, HintInv
<1>5. SourceInv' /\ GivenInv'
  BY <1>1, <1>2 DEF SourceInv, GivenInv
<1>6. LoadsInv' /\ RefusedBeforeHelm' /\ RecordTellsRun'
  BY <1>1, <1>2, Kept DEF IInv, LoadsInv, RefusedBeforeHelm, RecordTellsRun
<1> QED
  BY <1>1, <1>3, <1>4, <1>5, <1>6, Kept DEF IInv, Run!Idle, Run!Active, Run!Ended

\* Helm is run for the profile, with the bundle if that is the source.
LEMMA ApplyKeeps ==
  ASSUME IInv, NEW r \in Runs, ApplyRelease(r)
  PROVE  IInv'
<1> USE DEF Run!Idle, Run!Active, Run!Ended
<1>1. /\ pc[r] = "helm" /\ file' = file
      /\ pc' = [pc EXCEPT ![r] = "complete"] \/ pc' = [pc EXCEPT ![r] = "done"]
      /\ UNCHANGED <<options, hint, loads, source, record, recorded, refusal>>
  BY DEF ApplyRelease, Run!HelmSucceeds, Run!HelmFails, Run!Step, Run!Fail, Run!fileVars
<1>2. Runs = {r} /\ pc'[r] \in {"complete", "done"}
      /\ pc' \in [Runs -> Run!Idle \cup Run!Active \cup Run!Ended]
  BY <1>1, OneRun DEF IInv
<1>3. refusal = None /\ recorded = {}
  BY <1>1 DEF IInv, StageInv
<1>4. StageInv'
  BY <1>1, <1>2, <1>3 DEF StageInv
<1>5. HintInv'
  BY <1>1, <1>2, Kept DEF IInv, HintInv
<1>6. SourceInv'
  <2>1. PulledVersion(request.chart)' = PulledVersion(request.chart)
    BY <1>1 DEF options, PulledVersion
  <2> QED
    BY <1>1, <1>2, <2>1, Kept DEF IInv, SourceInv
<1>7. GivenInv'
  BY <1>1, Kept DEF ApplyRelease, GivenInv
<1>8. LoadsInv' /\ RefusedBeforeHelm' /\ RecordTellsRun'
  BY <1>1, <1>3, Kept DEF IInv, LoadsInv, RefusedBeforeHelm, RecordTellsRun
<1> QED
  BY <1>1, <1>2, <1>4, <1>5, <1>6, <1>7, <1>8, Kept DEF IInv

\* The record that replaces the state file is that of the release Helm made.
LEMMA ReplaceKeeps ==
  ASSUME IInv, NEW r \in Runs, Replace(r)
  PROVE  IInv'
<1> USE DEF Run!Idle, Run!Active, Run!Ended
<1>1. /\ pc[r] = "rename" /\ pc' = [pc EXCEPT ![r] = "chmod"]
      /\ UNCHANGED <<options, hint, loads, source, given, refusal>>
  BY DEF Replace, Run!Rename, Run!Step
<1>2. Runs = {r} /\ pc'[r] = "chmod" /\ pc' \in [Runs -> Run!Idle \cup Run!Active \cup Run!Ended]
  BY <1>1, OneRun DEF IInv
<1>3. refusal = None
  BY <1>1 DEF IInv, StageInv
<1>4. StageInv'
  BY <1>1, <1>2, <1>3 DEF StageInv
<1>5. HintInv'
  BY <1>1, <1>2, Kept DEF IInv, HintInv
<1>6. SourceInv'
  <2>1. PulledVersion(request.chart)' = PulledVersion(request.chart)
    BY <1>1 DEF options, PulledVersion
  <2> QED
    BY <1>1, <1>2, <2>1, Kept DEF IInv, SourceInv
<1>7. GivenInv'
  BY <1>1, <1>2, Kept DEF IInv, GivenInv
<1>8. LoadsInv' /\ RefusedBeforeHelm'
  BY <1>1, <1>3, Kept DEF IInv, LoadsInv, RefusedBeforeHelm
<1>9. RecordTellsRun'
  <2>1. record' = [path |-> NamedPath, release |-> Profile.release, namespace |-> Profile.namespace,
                   endpoint |-> Profile.endpoint, action |-> request.action, version |-> DerivedVersion,
                   type |-> source.type, reference |-> source.reference, digest |-> source.digest]
    BY <1>1, HintStays DEF Replace
  <2>2. given.profile = Profile /\ given.bundle = IF source.type = "bundle" THEN source.content ELSE None
    BY <1>1 DEF IInv, GivenInv
  <2>3. Profile.bundlePath = request.bundle
    BY DEF Profile, ProfileOf
  <2>4. \/ /\ FromChart /\ source.type = "oci" /\ source.reference = ChartWord
           /\ source.digest = request.chart.digest
        \/ /\ FromBundle /\ source.type = "bundle" /\ source.reference = request.bundle
           /\ source.content \in Bundles
    BY <1>1 DEF IInv, SourceInv
  <2>5. /\ record'.path = NamedPath
        /\ record'.release = given.profile.release /\ record'.namespace = given.profile.namespace
        /\ record'.endpoint = given.profile.endpoint
    BY <2>1, <2>2
  <2>6. record'.type = "bundle" <=> given.bundle /= None
    BY <2>1, <2>2, <2>4, NoneAssumption
  <2>7. /\ record'.type = "bundle" => record'.reference = given.profile.bundlePath
        /\ record'.type = "oci" =>
             record'.reference = request.chart.word /\ record'.digest = request.chart.digest
    BY <2>1, <2>2, <2>3, <2>4 DEF ChartWord, FromChart
  <2>8. request.version /= None => record'.version = request.version
    BY <2>1 DEF DerivedVersion
  <2>9. /\ request.version = None /\ record'.type = "oci"
        /\ request.chart.tag /= None /\ request.chart.digest = None
        => record'.version = request.chart.tag
    BY <2>1 DEF DerivedVersion, AfterLastColon
  <2> QED
    BY <1>1, <2>5, <2>6, <2>7, <2>8, <2>9, Kept DEF RecordTellsRun
<1> QED
  BY <1>1, <1>2, <1>4, <1>5, <1>6, <1>7, <1>8, <1>9, Kept DEF IInv

\* Every step keeps the invariant.
LEMMA NextIInv == ASSUME IInv, [Next]_vars PROVE IInv'
<1>1. ASSUME NEW r \in Runs,
             \/ RefuseInputs(r) \/ RefuseStatePath(r) \/ RefuseSources(r) \/ RefuseReference(r)
             \/ ResolveFails(r) \/ PersistFails(r) \/ Report(r) \/ ReportFails(r)
      PROVE  IInv'
  BY <1>1, EndingsKeep
<1>2. ASSUME NEW r \in Runs, StartHelm(r) \/ SettlePath(r) \/ Other(r) PROVE IInv'
  BY <1>2, MovesKeep
<1>3. ASSUME NEW r \in Runs, Accept(r) \/ PullChart(r) \/ LoadBundle(r) \/ LoadFails(r) PROVE IInv'
  BY <1>3, AcceptKeeps, ResolveKeeps, LoadFailsKeeps
<1>4. ASSUME NEW r \in Runs, ApplyRelease(r) \/ Replace(r) PROVE IInv'
  BY <1>4, ApplyKeeps, ReplaceKeeps
<1>5. CASE UNCHANGED vars
  <2>1. UNCHANGED <<pc, file, options, hint, loads, source, given, record, recorded, refusal>>
    BY <1>5 DEF vars, runVars, progress
  <2> QED
    BY <2>1, StillKeeps
<1> QED
  BY <1>1, <1>2, <1>3, <1>4, <1>5 DEF Next

\* What a run knows and has done, by where it stands, whatever the options.
THEOREM Invariance == Spec => []IInv
BY InitIInv, NextIInv, PTL DEF Spec

\* Whatever is refused is refused before anything is pulled, applied or written.
THEOREM RefusedFirst == Spec => []RefusedBeforeHelm
<1>1. IInv => RefusedBeforeHelm
  BY DEF IInv
<1> QED
  BY <1>1, Invariance, PTL

\* The record in the state file tells for which release Install was called, what
\* source was resolved and which version that is, for any options.
THEOREM RecordTrue == Spec => []RecordTellsRun
<1>1. IInv => RecordTellsRun
  BY DEF IInv
<1> QED
  BY <1>1, Invariance, PTL

-----------------------------------------------------------------------------
(* The sanitizer: induction over the arguments *)

\* A set of natural numbers has a least element.
LEMMA LeastNatural ==
  ASSUME NEW T \in SUBSET Nat, T /= {}
  PROVE  \E n \in T : \A m \in T : n <= m
<1> DEFINE less == OpToRel(<, Nat)
<1>1. IsWellFoundedOn(less, Nat)
  BY NatLessThanWellFounded
<1>2. \A m, n \in Nat : m < n => <<m, n>> \in less
  BY DEF OpToRel
<1> HIDE DEF less
<1>3. PICK n \in T : \A m \in T : ~(<<m, n>> \in less)
  BY <1>1, WFMin
<1>4. ASSUME NEW m \in T PROVE n <= m
  <2>1. m \in Nat /\ n \in Nat /\ ~(m < n)
    BY <1>2, <1>3
  <2> QED
    BY <2>1
<1> QED
  BY <1>4

\* nextTransform is a function: one turn of the loop follows from the last.
LEMMA Turns ==
  ASSUME NEW args, Len(args) \in Nat
  PROVE  /\ DOMAIN NextTransform(args) = 1 .. Len(args) + 1
         /\ NextTransform(args)[1] = "none"
         /\ \A i \in 1 .. Len(args) :
              NextTransform(args)[i + 1] =
                IF NextTransform(args)[i] /= "none" THEN "none" ELSE FollowUp(args[i])
<1> DEFINE Turn(f, i) == IF i = 1 \/ f[i - 1] /= "none" THEN "none" ELSE FollowUp(args[i - 1])
           After(n) == \E f : f = [i \in 1 .. n + 1 |-> Turn(f, i)]
           Bad == {n \in Nat : ~After(n)}
<1>1. After(0)
  <2> DEFINE f == [i \in {1} |-> "none"]
  <2>1. f = [i \in 1 .. 0 + 1 |-> Turn(f, i)]
    OBVIOUS
  <2> QED
    BY <2>1
<1>2. ASSUME NEW n \in Nat, After(n)
      PROVE  After(n + 1)
  <2>1. PICK f : f = [i \in 1 .. n + 1 |-> Turn(f, i)]
    BY <1>2
  <2> DEFINE g == [i \in 1 .. n + 2 |-> IF i = n + 2 THEN Turn(f, i) ELSE f[i]]
  <2>2. \A i \in 1 .. n + 2 : g[i] = Turn(g, i)
    BY <2>1
  <2>3. g = [i \in 1 .. (n + 1) + 1 |-> Turn(g, i)]
    BY <2>2
  <2> QED
    BY <2>3
<1>3. Bad = {}
  <2>1. ASSUME NEW n \in Bad, \A m \in Bad : n <= m
        PROVE  FALSE
    <3>1. n \in Nat /\ ~After(n)
      OBVIOUS
    <3> HIDE DEF After
    <3>2. n - 1 \in Nat /\ ~(n <= n - 1)
      BY <1>1, <3>1
    <3>3. After((n - 1) + 1)
      BY <1>2, <2>1, <3>2
    <3> QED
      BY <3>1, <3>3
  <2> QED
    BY <2>1, LeastNatural
<1>4. PICK f : f = [i \in 1 .. Len(args) + 1 |-> Turn(f, i)]
  BY <1>3
<1>5. NextTransform(args) = [i \in 1 .. Len(args) + 1 |-> Turn(NextTransform(args), i)]
  BY <1>4 DEF NextTransform
<1> QED
  BY <1>5

-----------------------------------------------------------------------------
(* Arguments *)

\* The arguments that can be made of these words.
ArgumentsOf(W) == {arg \in Seq(Seq(W) \ {<<>>}) : arg /= <<>>}

\* The parts of an argument, and its words.
LEMMA Parts ==
  ASSUME NEW W, NEW arg \in ArgumentsOf(W)
  PROVE  /\ arg \in Seq(Seq(W)) /\ Len(arg) \in Nat /\ Len(arg) >= 1 /\ DOMAIN arg = 1 .. Len(arg)
         /\ \A i \in 1 .. Len(arg) : arg[i] \in Seq(W) /\ Len(arg[i]) \in Nat /\ Len(arg[i]) >= 1
BY DEF ArgumentsOf

\* A pair is masked once.
LEMMA PairStable ==
  ASSUME NEW W, NEW pair \in Seq(W)
  PROVE  /\ SanitizePair(SanitizePair(pair)) = SanitizePair(pair)
         /\ ~Marked(<<pair>>, KeyMarked) => SanitizePair(pair) = pair
BY DEF SanitizePair

\* So is the value of --set; one without a marker stays as it is.
LEMMA SetStable ==
  ASSUME NEW W, NEW arg \in Seq(Seq(W))
  PROVE  /\ SanitizeSetExpressions(SanitizeSetExpressions(arg)) = SanitizeSetExpressions(arg)
         /\ ~Marked(arg, KeyMarked) => SanitizeSetExpressions(arg) = arg
<1>1. /\ DOMAIN arg = 1 .. Len(arg) /\ arg = [i \in DOMAIN arg |-> arg[i]]
      /\ \A i \in DOMAIN arg : arg[i] \in Seq(W)
  OBVIOUS
<1>2. ASSUME ~Marked(arg, KeyMarked), NEW i \in DOMAIN arg
      PROVE  ~Marked(<<arg[i]>>, KeyMarked)
  BY <1>2 DEF Marked, WordsOf
<1> QED
  BY <1>1, <1>2, PairStable DEF SanitizeSetExpressions

\* The placeholder is shown as it is.
LEMMA MaskStable ==
  /\ SanitizeSetExpressions(Word(Mask)) = Word(Mask)
  /\ ~Marked(Word(Mask), KeyMarked) /\ ~Marked(Word(Mask), FlagMarked)
BY WordsAssumption DEF SanitizeSetExpressions, SanitizePair, Word, Marked, WordsOf

\* A flag and its value make up the argument again.
LEMMA Reassigned ==
  ASSUME NEW W, NEW arg \in ArgumentsOf(W), Len(arg[1]) > 1
  PROVE  /\ Assign(Flag(arg), Value(arg)) = arg
         /\ Value(arg) \in Seq(Seq(W))
<1> DEFINE rest == Tail(arg)
           value == <<Tail(arg[1])>> \o rest
<1>1. arg \in Seq(Seq(W)) /\ arg /= <<>> /\ arg[1] \in Seq(W) /\ arg[1] /= <<>> /\ Len(arg) \in Nat
  BY Parts
<1>2. Tail(arg[1]) \in Seq(W) /\ <<arg[1][1]>> \o Tail(arg[1]) = arg[1]
  BY <1>1
<1>3. rest \in Seq(Seq(W)) /\ <<arg[1]>> \o rest = arg
  BY <1>1
<1>4. value \in Seq(Seq(W)) /\ Head(value) = Tail(arg[1]) /\ Tail(value) = rest
  BY <1>2, <1>3
<1> QED
  BY <1>2, <1>3, <1>4 DEF Assign, Flag, Value

\* An argument that is looked at for itself is shown in a form that is shown
\* as it is, and that asks for the same.
LEMMA ShownStable ==
  ASSUME NEW W, NEW arg \in ArgumentsOf(W)
  PROVE  LET shown == Sanitized("none", arg)
         IN Sanitized("none", shown) = shown /\ FollowUp(shown) = FollowUp(arg)
<1>1. CASE ~Inline(arg)
  BY <1>1 DEF Sanitized
<1>2. CASE Inline(arg) /\ ~Redacted(arg)
  <2>1. Flag(arg) \in Dashed /\ ~Marked(Value(arg), KeyMarked) /\ Len(arg[1]) > 1
    BY <1>2, WordsAssumption DEF Inline, Redacted
  <2>2. SanitizeInline(arg) = arg
    BY <1>2, <2>1, Reassigned, SetStable DEF SanitizeInline
  <2> QED
    BY <1>2, <2>2 DEF Sanitized
<1>3. CASE Inline(arg) /\ Redacted(arg)
  <2> DEFINE flag == Flag(arg)
             shown == << <<flag, Mask>> >>
  <2>1. Sanitized("none", arg) = shown
    <3>1. Assign(flag, Word(Mask)) = shown
      BY DEF Assign, Word
    <3> QED
      BY <1>3, <3>1 DEF Sanitized, SanitizeInline
  <2>2. Flag(shown) = flag /\ Value(shown) = Word(Mask) /\ Len(shown[1]) = 2
    BY DEF Flag, Value, Word
  <2>3. FollowUp(arg) = "none"
    <3>1. \A w \in SetFlags : arg /= Word(w)
      BY <1>3 DEF Inline, Word
    <3> QED
      BY <1>3, <3>1 DEF FollowUp
  <2>4. \A w : shown /= Word(w)
    BY <2>2 DEF Word
  <2>5. flag \notin FlagMarked => ~Redacted(shown) /\ ~Marked(shown, FlagMarked)
    <3>1. WordsOf(shown) = {flag, Mask}
      BY DEF WordsOf
    <3> QED
      BY <2>2, <3>1, MaskStable, WordsAssumption DEF Redacted, Marked
  <2>6. flag \in FlagMarked => Inline(shown) /\ Redacted(shown)
    BY <2>2 DEF Redacted, Inline
  <2>7. Assign(flag, Word(Mask)) = shown
    BY DEF Assign, Word
  <2> HIDE DEF flag, shown
  <2>8. Inline(shown) => SanitizeInline(shown) = shown
    BY <2>2, <2>7, MaskStable DEF SanitizeInline
  <2>9. Sanitized("none", shown) = shown
    BY <2>8 DEF Sanitized
  <2>10. FollowUp(shown) = "none"
    BY <2>4, <2>5, <2>6 DEF FollowUp
  <2> QED
    BY <2>1, <2>3, <2>9, <2>10
<1> QED
  BY <1>1, <1>2, <1>3

\* However an argument is shown, it is shown as it is the second time.
LEMMA SanitizedStable ==
  ASSUME NEW W, NEW arg \in ArgumentsOf(W), NEW transform \in {"none", "set", "mask"}
  PROVE  Sanitized(transform, Sanitized(transform, arg)) = Sanitized(transform, arg)
<1>1. CASE transform = "none"
  BY <1>1, ShownStable
<1>2. CASE transform = "set"
  BY <1>2, SetStable, Parts DEF Sanitized
<1>3. CASE transform = "mask"
  BY <1>3 DEF Sanitized
<1> QED
  BY <1>1, <1>2, <1>3

\* Three things may be asked for.
LEMMA TransformsRange ==
  ASSUME NEW args, Len(args) \in Nat, NEW i \in 1 .. Len(args) + 1
  PROVE  NextTransform(args)[i] \in {"none", "set", "mask"}
<1>1. CASE i = 1
  BY <1>1, Turns
<1>2. CASE i /= 1
  <2>1. i - 1 \in 1 .. Len(args) /\ (i - 1) + 1 = i
    BY <1>2
  <2>2. NextTransform(args)[i] =
          IF NextTransform(args)[i - 1] /= "none" THEN "none" ELSE FollowUp(args[i - 1])
    BY <2>1, Turns
  <2> QED
    BY <2>2 DEF FollowUp
<1> QED
  BY <1>1, <1>2

\* Every command line keeps its arguments in their places, with a placeholder
\* at the end if its last argument asks for another; and what is logged of it
\* can be sanitized again without change, so that no mask is ever taken for a
\* flag, nor a value for one because of the mask before it.
THEOREM SanitizerStable ==
  ASSUME NEW W, NEW args \in Seq(ArgumentsOf(W))
  PROVE  /\ Len(SanitizeCommand(args)) \in Len(args) .. Len(args) + 1
         /\ SanitizeCommand(SanitizeCommand(args)) = SanitizeCommand(args)
<1> DEFINE n == Len(args)
           next == NextTransform(args)
           shown == [i \in 1 .. n |-> Sanitized(next[i], args[i])]
           line == SanitizeCommand(args)
           again == NextTransform(line)
<1>1. n \in Nat /\ \A i \in 1 .. n : args[i] \in ArgumentsOf(W)
  OBVIOUS
<1>2. /\ next[1] = "none"
      /\ \A i \in 1 .. n : next[i + 1] = IF next[i] /= "none" THEN "none" ELSE FollowUp(args[i])
      /\ \A i \in 1 .. n + 1 : next[i] \in {"none", "set", "mask"}
  BY <1>1, Turns, TransformsRange
<1>3. \A i \in 1 .. n : /\ Sanitized(next[i], shown[i]) = shown[i]
                        /\ next[i] = "none" => FollowUp(shown[i]) = FollowUp(args[i])
  BY <1>1, <1>2, SanitizedStable, ShownStable
<1>4. line = IF next[n + 1] = "none" THEN shown ELSE Append(shown, Word(Mask))
  BY DEF SanitizeCommand
<1> HIDE DEF next
<1>5. /\ Len(line) = IF next[n + 1] = "none" THEN n ELSE n + 1
      /\ \A i \in 1 .. n : line[i] = shown[i]
      /\ next[n + 1] /= "none" => line[n + 1] = Word(Mask)
      /\ line = [i \in 1 .. Len(line) |-> line[i]]
  <2> DEFINE S == {shown[i] : i \in 1 .. n} \cup {Word(Mask)}
  <2>1. shown \in Seq(S) /\ Word(Mask) \in S /\ Len(shown) = n
    BY <1>1
  <2> HIDE DEF S, shown
  <2> QED
    BY <1>1, <1>4, <2>1
<1> HIDE DEF line, n, shown
<1>6. Len(line) \in Nat /\ n <= Len(line) /\ Len(line) <= n + 1
  BY <1>1, <1>5
<1>7. /\ again[1] = "none"
      /\ \A i \in 1 .. Len(line) : again[i + 1] = IF again[i] /= "none" THEN "none" ELSE FollowUp(line[i])
  BY <1>6, Turns
<1> HIDE DEF again
<1>8. \A i \in 1 .. n + 1 : again[i] = next[i]
  <2> DEFINE Bad == {i \in Nat : i \in 1 .. n + 1 /\ again[i] /= next[i]}
  <2>1. ASSUME NEW i \in Bad, \A j \in Bad : i <= j
        PROVE  FALSE
    <3>1. i \in 1 .. n + 1 /\ again[i] /= next[i] /\ i /= 1
      BY <1>2, <1>7
    <3>2. i - 1 \in 1 .. n /\ i - 1 \in 1 .. Len(line) /\ (i - 1) + 1 = i /\ i - 1 \in Nat
      BY <1>1, <1>6, <3>1
    <3>3. again[i - 1] = next[i - 1]
      BY <1>1, <2>1, <3>2
    <3>4. /\ next[i] = IF next[i - 1] /= "none" THEN "none" ELSE FollowUp(args[i - 1])
          /\ again[i] = IF again[i - 1] /= "none" THEN "none" ELSE FollowUp(line[i - 1])
      BY <1>2, <1>7, <3>2
    <3>5. CASE next[i - 1] = "none"
      <4>1. FollowUp(line[i - 1]) = FollowUp(args[i - 1])
        <5>1. line[i - 1] = shown[i - 1]
          BY <1>5, <3>2
        <5>2. FollowUp(shown[i - 1]) = FollowUp(args[i - 1])
          BY <1>3, <3>2, <3>5
        <5> QED
          BY <5>1, <5>2
      <4> QED
        BY <3>1, <3>3, <3>4, <3>5, <4>1
    <3>6. CASE next[i - 1] /= "none"
      BY <3>1, <3>3, <3>4, <3>6
    <3> QED
      BY <3>5, <3>6
  <2>2. Bad \in SUBSET Nat
    OBVIOUS
  <2> HIDE DEF Bad
  <2>3. Bad = {}
    BY <2>1, <2>2, LeastNatural
  <2> QED
    BY <1>1, <2>3 DEF Bad
<1>9. \A i \in 1 .. Len(line) : Sanitized(again[i], line[i]) = line[i]
  <2>1. ASSUME NEW i \in 1 .. n PROVE Sanitized(again[i], line[i]) = line[i]
    <3>1. i \in 1 .. n + 1
      BY <1>1
    <3>2. again[i] = next[i]
      BY <1>8, <3>1
    <3>3. line[i] = shown[i]
      BY <1>5
    <3>4. Sanitized(next[i], shown[i]) = shown[i]
      BY <1>3
    <3> QED
      BY <3>2, <3>3, <3>4
  <2>2. ASSUME next[n + 1] /= "none" PROVE Sanitized(again[n + 1], line[n + 1]) = line[n + 1]
    BY <1>1, <1>2, <1>5, <1>8, <2>2, MaskStable DEF Sanitized
  <2> QED
    BY <1>1, <1>5, <2>1, <2>2
<1>10. again[Len(line) + 1] = "none"
  <2>1. CASE next[n + 1] = "none"
    BY <1>1, <1>5, <1>8, <2>1
  <2>2. CASE next[n + 1] /= "none"
    <3>1. Len(line) = n + 1 /\ again[n + 1] /= "none" /\ n + 1 \in 1 .. Len(line)
      BY <1>1, <1>5, <1>8, <2>2
    <3> QED
      BY <1>7, <3>1
  <2> QED
    BY <2>1, <2>2
<1>11. SanitizeCommand(line) = line
  <2>1. SanitizeCommand(line) = [i \in 1 .. Len(line) |-> Sanitized(again[i], line[i])]
    BY <1>10 DEF SanitizeCommand, again
  <2> QED
    BY <1>5, <1>9, <2>1
<1> QED
  BY <1>1, <1>6, <1>11 DEF line, n

-----------------------------------------------------------------------------
(* What is logged of a Helm command *)

\* A word that contains no marker is shown as it is and asks for nothing.
LEMMA QuietWord ==
  ASSUME NEW w, w \notin FlagMarked \cup SetFlags
  PROVE  Sanitized("none", Word(w)) = Word(w) /\ FollowUp(Word(w)) = "none"
<1>1. ~Inline(Word(w)) /\ WordsOf(Word(w)) = {w} /\ \A v : Word(w) = Word(v) => w = v
  BY DEF Inline, Word, WordsOf
<1> QED
  BY <1>1 DEF Sanitized, FollowUp, Marked

\* The flag of the passphrase is shown, and has what follows it masked.
LEMMA PassphraseWord ==
  LET flag == Word("--values-passphrase")
  IN Sanitized("none", flag) = flag /\ FollowUp(flag) = "mask"
<1> DEFINE w == "--values-passphrase"
<1>1. ~Inline(Word(w)) /\ WordsOf(Word(w)) = {w} /\ \A v : Word(w) = Word(v) => w = v
  BY DEF Inline, Word, WordsOf
<1> QED
  BY <1>1, OwnWordsAssumption DEF Sanitized, FollowUp, Marked

\* A command whose arguments ask for nothing is logged as it is.
LEMMA QuietCommand ==
  ASSUME NEW A, NEW args \in Seq(A),
         \A i \in 1 .. Len(args) : Sanitized("none", args[i]) = args[i] /\ FollowUp(args[i]) = "none"
  PROVE  SanitizeCommand(args) = args
<1> DEFINE next == NextTransform(args)
<1>1. Len(args) \in Nat /\ args = [i \in 1 .. Len(args) |-> args[i]]
  OBVIOUS
<1>2. /\ next[1] = "none"
      /\ \A i \in 1 .. Len(args) : next[i + 1] = IF next[i] /= "none" THEN "none" ELSE FollowUp(args[i])
  BY <1>1, Turns
<1>3. ASSUME NEW i \in 1 .. Len(args) + 1 PROVE next[i] = "none"
  <2>1. CASE i = 1
    BY <1>2, <2>1
  <2>2. CASE i /= 1
    <3>1. i - 1 \in 1 .. Len(args) /\ (i - 1) + 1 = i
      BY <1>1, <2>2
    <3> QED
      BY <1>2, <3>1
  <2> QED
    BY <2>1, <2>2
<1>4. next[Len(args) + 1] = "none" /\ \A i \in 1 .. Len(args) : Sanitized(next[i], args[i]) = args[i]
  BY <1>1, <1>3
<1> QED
  BY <1>1, <1>4 DEF SanitizeCommand

\* If one of them asks for a mask, what follows it is logged as the placeholder
\* and everything else as it is.
LEMMA MaskedCommand ==
  ASSUME NEW A, NEW args \in Seq(A), NEW p \in 1 .. Len(args), p < Len(args),
         \A i \in 1 .. Len(args) : i /= p + 1 => Sanitized("none", args[i]) = args[i],
         \A i \in 1 .. Len(args) : i \notin {p, p + 1} => FollowUp(args[i]) = "none",
         FollowUp(args[p]) = "mask"
  PROVE  SanitizeCommand(args) = [i \in 1 .. Len(args) |-> IF i = p + 1 THEN Word(Mask) ELSE args[i]]
<1> DEFINE next == NextTransform(args)
<1>1. Len(args) \in Nat /\ args = [i \in 1 .. Len(args) |-> args[i]] /\ p \in Nat
  OBVIOUS
<1>2. /\ next[1] = "none"
      /\ \A i \in 1 .. Len(args) : next[i + 1] = IF next[i] /= "none" THEN "none" ELSE FollowUp(args[i])
  BY <1>1, Turns
<1> HIDE DEF next
<1>3. ASSUME NEW i \in 1 .. Len(args) + 1, i \notin {p + 1, p + 2} PROVE next[i] = "none"
  <2>1. CASE i = 1
    BY <1>2, <2>1
  <2>2. CASE i /= 1
    <3>1. i - 1 \in 1 .. Len(args) /\ (i - 1) + 1 = i /\ i - 1 \notin {p, p + 1}
      BY <1>1, <1>3, <2>2
    <3> QED
      BY <1>2, <3>1
  <2> QED
    BY <2>1, <2>2
<1>4. next[p] = "none"
  BY <1>1, <1>3
<1>5. next[p + 1] = "mask"
  BY <1>2, <1>4
<1>6. next[p + 2] = "none"
  <2>1. p + 1 \in 1 .. Len(args) /\ (p + 1) + 1 = p + 2
    BY <1>1
  <2> QED
    BY <1>2, <1>5, <2>1
<1>7. \A i \in 1 .. Len(args) + 1 : next[i] = IF i = p + 1 THEN "mask" ELSE "none"
  BY <1>3, <1>5, <1>6
<1>8. \A i \in 1 .. Len(args) :
        Sanitized(next[i], args[i]) = IF i = p + 1 THEN Word(Mask) ELSE args[i]
  <2>1. ASSUME NEW i \in 1 .. Len(args), i = p + 1 PROVE Sanitized(next[i], args[i]) = Word(Mask)
    BY <1>1, <1>7, <2>1 DEF Sanitized
  <2>2. ASSUME NEW i \in 1 .. Len(args), i /= p + 1 PROVE Sanitized(next[i], args[i]) = args[i]
    <3>1. next[i] = "none"
      BY <1>1, <1>7, <2>2
    <3> QED
      BY <2>2, <3>1
  <2> QED
    BY <2>1, <2>2
<1>9. next[Len(args) + 1] = "none"
  BY <1>1, <1>7
<1> QED
  BY <1>8, <1>9 DEF SanitizeCommand, next

\* The words around the passphrase, and those of the other commands, are the
\* program's own or names from the options.
LEMMA CommandWords ==
  ASSUME request \in Requests
  PROVE  LET A == {Word(w) : w \in OwnWords \cup Names}
         IN /\ HelmWords \in Seq(A) /\ ResolveArgs \in Seq(A)
            /\ \A chart \in {None, ChartWord} : SourceWords(chart) \in Seq(A)
<1> DEFINE A == {Word(w) : w \in OwnWords \cup Names}
<1>1. ASSUME NEW flag \in OwnWords, NEW name, name \in OwnWords \cup Names \/ name = None
      PROVE  Opt(flag, name) \in Seq(A)
  <2>1. CASE name = None
    BY <2>1 DEF Opt
  <2>2. CASE name /= None
    <3>1. Word(flag) \in A /\ Word(name) \in A
      BY <1>1, <2>2
    <3> HIDE DEF A
    <3> QED
      BY <2>2, <3>1 DEF Opt
  <2> QED
    BY <2>1, <2>2
<1>2. Profile.release \in OwnWords \cup Names /\ Profile.namespace \in OwnWords \cup Names
  BY DEF Profile, ProfileOf, Default, Names, OwnWords
<1>3. Profile.values \in Names \cup {None} /\ request.bundle \in Names \cup {None}
  BY DEF Profile, ProfileOf, Names
<1>4. request.chart /= None => ChartWord \in Names
  BY RequestsAssumption DEF Names, ChartWord
<1>5. /\ {"helm", "upgrade", "--namespace", "--values", "--bundle-path"} \subseteq OwnWords
      /\ {"pull", "bundle", "load"} \subseteq OwnWords
  BY DEF OwnWords
<1>6. <<Word("helm"), Word("upgrade"), Word(Profile.release)>> \in Seq(A)
  <2>1. Word("helm") \in A /\ Word("upgrade") \in A /\ Word(Profile.release) \in A
    BY <1>2, <1>5
  <2> HIDE DEF A
  <2> QED
    BY <2>1
<1>7. Opt("--namespace", Profile.namespace) \in Seq(A) /\ Opt("--values", Profile.values) \in Seq(A)
      /\ Opt("--bundle-path", request.bundle) \in Seq(A)
  BY <1>1, <1>2, <1>3, <1>5
<1>8. ChartWord /= None => <<Word(ChartWord)>> \in Seq(A)
  <2>1. ChartWord /= None => Word(ChartWord) \in A
    BY <1>4 DEF ChartWord
  <2> HIDE DEF A
  <2> QED
    BY <2>1
<1>9. ResolveArgs \in Seq(A)
  <2>1. /\ \A w \in {"helm", "pull", "bundle", "load"} : Word(w) \in A
        /\ request.chart /= None => Word(ChartWord) \in A
        /\ request.bundle /= None => Word(request.bundle) \in A
    BY <1>3, <1>4, <1>5
  <2> HIDE DEF A
  <2> QED
    BY <2>1 DEF ResolveArgs
<1>10. <<>> \in Seq(A)
  OBVIOUS
<1> HIDE DEF A
<1>11. HelmWords \in Seq(A)
  BY <1>6, <1>7, ConcatProperties DEF HelmWords
<1>12. ASSUME NEW chart \in {None, ChartWord} PROVE SourceWords(chart) \in Seq(A)
  <2>1. (IF chart = None THEN <<>> ELSE <<Word(chart)>>) \in Seq(A)
    BY <1>8, <1>10, <1>12
  <2> QED
    BY <1>7, <2>1, ConcatProperties DEF SourceWords
<1> QED
  BY <1>9, <1>11, <1>12 DEF A

\* As long as no name contains a marker, a Helm command is logged as it is but
\* for its passphrase.
LEMMA CommandLogged ==
  ASSUME request \in Requests, Names \cap (FlagMarked \cup SetFlags) = {},
         NEW chart \in {None, ChartWord}
  PROVE  SanitizeCommand(HelmCommand(Profile.passphrase, chart)) =
           HelmCommand(IF request.passphrase = None THEN None ELSE Mask, chart)
<1> DEFINE A == {Word(w) : w \in OwnWords \cup Names}
           words == HelmWords
           rest == SourceWords(chart)
           helmArgs == HelmCommand(Profile.passphrase, chart)
<1>1. words \in Seq(A) /\ rest \in Seq(A)
  BY CommandWords
<1>2. \A arg \in A : Sanitized("none", arg) = arg /\ FollowUp(arg) = "none"
  BY QuietWord, OwnWordsAssumption
<1>3. Profile.passphrase = request.passphrase
  BY DEF Profile, ProfileOf
<1> HIDE DEF A, words, rest
<1>4. CASE request.passphrase = None
  <2>1. helmArgs = words \o rest /\ words \o rest \in Seq(A)
    BY <1>1, <1>3, <1>4 DEF HelmCommand, Opt, words, rest
  <2>2. \A i \in 1 .. Len(words \o rest) : (words \o rest)[i] \in A
    BY <2>1
  <2>3. SanitizeCommand(words \o rest) = words \o rest
    BY <1>2, <2>1, <2>2, QuietCommand
  <2> QED
    BY <1>3, <1>4, <2>1, <2>3
<1>5. CASE request.passphrase /= None
  <2> DEFINE flag == Word("--values-passphrase")
             Said(value) == words \o <<flag, value>> \o rest
             B == A \cup {flag, Word(request.passphrase), Word(Mask)}
             p == Len(words) + 1
             n == Len(words) + 2 + Len(rest)
  <2>1. helmArgs = Said(Word(request.passphrase)) /\ HelmCommand(Mask, chart) = Said(Word(Mask))
    BY <1>3, <1>5, NoneAssumption DEF HelmCommand, Opt, words, rest
  <2>2. /\ Sanitized("none", flag) = flag /\ FollowUp(flag) = "mask"
    BY PassphraseWord
  <2>3. flag \in B /\ Word(request.passphrase) \in B /\ Word(Mask) \in B /\ A \subseteq B
    OBVIOUS
  <2> HIDE DEF flag, B
  <2>4. words \in Seq(B) /\ rest \in Seq(B) /\ Len(words) \in Nat /\ Len(rest) \in Nat
    BY <1>1, <2>3
  <2>5. ASSUME NEW value \in B
        PROVE  /\ Said(value) \in Seq(B) /\ Len(Said(value)) = n
               /\ \A i \in 1 .. n : Said(value)[i] = IF i < p THEN words[i]
                                                     ELSE IF i = p THEN flag
                                                     ELSE IF i = p + 1 THEN value
                                                     ELSE rest[i - (p + 1)]
    BY <2>3, <2>4, <2>5
  <2> HIDE DEF Said
  <2> DEFINE args == Said(Word(request.passphrase))
  <2>6. /\ args \in Seq(B) /\ Len(args) = n
        /\ \A i \in 1 .. n : args[i] = IF i < p THEN words[i]
                                       ELSE IF i = p THEN flag
                                       ELSE IF i = p + 1 THEN Word(request.passphrase)
                                       ELSE rest[i - (p + 1)]
    BY <2>3, <2>5
  <2>7. /\ \A i \in 1 .. Len(words) : words[i] \in A
        /\ \A i \in 1 .. Len(rest) : rest[i] \in A
    BY <1>1
  <2> HIDE DEF args
  <2>8. ASSUME NEW i \in 1 .. n, i \notin {p, p + 1} PROVE args[i] \in A
    <3>1. CASE i < p
      <4>1. i \in 1 .. Len(words) /\ args[i] = words[i]
        BY <2>4, <2>6, <3>1
      <4> QED
        BY <2>7, <4>1
    <3>2. CASE p + 1 < i
      <4>1. i - (p + 1) \in 1 .. Len(rest) /\ args[i] = rest[i - (p + 1)]
        BY <2>4, <2>6, <3>2
      <4> QED
        BY <2>7, <4>1
    <3> QED
      BY <2>4, <2>8, <3>1, <3>2
  <2>9. p \in 1 .. Len(args) /\ p < Len(args) /\ args[p] = flag /\ n \in Nat
    BY <2>4, <2>6
  <2>10. SanitizeCommand(args) = [i \in 1 .. n |-> IF i = p + 1 THEN Word(Mask) ELSE args[i]]
    <3>1. \A i \in 1 .. Len(args) : i /= p + 1 => Sanitized("none", args[i]) = args[i]
      BY <1>2, <2>2, <2>6, <2>8, <2>9
    <3>2. \A i \in 1 .. Len(args) : i \notin {p, p + 1} => FollowUp(args[i]) = "none"
      BY <1>2, <2>6, <2>8
    <3>3. FollowUp(args[p]) = "mask"
      BY <2>2, <2>9
    <3> HIDE DEF p, n
    <3> QED
      BY <2>6, <2>9, <3>1, <3>2, <3>3, MaskedCommand
  <2>11. Said(Word(Mask)) = [i \in 1 .. n |-> IF i = p + 1 THEN Word(Mask) ELSE args[i]]
    <3>1. /\ Said(Word(Mask)) = [i \in 1 .. n |-> Said(Word(Mask))[i]]
          /\ \A i \in 1 .. n : Said(Word(Mask))[i] = IF i < p THEN words[i]
                                                     ELSE IF i = p THEN flag
                                                     ELSE IF i = p + 1 THEN Word(Mask)
                                                     ELSE rest[i - (p + 1)]
      BY <2>3, <2>5
    <3>2. ASSUME NEW i \in 1 .. n
          PROVE  Said(Word(Mask))[i] = IF i = p + 1 THEN Word(Mask) ELSE args[i]
      <4>1. args[i] = IF i < p THEN words[i] ELSE IF i = p THEN flag
                      ELSE IF i = p + 1 THEN Word(request.passphrase) ELSE rest[i - (p + 1)]
        BY <2>6
      <4>2. Said(Word(Mask))[i] = IF i < p THEN words[i] ELSE IF i = p THEN flag
                                  ELSE IF i = p + 1 THEN Word(Mask) ELSE rest[i - (p + 1)]
        BY <3>1
      <4>3. i \in Int /\ p \in Int
        BY <2>4
      <4> HIDE DEF p
      <4> QED
        BY <4>1, <4>2, <4>3
    <3> QED
      BY <3>1, <3>2
  <2> QED
    BY <1>5, <2>1, <2>10, <2>11 DEF args
<1> QED
  BY <1>4, <1>5

\* What is logged of a command shows no passphrase, if no other word of it does.
LEMMA CommandHides ==
  ASSUME request \in Requests, Names \cap (FlagMarked \cup SetFlags) = {},
         request.passphrase \notin OwnWords \cup Names \cup {"--values-passphrase", Mask, None},
         NEW args \in {ExecutorArgs, PhaseArgs, ResolveArgs},
         NEW j \in DOMAIN SanitizeCommand(args)
  PROVE  request.passphrase \notin WordsOf(SanitizeCommand(args)[j])
<1> DEFINE W == OwnWords \cup Names \cup {"--values-passphrase", Mask}
           A == {Word(w) : w \in W}
           Own == {Word(w) : w \in OwnWords \cup Names}
<1>1. HelmWords \in Seq(Own) /\ ResolveArgs \in Seq(Own) /\ \A chart \in {None, ChartWord} : SourceWords(chart) \in Seq(Own)
  BY CommandWords
<1>2. Own \subseteq A /\ Word("--values-passphrase") \in A /\ Word(Mask) \in A
  OBVIOUS
<1>3. SanitizeCommand(args) \in Seq(A)
  <2>1. CASE args = ResolveArgs
    <3>1. \A arg \in Own : Sanitized("none", arg) = arg /\ FollowUp(arg) = "none"
      BY QuietWord, OwnWordsAssumption
    <3>2. \A i \in 1 .. Len(ResolveArgs) : ResolveArgs[i] \in Own
      BY <1>1
    <3> HIDE DEF Own, A
    <3>3. SanitizeCommand(ResolveArgs) = ResolveArgs
      BY <1>1, <3>1, <3>2, QuietCommand
    <3>4. Seq(Own) \subseteq Seq(A)
      BY <1>2
    <3> QED
      BY <1>1, <2>1, <3>3, <3>4
  <2>2. ASSUME NEW chart \in {None, ChartWord}, args = HelmCommand(Profile.passphrase, chart)
        PROVE  SanitizeCommand(args) \in Seq(A)
    <3>1. SanitizeCommand(args) = HelmCommand(Mask, chart)
      BY <2>2, CommandLogged
    <3>2. HelmCommand(Mask, chart) =
            HelmWords \o <<Word("--values-passphrase"), Word(Mask)>> \o SourceWords(chart)
      BY NoneAssumption DEF HelmCommand, Opt
    <3> HIDE DEF Own, A
    <3>3. /\ HelmWords \in Seq(A) /\ SourceWords(chart) \in Seq(A)
          /\ <<Word("--values-passphrase"), Word(Mask)>> \in Seq(A)
      BY <1>1, <1>2
    <3>4. HelmWords \o <<Word("--values-passphrase"), Word(Mask)>> \in Seq(A)
      BY <3>3, ConcatProperties
    <3> QED
      BY <3>1, <3>2, <3>3, <3>4, ConcatProperties
  <2> QED
    BY <2>1, <2>2 DEF ExecutorArgs, PhaseArgs
<1>4. SanitizeCommand(args)[j] \in A
  <2> HIDE DEF A
  <2> QED
    BY <1>3
<1>5. \A w : WordsOf(Word(w)) = {w}
  BY DEF WordsOf, Word
<1> QED
  BY <1>4, <1>5

-----------------------------------------------------------------------------
(* The log and the types of the data *)

\* What the log can hold.
Commands == {SanitizeCommand(args) : args \in {ExecutorArgs, PhaseArgs, ResolveArgs}}
Line == [step : Steps, ended : BOOLEAN, ok : BOOLEAN, command : Commands]

\* The commands depend on the options alone.
LEMMA CommandsKept ==
  ASSUME UNCHANGED options
  PROVE  Commands' = Commands /\ Line' = Line
<1>1. /\ ExecutorArgs' = ExecutorArgs /\ PhaseArgs' = PhaseArgs /\ ResolveArgs' = ResolveArgs
  BY DEF options, ExecutorArgs, PhaseArgs, HelmCommand, HelmWords, SourceWords, ResolveArgs,
         Profile, ChartWord
<1>2. Commands' = Commands
  BY <1>1 DEF Commands
<1> QED
  BY <1>2 DEF Line

\* What is known of the data, but for the log, after a step that keeps the options.
Typed ==
  /\ request \in Requests /\ environment \in Environments /\ executor \in BOOLEAN
  /\ hint /= None => hint.absolute \in BOOLEAN
  /\ loads \in 0 .. 1
  /\ source /= None => source.type \in {"oci", "bundle"}
  /\ given \in Applications \cup {None}
  /\ record /= None => record.type \in {"oci", "bundle"}
  /\ refusal \in Reasons

\* The data is that, and the log's.
LEMMA DataTyped == DataOK <=> Typed /\ lines \in Seq(Line)
BY DEF DataOK, Typed, Line, Commands

\* So it is after a step.
LEMMA DataTypedNext == DataOK' <=> Typed' /\ lines' \in Seq(Line)'
BY DEF DataOK, Typed, Line, Commands

\* Helm is not run before its phase.
NotYet == \A r \in Runs : pc[r] \in {"start", "helm"} => given = None

\* A broken sink stays broken.
SinkStays ==
  /\ sink' \in [Runs -> {"open", "broken"}]
  /\ \A r \in Runs : sink[r] = "broken" => sink'[r] = "broken"

\* So does one that nobody touches.
LEMMA SameSink == ASSUME LogInv, UNCHANGED sink PROVE SinkStays
BY DEF LogInv, LinesInv, SinkStays

\* Nothing is logged.
LEMMA LogKept ==
  ASSUME LogInv, UNCHANGED <<options, lines, given, installed>>, SinkStays, Typed', NotYet'
  PROVE  LogInv'
<1>1. DataOK'
  BY CommandsKept, DataTyped, DataTypedNext DEF LogInv
<1>2. Outcomes' = Outcomes
  BY DEF Outcomes
<1>3. OutcomeIsLogged'
  BY <1>2 DEF LogInv, LinesInv, OutcomeIsLogged, SinkStays
<1>4. LinesInv'
  BY <1>3 DEF LogInv, LinesInv, NotYet, SinkStays
<1> QED
  BY <1>1, <1>4 DEF LogInv

\* What an entry is, and adds to a log that can be written.
LEMMA LogGrows ==
  ASSUME LogInv, UNCHANGED options, NEW r \in Runs, sink[r] = "open",
         NEW step \in Steps, NEW ended \in BOOLEAN, NEW ok \in BOOLEAN,
         NEW args \in {ExecutorArgs, PhaseArgs, ResolveArgs},
         LogCommands(r, <<Entry(step, ended, args, ok)>>)
  PROVE  LET n == Len(lines) + 1
         IN /\ lines' \in Seq(Line)'
            /\ n \in DOMAIN lines' /\ n \notin DOMAIN lines /\ DOMAIN lines' = DOMAIN lines \cup {n}
            /\ lines'[n].ok = ok
            /\ \A i \in DOMAIN lines : lines'[i] = lines[i]
            /\ Outcomes' = IF step = "helm" /\ ended THEN Outcomes \cup {n} ELSE Outcomes
<1> DEFINE l == Entry(step, ended, args, ok)
           n == Len(lines) + 1
<1>1. lines \in Seq(Line) /\ l \in Line /\ lines' = lines \o <<l>>
  BY DataTyped DEF LogInv, LogCommands, Entry, Line, Commands
<1>2. l.step = step /\ l.ended = ended /\ l.ok = ok
  BY DEF Entry
<1> HIDE DEF l
<1>3. /\ lines' \in Seq(Line) /\ DOMAIN lines' = DOMAIN lines \cup {n}
      /\ n \notin DOMAIN lines /\ lines'[n] = l /\ \A i \in DOMAIN lines : lines'[i] = lines[i]
  BY <1>1
<1>4. Outcomes' = {i \in DOMAIN lines' : lines'[i].step = "helm" /\ lines'[i].ended}
  BY DEF Outcomes
<1>5. Outcomes' = IF step = "helm" /\ ended THEN Outcomes \cup {n} ELSE Outcomes
  BY <1>2, <1>3, <1>4 DEF Outcomes
<1>6. lines' \in Seq(Line)'
  BY <1>3, CommandsKept
<1> QED
  BY <1>2, <1>3, <1>5, <1>6

\* A start, or something about the chart, is logged if the log can be written.
LEMMA Noted ==
  ASSUME LogInv, UNCHANGED <<options, given, installed, sink>>, Typed', NotYet', NEW r \in Runs,
         NEW step \in Steps, NEW ended \in BOOLEAN, NEW ok \in BOOLEAN,
         NEW args \in {ExecutorArgs, PhaseArgs, ResolveArgs},
         LogCommands(r, <<Entry(step, ended, args, ok)>>),
         ~(step = "helm" /\ ended)
  PROVE  LogInv'
<1>1. CASE sink[r] /= "open"
  BY <1>1, LogKept, SameSink DEF LogCommands
<1>2. CASE sink[r] = "open"
  <2>1. /\ lines' \in Seq(Line)'
        /\ DOMAIN lines \subseteq DOMAIN lines' /\ \A i \in DOMAIN lines : lines'[i] = lines[i]
        /\ Outcomes' = Outcomes
    BY <1>2, LogGrows
  <2>2. DataOK'
    BY <2>1, DataTypedNext
  <2>3. Outcomes \subseteq DOMAIN lines
    BY DEF Outcomes
  <2>4. OutcomeIsLogged'
    BY <2>1, <2>3 DEF LogInv, LinesInv, OutcomeIsLogged
  <2>5. LinesInv'
    BY <2>4, SameSink DEF LogInv, LinesInv, NotYet, SinkStays
  <2> QED
    BY <2>2, <2>5 DEF LogInv
<1> QED
  BY <1>1, <1>2

\* Nothing has been logged, and nothing is known.
LEMMA InitLogInv == Init => LogInv
<1> SUFFICES ASSUME Init PROVE LogInv
  OBVIOUS
<1>1. DataOK
  <2>1. lines = <<>>
    BY DEF Init
  <2> QED
    BY <2>1 DEF Init, DataOK, Reasons
<1>2. Outcomes = {} /\ installed = {} /\ given = None /\ sink = [r \in Runs |-> "open"]
  BY DEF Init, Run!Init, Outcomes
<1>3. LinesInv
  BY <1>2 DEF LinesInv, OutcomeIsLogged
<1> QED
  BY <1>1, <1>3 DEF LogInv

\* The commands that do nothing to the data.
LEMMA DatalessLog ==
  ASSUME IInv, LogInv, UNCHANGED <<options, progress, installed>>, SinkStays,
         \A r \in Runs : pc'[r] \in {"start", "helm"} => pc[r] \in {"start", "helm"}
  PROVE  LogInv'
<1>1. UNCHANGED <<request, environment, executor, hint, loads, source, given, lines, record, refusal>>
  BY DEF options, progress
<1>2. Typed'
  BY <1>1 DEF LogInv, DataOK, Typed
<1>3. NotYet'
  BY <1>1 DEF LogInv, LinesInv, NotYet
<1> QED
  BY <1>1, <1>2, <1>3, LogKept

\* Options are refused, or accepted, before anything is logged of a command.
LEMMA BeginLog ==
  ASSUME IInv, LogInv, NEW r \in Runs, RefuseInputs(r) \/ RefuseStatePath(r) \/ Accept(r)
  PROVE  LogInv'
<1>1. /\ UNCHANGED <<options, loads, source, given, lines, record, installed, sink>>
      /\ pc' = [pc EXCEPT ![r] = "done"] \/ pc' = [pc EXCEPT ![r] = "resolve"]
  BY DEF RefuseInputs, RefuseStatePath, Refuse, Accept, Run!Reject, Run!Begin, Run!Step, Run!clusterVars
<1>2. refusal' \in Reasons
  BY DEF LogInv, DataOK, RefuseInputs, RefuseStatePath, Refuse, Accept, Reasons
<1>3. hint' /= None => hint'.absolute \in BOOLEAN
  <2>1. CASE hint' = hint
    BY <2>1 DEF LogInv, DataOK
  <2>2. CASE hint' = StatePath(request.statePath, request.stateName)
    BY <2>2, RequestsAssumption DEF LogInv, DataOK, StatePath
  <2> QED
    BY <2>1, <2>2 DEF RefuseInputs, RefuseStatePath, Refuse, Accept
<1>4. Typed'
  BY <1>1, <1>2, <1>3 DEF LogInv, DataOK, Typed, options
<1>5. Runs = {r} /\ pc \in [Runs -> Run!Idle \cup Run!Active \cup Run!Ended]
  BY OneRun DEF IInv
<1>6. NotYet'
  BY <1>1, <1>5 DEF NotYet
<1> QED
  BY <1>1, <1>4, <1>6, LogKept, SameSink

\* The chart is resolved, or cannot be: that is logged, and Helm not yet run.
LEMMA ResolveLog ==
  ASSUME IInv, LogInv, NEW r \in Runs,
         \/ RefuseSources(r) \/ RefuseReference(r) \/ PullChart(r) \/ LoadBundle(r) \/ ResolveFails(r)
  PROVE  LogInv'
<1>1. /\ UNCHANGED <<options, hint, loads, given, record, installed, sink>>
      /\ \E ok \in BOOLEAN : LogCommands(r, <<Entry("helm-resolve", TRUE, ResolveArgs, ok)>>)
      /\ pc[r] = "resolve"
  BY DEF RefuseSources, RefuseReference, PullChart, LoadBundle, ResolveFails, Refuse,
         Run!ResolveFails, Run!Resolve, Run!Step, Run!clusterVars
<1>2. refusal' \in Reasons
  BY DEF LogInv, DataOK, RefuseSources, RefuseReference, PullChart, LoadBundle, ResolveFails, Refuse, Reasons
<1>3. source' /= None => source'.type \in {"oci", "bundle"}
  <2>1. CASE PullChart(r)
    BY <2>1 DEF PullChart
  <2>2. CASE LoadBundle(r)
    BY <2>2 DEF LoadBundle
  <2>3. CASE RefuseSources(r) \/ RefuseReference(r) \/ ResolveFails(r)
    BY <2>3 DEF LogInv, DataOK, RefuseSources, RefuseReference, ResolveFails, Refuse
  <2> QED
    BY <2>1, <2>2, <2>3
<1>4. Typed'
  BY <1>1, <1>2, <1>3 DEF LogInv, DataOK, Typed, options
<1>5. Runs = {r} /\ given' = None
  BY <1>1, OneRun DEF IInv, StageInv
<1>6. NotYet'
  BY <1>5 DEF NotYet
<1> QED
  BY <1>1, <1>4, <1>6, Noted DEF Steps

\* A load that fails silently.
LEMMA LoadFailsLog ==
  ASSUME IInv, LogInv, NEW r \in Runs, LoadFails(r)
  PROVE  LogInv'
<1>1. UNCHANGED <<pc, installed, sink, options, hint, source, given, lines, record, refusal>> /\ loads' = 1
  BY DEF LoadFails, runVars
<1>2. Typed'
  BY <1>1 DEF LogInv, DataOK, Typed, options
<1>3. NotYet'
  BY <1>1 DEF LogInv, LinesInv, NotYet
<1> QED
  BY <1>1, <1>2, <1>3, LogKept, SameSink

\* The executor logs that Helm is started.
LEMMA StartLog ==
  ASSUME IInv, LogInv, NEW r \in Runs, StartHelm(r)
  PROVE  LogInv'
<1>1. /\ UNCHANGED <<options, hint, loads, source, given, record, refusal, installed, sink>>
      /\ \/ LogCommands(r, <<Entry("helm", FALSE, ExecutorArgs, TRUE)>>)
         \/ LogCommands(r, <<>>)
      /\ pc[r] = "start"
  BY DEF StartHelm, Run!PhaseStarts, Run!Step, Run!clusterVars
<1>2. Typed'
  BY <1>1 DEF LogInv, DataOK, Typed, options
<1>3. Runs = {r} /\ given' = None
  BY <1>1, OneRun DEF LogInv, LinesInv
<1>4. NotYet'
  BY <1>3 DEF NotYet
<1>5. CASE LogCommands(r, <<>>)
  <2>1. lines \in Seq(Line)
    BY DataTyped DEF LogInv
  <2>2. lines' = lines
    BY <1>5, <2>1 DEF LogCommands
  <2> QED
    BY <1>1, <1>2, <1>4, <2>2, LogKept, SameSink
<1>6. CASE LogCommands(r, <<Entry("helm", FALSE, ExecutorArgs, TRUE)>>)
  <2>1. "helm" \in Steps /\ FALSE \in BOOLEAN /\ TRUE \in BOOLEAN
        /\ ExecutorArgs \in {ExecutorArgs, PhaseArgs, ResolveArgs}
    BY DEF Steps
  <2> QED
    BY <1>1, <1>2, <1>4, <1>6, <2>1, Noted
<1> QED
  BY <1>1, <1>5, <1>6

\* Helm has been run, and that is logged with its outcome, for the first time,
\* by the one who has to.
LEMMA ApplyLog ==
  ASSUME IInv, LogInv, NEW r \in Runs, ApplyRelease(r)
  PROVE  LogInv'
<1> DEFINE ok == r \in installed'
<1>1. /\ UNCHANGED <<options, hint, loads, source, record, refusal, sink>>
      /\ given' = [profile |-> Profile, bundle |-> IF source.type = "bundle" THEN source.content ELSE None]
      /\ pc[r] = "helm"
      /\ installed' = installed \/ installed' = installed \cup {r}
      /\ pc' = [pc EXCEPT ![r] = "complete"] \/ pc' = [pc EXCEPT ![r] = "done"]
  BY DEF ApplyRelease, Run!HelmSucceeds, Run!HelmFails, Run!Fail, Run!Step, Run!clusterVars
<1>2. PICK args \in {ExecutorArgs, PhaseArgs, ResolveArgs} :
        LogCommands(r, <<Entry("helm", TRUE, args, ok)>>)
  <2>1. LogCommands(r, (IF executor THEN <<Entry("helm", TRUE, ExecutorArgs, ok)>> ELSE <<>>)
                       \o (IF executor THEN <<>> ELSE <<Entry("helm", TRUE, PhaseArgs, ok)>>))
    BY DEF ApplyRelease, HelmHasLogging
  <2>2. \A x : <<x>> \o <<>> = <<x>> /\ <<>> \o <<x>> = <<x>>
    OBVIOUS
  <2>3. CASE executor
    BY <2>1, <2>2, <2>3
  <2>4. CASE ~executor
    BY <2>1, <2>2, <2>4
  <2> QED
    BY <2>3, <2>4
<1>3. Runs = {r} /\ given = None /\ pc \in [Runs -> Run!Idle \cup Run!Active \cup Run!Ended]
  BY <1>1, OneRun DEF LogInv, LinesInv, IInv
<1>4. Outcomes = {} /\ installed = {}
  BY <1>3 DEF LogInv, LinesInv, OutcomeIsLogged
<1>5. ok = (installed' = Runs)
  BY <1>1, <1>3, <1>4
<1>6. given' \in Applications
  <2>1. source.type = "bundle" => source.content \in Bundles
    BY <1>1 DEF IInv, SourceInv
  <2>2. Profile \in {ProfileOf(q) : q \in Requests}
    BY DEF IInv, Profile
  <2> QED
    BY <1>1, <2>1, <2>2 DEF Applications
<1>7. Typed'
  BY <1>1, <1>6 DEF LogInv, DataOK, Typed, options
<1>8. given' /= None
  BY <1>6, ApplicationsAssumption
<1>9. \A q \in Runs : pc'[q] \notin {"start", "helm"}
  BY <1>1, <1>3
<1>10. CASE sink[r] /= "open"
  <2>1. lines' = lines
    BY <1>2, <1>10 DEF LogCommands
  <2>2. DataOK'
    BY <1>1, <1>7, <2>1, CommandsKept, DataTyped, DataTypedNext DEF LogInv
  <2>3. Outcomes' = {}
    BY <1>4, <2>1 DEF Outcomes
  <2>4. sink'[r] = "broken" /\ sink' \in [Runs -> {"open", "broken"}]
    BY <1>1, <1>10 DEF LogInv, LinesInv
  <2>5. LinesInv'
    BY <1>8, <1>9, <2>3, <2>4 DEF LinesInv, OutcomeIsLogged
  <2> QED
    BY <2>2, <2>5 DEF LogInv
<1>11. CASE sink[r] = "open"
  <2> DEFINE n == Len(lines) + 1
  <2>1. "helm" \in Steps /\ TRUE \in BOOLEAN /\ ok \in BOOLEAN
    BY DEF Steps
  <2>2. /\ lines' \in Seq(Line)' /\ n \in DOMAIN lines' /\ Outcomes' = Outcomes \cup {n}
        /\ lines'[n].ok = ok
    BY <1>1, <1>2, <1>11, <2>1, LogGrows
  <2> HIDE DEF n, ok
  <2>3. DataOK'
    BY <1>7, <2>2, DataTypedNext
  <2>4. Outcomes' = {n} /\ lines'[n].ok = (installed' = Runs)
    BY <1>4, <1>5, <2>2
  <2>5. LinesInv'
    BY <1>1, <1>8, <1>9, <2>4 DEF LogInv, LinesInv, OutcomeIsLogged
  <2> QED
    BY <2>3, <2>5 DEF LogInv
<1> QED
  BY <1>10, <1>11

\* The record has one of the two types, and the rest is as before.
LEMMA PersistLog ==
  ASSUME IInv, LogInv, NEW r \in Runs, PersistFails(r) \/ Replace(r)
  PROVE  LogInv'
<1>1. /\ UNCHANGED <<options, hint, loads, source, given, lines, installed, sink>>
      /\ pc' = [pc EXCEPT ![r] = "done"] \/ pc' = [pc EXCEPT ![r] = "chmod"]
  BY DEF PersistFails, Replace, Run!DirectoryFails, Run!Rename, Run!Fail, Run!Step, Run!clusterVars
<1>2. refusal' \in Reasons
  BY DEF LogInv, DataOK, PersistFails, Replace, Reasons
<1>3. record' /= None => record'.type \in {"oci", "bundle"}
  <2>1. CASE PersistFails(r)
    BY <2>1 DEF LogInv, DataOK, PersistFails
  <2>2. CASE Replace(r)
    <3>1. pc[r] = "rename"
      BY <2>2 DEF Replace, Run!Rename, Run!Step
    <3>2. source.type \in {"oci", "bundle"}
      BY <3>1 DEF IInv, SourceInv
    <3> QED
      BY <2>2, <3>2 DEF Replace
  <2> QED
    BY <2>1, <2>2
<1>4. Typed'
  BY <1>1, <1>2, <1>3 DEF LogInv, DataOK, Typed, options
<1>5. Runs = {r} /\ pc \in [Runs -> Run!Idle \cup Run!Active \cup Run!Ended]
  BY OneRun DEF IInv
<1>6. NotYet'
  BY <1>1, <1>5 DEF NotYet
<1> QED
  BY <1>1, <1>4, <1>6, LogKept, SameSink

\* Every step keeps the log and the types.
LEMMA NextLogInv == ASSUME IInv, LogInv, [Next]_vars PROVE LogInv'
<1>1. ASSUME NEW r \in Runs,
             SettlePath(r) \/ Report(r) \/ ReportFails(r) \/ Other(r), ~Run!SinkBreaks(r)
      PROVE  LogInv'
  <2>1. UNCHANGED <<options, progress>>
    BY <1>1 DEF SettlePath, Report, ReportFails, Other
  <2>2. UNCHANGED <<installed, sink>>
    BY <1>1 DEF SettlePath, Report, ReportFails, Other, Run!EnsureDirectory, Run!EmitOutput,
                Run!OutputFails, Run!StartEventFails, Run!PhaseCompletes, Run!CompletionEventFails,
                Run!CreateTemp, Run!EncodeTemp, Run!TempFails, Run!ChmodState, Run!ChmodFails,
                Run!Crash, Run!clusterVars
  <2>3. \E e \in {"directory", "temp", "encode", "rename", "report", "done", "crashed"} :
          pc' = [pc EXCEPT ![r] = e]
    BY <1>1 DEF SettlePath, Report, ReportFails, Other, Run!EnsureDirectory, Run!EmitOutput,
                Run!OutputFails, Run!StartEventFails, Run!PhaseCompletes, Run!CompletionEventFails,
                Run!CreateTemp, Run!EncodeTemp, Run!TempFails, Run!ChmodState, Run!ChmodFails,
                Run!Crash, Run!Step, Run!Fail
  <2>4. Runs = {r} /\ pc \in [Runs -> Run!Idle \cup Run!Active \cup Run!Ended]
    BY OneRun DEF IInv
  <2> QED
    BY <2>1, <2>2, <2>3, <2>4, DatalessLog, SameSink
<1>2. ASSUME NEW r \in Runs, Other(r), Run!SinkBreaks(r)
      PROVE  LogInv'
  <2>1. UNCHANGED <<options, progress, installed, pc>> /\ sink' = [sink EXCEPT ![r] = "broken"]
    BY <1>2 DEF Other, Run!SinkBreaks, Run!clusterVars
  <2>2. SinkStays
    BY <2>1 DEF LogInv, LinesInv, SinkStays
  <2> QED
    BY <2>1, <2>2, DatalessLog
<1>3. CASE UNCHANGED vars
  <2>1. UNCHANGED <<pc, installed, sink, options, progress>>
    BY <1>3 DEF vars, runVars
  <2> QED
    BY <2>1, DatalessLog, SameSink
<1>4. ASSUME NEW r \in Runs, SettlePath(r) \/ Report(r) \/ ReportFails(r), Run!SinkBreaks(r)
      PROVE  FALSE
  <2>1. pc' = pc /\ pc \in [Runs -> Run!Idle \cup Run!Active \cup Run!Ended]
    BY <1>4 DEF Run!SinkBreaks, IInv
  <2>2. \E e \in {"temp", "done"} : pc' = [pc EXCEPT ![r] = e] /\ pc[r] \notin {"temp", "done"}
    BY <1>4 DEF SettlePath, Report, ReportFails, Run!EnsureDirectory, Run!EmitOutput,
                Run!OutputFails, Run!Step, Run!Fail
  <2> QED
    BY <2>1, <2>2
<1> QED
  BY <1>1, <1>2, <1>3, <1>4, BeginLog, ResolveLog, LoadFailsLog, StartLog, ApplyLog, PersistLog DEF Next

\* What the log holds: entries of the commands that the options make, in whatever
\* order they are written or lost, and of how Install ended at most one, after it
\* has ended and with its outcome; only a log that cannot be written has none.
THEOREM LogInvariance == Spec => []LogInv
<1> QED
  BY InitLogInv, NextLogInv, Invariance, PTL DEF Spec

\* How Helm ended is logged once, by the phase or by the executor, unless the log
\* cannot be written; and no entry shows the passphrase, whoever of the two built
\* its command, if no name in the command has a marker.
THEOREM LoggedOnce == Spec => []LogTellsHelm
<1>1. LogInv => LogTellsHelm
  <2> SUFFICES ASSUME LogInv PROVE LogTellsHelm
    OBVIOUS
  <2>1. OutcomeIsLogged
    BY DEF LogInv, LinesInv
  <2>2. request \in Requests /\ lines \in Seq(Line)
    BY DataTyped DEF LogInv, Typed
  <2>3. ASSUME Names \cap (FlagMarked \cup SetFlags) = {},
               request.passphrase \notin OwnWords \cup Names \cup {"--values-passphrase", Mask, None},
               NEW i \in DOMAIN lines, NEW j \in DOMAIN lines[i].command
        PROVE  request.passphrase \notin WordsOf(lines[i].command[j])
    <3>1. lines[i] \in Line
      BY <2>2, <2>3
    <3>2. PICK args \in {ExecutorArgs, PhaseArgs, ResolveArgs} :
            lines[i].command = SanitizeCommand(args)
      BY <3>1 DEF Line, Commands
    <3> QED
      BY <2>2, <2>3, <3>2, CommandHides
  <2> QED
    BY <2>1, <2>3 DEF LogTellsHelm, PassphraseHidden
<1> QED
  BY <1>1, LogInvariance, PTL

-----------------------------------------------------------------------------
(* What is proved of AppAction *)

RunProofs == INSTANCE AppActionProofs

\* The assumption that AppAction makes.
LEMMA NoRunIsNone == NoRun \notin Runs
BY RequestsAssumption

\* A request begins where a run does.
LEMMA RunInit == Init => RunProofs!IInv
<1>1. Init => RunProofs!Init
  BY DEF Init, Run!Init, RunProofs!Init, Run!NoFile, RunProofs!NoFile
<1> QED
  BY <1>1, RunProofs!InitIInv, NoRunIsNone

\* A step of a request keeps the invariant of AppAction, by whose steps it is
\* kept there.
LEMMA RunNext == ASSUME RunProofs!IInv, [Next]_vars PROVE RunProofs!IInv'
<1> USE DEF Run!Step, Run!Log, Run!Fail, Run!clusterVars, Run!fileVars, Run!Active,
            RunProofs!Step, RunProofs!Log, RunProofs!Fail, RunProofs!clusterVars,
            RunProofs!fileVars, RunProofs!Active
<1>1. ASSUME NEW r \in Runs, Run!Reject(r) \/ Run!Begin(r) \/ Run!SinkBreaks(r) \/ Run!Crash(r)
      PROVE  RunProofs!Next
  BY <1>1 DEF RunProofs!Next, Run!Reject, Run!Begin, Run!SinkBreaks, Run!Crash, Run!Idle,
              RunProofs!Reject, RunProofs!Begin, RunProofs!SinkBreaks, RunProofs!Crash, RunProofs!Idle
<1>2. ASSUME NEW r \in Runs, Run!ProgramStep(r)
      PROVE  RunProofs!ProgramStep(r)
  <2>1. CASE Run!Resolve(r) \/ Run!ResolveFails(r) \/ Run!PhaseStarts(r) \/ Run!StartEventFails(r)
    BY <2>1 DEF RunProofs!ProgramStep,
                Run!Resolve, Run!ResolveFails, Run!PhaseStarts, Run!StartEventFails,
                RunProofs!Resolve, RunProofs!ResolveFails, RunProofs!PhaseStarts, RunProofs!StartEventFails
  <2>2. CASE Run!HelmSucceeds(r) \/ Run!HelmFails(r) \/ Run!PhaseCompletes(r) \/ Run!CompletionEventFails(r)
    BY <2>2 DEF RunProofs!ProgramStep,
                Run!HelmSucceeds, Run!HelmFails, Run!PhaseCompletes, Run!CompletionEventFails,
                RunProofs!HelmSucceeds, RunProofs!HelmFails, RunProofs!PhaseCompletes,
                RunProofs!CompletionEventFails
  <2>3. CASE \/ Run!EnsureDirectory(r) \/ Run!CreateTemp(r) \/ Run!DirectoryFails(r)
             \/ Run!EncodeTemp(r) \/ Run!TempFails(r)
    BY <2>3 DEF RunProofs!ProgramStep,
                Run!EnsureDirectory, Run!CreateTemp, Run!DirectoryFails, Run!EncodeTemp, Run!TempFails,
                RunProofs!EnsureDirectory, RunProofs!CreateTemp, RunProofs!DirectoryFails,
                RunProofs!EncodeTemp, RunProofs!TempFails
  <2>4. CASE \/ Run!Rename(r) \/ Run!ChmodState(r) \/ Run!ChmodFails(r)
             \/ Run!EmitOutput(r) \/ Run!OutputFails(r)
    BY <2>4 DEF RunProofs!ProgramStep,
                Run!Rename, Run!ChmodState, Run!ChmodFails, Run!EmitOutput, Run!OutputFails,
                RunProofs!Rename, RunProofs!ChmodState, RunProofs!ChmodFails, RunProofs!EmitOutput,
                RunProofs!OutputFails
  <2> QED
    BY <1>2, <2>1, <2>2, <2>3, <2>4 DEF Run!ProgramStep
<1>3. [Run!Next]_(Run!vars)
  BY StepImplements
<1>4. CASE UNCHANGED Run!vars
  BY <1>4, RunProofs!NextIInv, NoRunIsNone DEF Run!vars, RunProofs!vars
<1>5. CASE Run!Next
  <2>1. RunProofs!Next
    BY <1>1, <1>2, <1>5 DEF Run!Next, RunProofs!Next
  <2> QED
    BY <2>1, RunProofs!NextIInv, NoRunIsNone
<1> QED
  BY <1>3, <1>4, <1>5

\* What AppAction's invariant says of runs holds of a run with its data.
THEOREM RunInvariance == Spec => []RunProofs!IInv
BY RunInit, RunNext, PTL DEF Spec

\* The variables have their types.
THEOREM TypeCorrect == Spec => []TypeOK
<1>1. RunProofs!IInv /\ LogInv => TypeOK
  BY DEF RunProofs!IInv, RunProofs!TypeOK, RunProofs!Idle, RunProofs!Active, RunProofs!Ended,
         RunProofs!Entries, Run!TypeOK, Run!Idle, Run!Active, Run!Ended, Run!Entries, TypeOK, LogInv
<1> QED
  BY <1>1, RunInvariance, LogInvariance, PTL

\* A run that reports success has called Installer.Install, which returned nil:
\* the cluster has its release if there is an installer, and none if the shipped
\* no-op stands for one. Its log has no failed outcome of Helm, and a successful
\* one unless the log cannot be written; and the record, where the operator wants
\* it, is of the release and of the kind of source that Install was called with.
THEOREM SuccessIsTrue ==
  Spec => [](\A r \in Runs : exit[r] = "ok" =>
               /\ given /= None /\ r \in installed
               /\ released = IF installer THEN r ELSE NoRun
               /\ \A i \in Outcomes : lines[i].ok
               /\ sink[r] = "open" => Outcomes /= {}
               /\ record.path = NamedPath
               /\ record.release = given.profile.release
               /\ record.namespace = given.profile.namespace
               /\ record.type = "bundle" <=> given.bundle /= None)
<1> DEFINE Told(r) == /\ given /= None /\ r \in installed
                      /\ released = IF installer THEN r ELSE NoRun
                      /\ \A i \in Outcomes : lines[i].ok
                      /\ sink[r] = "open" => Outcomes /= {}
                      /\ record.path = NamedPath
                      /\ record.release = given.profile.release
                      /\ record.namespace = given.profile.namespace
                      /\ record.type = "bundle" <=> given.bundle /= None
<1>1. ASSUME RunProofs!IInv, LogInv, RecordTellsRun, NEW r \in Runs, exit[r] = "ok"
      PROVE  Told(r)
  <2>1. installed \subseteq Runs /\ r \in installed /\ recorded /= {} /\ Runs = {r}
    BY <1>1, OneRun DEF RunProofs!IInv, RunProofs!TypeOK, RunProofs!RunInv, RunProofs!FileInv
  <2>2. given /= None
    BY <1>1, <2>1 DEF LogInv, LinesInv
  <2>3. released = IF installer THEN r ELSE NoRun
    BY <1>1, <2>1 DEF RunProofs!IInv, RunProofs!SerialInv
  <2>4. /\ \A i \in Outcomes : lines[i].ok
        /\ sink[r] = "open" => Outcomes /= {}
    BY <1>1, <2>1, <2>2 DEF LogInv, LinesInv, OutcomeIsLogged
  <2>5. /\ record.path = NamedPath
        /\ record.release = given.profile.release
        /\ record.namespace = given.profile.namespace
        /\ record.type = "bundle" <=> given.bundle /= None
    BY <1>1, <2>1 DEF RecordTellsRun
  <2> QED
    BY <2>1, <2>2, <2>3, <2>4, <2>5
<1>2. RunProofs!IInv /\ LogInv /\ RecordTellsRun => \A r \in Runs : exit[r] = "ok" => Told(r)
  BY <1>1
<1> QED
  BY <1>2, RunInvariance, LogInvariance, RecordTrue, PTL
=============================================================================
