-------------------------- MODULE AppActionProofs ---------------------------
(***************************************************************************)
(* What holds of AppAction for every number of runs: the inductive         *)
(* invariant IInv, the safety properties it implies, and that the state    *)
(* file implements ReleaseLedger.                                          *)
(***************************************************************************)
EXTENDS AppAction, SequenceTheorems, TLAPS

USE NoRunAssumption
USE DEF Idle, Active, Ended, BeforeRelease, BeforeRename,
        clusterVars, fileVars, Step

-----------------------------------------------------------------------------
(* The inductive invariant *)

\* What logging an entry does to a log: it is there if it can be written, and
\* nothing else changes.
LEMMA Logged ==
  ASSUME TypeOK, NEW r \in Runs, NEW e \in Entries, Log(r, e)
  PROVE  /\ log' \in [Runs -> Seq(Entries)]
         /\ \A q \in Runs \ {r} : log'[q] = log[q]
         /\ \A i \in DOMAIN log'[r] : log'[r][i] = e \/ Says(r, log'[r][i])
         /\ sink[r] /= "open" => log'[r] = log[r]
         /\ sink[r] = "open" =>
              /\ log'[r] /= << >>
              /\ log'[r][Len(log'[r])] = e
              /\ log[r] = << >> => log'[r] = <<e>>
              /\ log[r] = <<"start">> => log'[r] = <<"start", e>>
<1>1. log \in [Runs -> Seq(Entries)]
  BY DEF TypeOK
<1>2. CASE sink[r] /= "open"
  BY <1>1, <1>2 DEF Log, Says
<1>3. CASE sink[r] = "open"
  <2>1. log'[r] = Append(log[r], e) /\ \A q \in Runs \ {r} : log'[q] = log[q]
    BY <1>1, <1>3 DEF Log
  <2>2. log' \in [Runs -> Seq(Entries)]
    BY <1>1, <1>3 DEF Log
  <2>3. Len(log'[r]) = Len(log[r]) + 1 /\ log'[r][Len(log[r]) + 1] = e
    BY <1>1, <2>1
  <2>4. \A i \in DOMAIN log'[r] : log'[r][i] = e \/ Says(r, log'[r][i])
    <3> SUFFICES ASSUME NEW i \in DOMAIN log'[r], log'[r][i] /= e
                 PROVE  \E j \in DOMAIN log[r] : log[r][j] = log'[r][i]
      BY DEF Says
    <3>1. i \in 1 .. Len(log[r])
      BY <1>1, <2>1, <2>3
    <3>2. log'[r][i] = log[r][i] /\ i \in DOMAIN log[r]
      BY <1>1, <2>1, <3>1
    <3> QED
      BY <3>2
  <2>5. log[r] = <<"start">> => Append(log[r], e) = <<"start", e>>
    <3> SUFFICES Append(<<"start">>, e) = <<"start", e>>
      OBVIOUS
    <3>1. <<"start">> \in Seq(Entries) /\ <<"start", e>> \in Seq(Entries)
      BY DEF Entries
    <3>2. Append(<<"start">>, e) \in Seq(Entries)
      BY <3>1
    <3>3. Len(Append(<<"start">>, e)) = 2 /\ Len(<<"start", e>>) = 2
      BY <3>1
    <3>4. \A i \in 1 .. 2 : Append(<<"start">>, e)[i] = <<"start", e>>[i]
      BY <3>1
    <3> QED
      BY <3>1, <3>2, <3>3, <3>4, SeqEqual
  <2>6. log[r] = << >> => Append(log[r], e) = <<e>>
    OBVIOUS
  <2>7. log'[r] /= << >>
    BY <2>1, <1>1, <2>3
  <2> QED
    BY <1>3, <1>1, <2>1, <2>2, <2>3, <2>4, <2>5, <2>6, <2>7
<1> QED
  BY <1>2, <1>3

\* No run has begun.
LEMMA InitIInv == Init => IInv
<1> SUFFICES ASSUME Init PROVE IInv
  OBVIOUS
<1>1. TypeOK
  <2>1. << >> \in Seq(Entries)
    OBVIOUS
  <2> QED
    BY <2>1 DEF Init, TypeOK, NoFile
<1>2. RunInv
  BY DEF Init, RunInv
<1>3. FileInv
  BY DEF Init, FileInv, NoFile
<1>4. SerialInv
  BY DEF Init, SerialInv
<1>5. LogTellsExit
  <2>1. \A r \in Runs, e \in Entries : ~Says(r, e)
    BY DEF Init, Says
  <2> QED
    BY <2>1 DEF Init, LogTellsExit, Entries
<1> QED
  BY <1>1, <1>2, <1>3, <1>4, <1>5 DEF IInv

\* Every way to fail ends the same: the run is over, its temporary file gone,
\* its failure logged, and the release and the record are left as they are.
LEMMA FailEndsRun ==
  ASSUME IInv, NEW r \in Runs, pc[r] \in Active, Fail(r),
         UNCHANGED <<clusterVars, writable, file, recorded, sink, overlapped>>,
         tmp' \in {tmp, [tmp EXCEPT ![r] = "none"]}, tmp'[r] = "none"
  PROVE  IInv'
<1>1. TypeOK /\ Log(r, "failure") /\ "failure" \in Entries
  BY DEF Fail, IInv, Entries
<1>2. /\ log' \in [Runs -> Seq(Entries)]
      /\ \A q \in Runs \ {r} : log'[q] = log[q]
      /\ \A i \in DOMAIN log'[r] : log'[r][i] = "failure" \/ Says(r, log'[r][i])
      /\ sink[r] = "open" => log'[r] /= << >> /\ log'[r][Len(log'[r])] = "failure"
  BY <1>1, Logged
<1>3. /\ pc' = [pc EXCEPT ![r] = "done"]
      /\ exit' = [exit EXCEPT ![r] = "error"]
  BY DEF Fail
<1>4. tmp' \in [Runs -> {"none", "partial", "whole"}] /\ \A q \in Runs \ {r} : tmp'[q] = tmp[q]
  <2>1. CASE tmp' = tmp
    BY <1>1, <2>1 DEF TypeOK
  <2>2. CASE tmp' = [tmp EXCEPT ![r] = "none"]
    BY <1>1, <2>2 DEF TypeOK
  <2> QED
    BY <2>1, <2>2
<1>5. TypeOK'
  BY <1>1, <1>2, <1>3, <1>4 DEF TypeOK
<1>6. RunInv'
  BY <1>1, <1>2, <1>3, <1>4 DEF RunInv, TypeOK, IInv
<1>7. FileInv'
  BY DEF FileInv, IInv
<1>8. SerialInv'
  BY <1>1, <1>3 DEF SerialInv, TypeOK, IInv
<1>9. LogTellsExit'
  <2>1. exit'[r] = "error" /\ \A q \in Runs \ {r} : exit'[q] = exit[q]
    BY <1>1, <1>3 DEF TypeOK
  <2>2. Says(r, "success")' => Says(r, "success")
    BY <1>2 DEF Says
  <2>3. \A q \in Runs \ {r}, e \in Entries : Says(q, e)' => Says(q, e)
    BY <1>2 DEF Says
  <2> QED
    BY <1>2, <2>1, <2>2, <2>3 DEF LogTellsExit, IInv, Entries
<1> QED
  BY <1>5, <1>6, <1>7, <1>8, <1>9 DEF IInv

\* A rejected run ends before it has logged or released anything.
LEMMA RejectStep ==
  ASSUME IInv, NEW r \in Runs, Reject(r)
  PROVE  IInv'
<1>1. TypeOK'
  BY DEF Reject, TypeOK, IInv
<1>2. RunInv'
  BY DEF Reject, TypeOK, RunInv, IInv
<1>3. FileInv'
  BY DEF Reject, TypeOK, RunInv, FileInv, IInv
<1>4. SerialInv'
  BY DEF Reject, TypeOK, RunInv, SerialInv, IInv
<1>5. LogTellsExit'
  BY DEF Reject, TypeOK, RunInv, LogTellsExit, Says, IInv
<1> QED
  BY <1>1, <1>2, <1>3, <1>4, <1>5 DEF IInv

\* A run begins with an entry in the log; another active run makes it overlap.
LEMMA BeginStep ==
  ASSUME IInv, NEW r \in Runs, Begin(r)
  PROVE  IInv'
<1>1. TypeOK /\ Log(r, "start") /\ "start" \in Entries /\ log[r] = << >>
  BY DEF Begin, RunInv, IInv, Entries
<1>2. /\ log' \in [Runs -> Seq(Entries)]
      /\ \A q \in Runs \ {r} : log'[q] = log[q]
      /\ \A i \in DOMAIN log'[r] : log'[r][i] = "start" \/ Says(r, log'[r][i])
      /\ sink[r] = "open" => log'[r] = <<"start">>
  BY <1>1, Logged
<1>3. TypeOK'
  BY <1>1, <1>2 DEF Begin, TypeOK, IInv
<1>4. RunInv'
  BY <1>1, <1>2 DEF Begin, TypeOK, RunInv, IInv
<1>5. FileInv'
  BY DEF Begin, TypeOK, RunInv, FileInv, IInv
<1>6. SerialInv'
  <2>1. /\ pc[r] = "idle" /\ pc' = [pc EXCEPT ![r] = "resolve"]
        /\ UNCHANGED <<clusterVars, file, exit>>
        /\ overlapped' = (overlapped \/ \E q \in Runs : pc[q] \in Active)
    BY DEF Begin
  <2>2. \A q \in Runs \ {r} : pc'[q] = pc[q]
    BY <2>1 DEF TypeOK, IInv
  <2>3. pc'[r] = "resolve"
    BY <2>1 DEF TypeOK, IInv
  <2>4. ASSUME ~overlapped', NEW q \in Runs, pc'[q] \in Active PROVE q = r
    BY <2>1, <2>2, <2>4
  <2>5. /\ released \in installed \cup {NoRun} /\ (~installer => released = NoRun)
        /\ installer /\ installed /= {} => released /= NoRun
    BY DEF SerialInv, IInv
  <2>6. released \in Runs => released /= r
    BY <2>1, <2>5 DEF RunInv, IInv
  <2>7. ASSUME ~overlapped', released /= NoRun
        PROVE  /\ \A q \in Runs : pc'[q] \in Active \ BeforeRelease => q = released
               /\ pc'[released] \in {"chmod", "report"} \/ exit[released] = "ok" =>
                    file.run = released
    <3>1. released \in Runs /\ released /= r /\ ~overlapped
      BY <2>1, <2>5, <2>6, <2>7 DEF TypeOK, IInv
    <3>2. pc[released] \in {"chmod", "report"} \/ exit[released] = "ok" => file.run = released
      BY <2>7, <3>1 DEF SerialInv, IInv
    <3> QED
      BY <2>2, <2>3, <2>4, <2>7, <3>1, <3>2
  <2> QED
    BY <2>1, <2>4, <2>5, <2>7 DEF SerialInv
<1>7. LogTellsExit'
  <2>1. exit[r] = "none" /\ UNCHANGED <<exit, recorded, sink>>
    BY DEF Begin, RunInv, IInv
  <2>2. \A q \in Runs, e \in {"success", "failure"} : Says(q, e)' => Says(q, e)
    BY <1>2 DEF Says
  <2> QED
    BY <1>2, <2>1, <2>2 DEF LogTellsExit, IInv
<1> QED
  BY <1>3, <1>4, <1>5, <1>6, <1>7 DEF IInv

\* Resolving the chart changes nothing else.
LEMMA ResolveStep ==
  ASSUME IInv, NEW r \in Runs, Resolve(r)
  PROVE  IInv'
<1>1. TypeOK'
  BY DEF Resolve, TypeOK, IInv
<1>2. RunInv'
  BY DEF Resolve, TypeOK, RunInv, IInv
<1>3. FileInv'
  BY DEF Resolve, TypeOK, RunInv, FileInv, IInv
<1>4. SerialInv'
  BY DEF Resolve, TypeOK, RunInv, SerialInv, IInv
<1>5. LogTellsExit'
  BY DEF Resolve, TypeOK, RunInv, LogTellsExit, Says, IInv
<1> QED
  BY <1>1, <1>2, <1>3, <1>4, <1>5 DEF IInv

\* A chart that is not resolved is not released.
LEMMA ResolveFailsStep ==
  ASSUME IInv, NEW r \in Runs, ResolveFails(r)
  PROVE  IInv'
BY FailEndsRun DEF ResolveFails, RunInv, IInv

\* The start event changes nothing else.
LEMMA PhaseStartsStep ==
  ASSUME IInv, NEW r \in Runs, PhaseStarts(r)
  PROVE  IInv'
<1>1. TypeOK'
  BY DEF PhaseStarts, TypeOK, IInv
<1>2. RunInv'
  BY DEF PhaseStarts, TypeOK, RunInv, IInv
<1>3. FileInv'
  BY DEF PhaseStarts, TypeOK, RunInv, FileInv, IInv
<1>4. SerialInv'
  BY DEF PhaseStarts, TypeOK, RunInv, SerialInv, IInv
<1>5. LogTellsExit'
  BY DEF PhaseStarts, TypeOK, RunInv, LogTellsExit, Says, IInv
<1> QED
  BY <1>1, <1>2, <1>3, <1>4, <1>5 DEF IInv

\* A start event that cannot be written keeps Helm from running.
LEMMA StartEventFailsStep ==
  ASSUME IInv, NEW r \in Runs, StartEventFails(r)
  PROVE  IInv'
BY FailEndsRun DEF StartEventFails, RunInv, IInv

\* Installer.Install has returned; nobody else is past Helm when operators take turns.
LEMMA HelmSucceedsStep ==
  ASSUME IInv, NEW r \in Runs, HelmSucceeds(r)
  PROVE  IInv'
<1>1. TypeOK'
  BY DEF HelmSucceeds, TypeOK, IInv
<1>2. RunInv'
  BY DEF HelmSucceeds, TypeOK, RunInv, FileInv, IInv
<1>3. FileInv'
  BY DEF HelmSucceeds, TypeOK, RunInv, FileInv, IInv
<1>4. SerialInv'
  BY DEF HelmSucceeds, TypeOK, RunInv, SerialInv, IInv
<1>5. LogTellsExit'
  BY DEF HelmSucceeds, TypeOK, RunInv, LogTellsExit, Says, IInv
<1> QED
  BY <1>1, <1>2, <1>3, <1>4, <1>5 DEF IInv

\* A failed Helm run is not counted as released.
LEMMA HelmFailsStep ==
  ASSUME IInv, NEW r \in Runs, HelmFails(r)
  PROVE  IInv'
BY FailEndsRun DEF HelmFails, RunInv, IInv

\* The completion event changes nothing else.
LEMMA PhaseCompletesStep ==
  ASSUME IInv, NEW r \in Runs, PhaseCompletes(r)
  PROVE  IInv'
<1>1. TypeOK'
  BY DEF PhaseCompletes, TypeOK, IInv
<1>2. RunInv'
  BY DEF PhaseCompletes, TypeOK, RunInv, IInv
<1>3. FileInv'
  BY DEF PhaseCompletes, TypeOK, RunInv, FileInv, IInv
<1>4. SerialInv'
  BY DEF PhaseCompletes, TypeOK, RunInv, SerialInv, IInv
<1>5. LogTellsExit'
  BY DEF PhaseCompletes, TypeOK, RunInv, LogTellsExit, Says, IInv
<1> QED
  BY <1>1, <1>2, <1>3, <1>4, <1>5 DEF IInv

\* The run fails although it is released, and is not recorded.
LEMMA CompletionEventFailsStep ==
  ASSUME IInv, NEW r \in Runs, CompletionEventFails(r)
  PROVE  IInv'
BY FailEndsRun DEF CompletionEventFails, RunInv, IInv

\* The directory is no part of the record.
LEMMA EnsureDirectoryStep ==
  ASSUME IInv, NEW r \in Runs, EnsureDirectory(r)
  PROVE  IInv'
<1>1. TypeOK'
  BY DEF EnsureDirectory, TypeOK, IInv
<1>2. RunInv'
  BY DEF EnsureDirectory, TypeOK, RunInv, IInv
<1>3. FileInv'
  BY DEF EnsureDirectory, TypeOK, RunInv, FileInv, IInv
<1>4. SerialInv'
  BY DEF EnsureDirectory, TypeOK, RunInv, SerialInv, IInv
<1>5. LogTellsExit'
  BY DEF EnsureDirectory, TypeOK, RunInv, LogTellsExit, Says, IInv
<1> QED
  BY <1>1, <1>2, <1>3, <1>4, <1>5 DEF IInv

\* The temporary file is the run's own.
LEMMA CreateTempStep ==
  ASSUME IInv, NEW r \in Runs, CreateTemp(r)
  PROVE  IInv'
<1>1. TypeOK'
  BY DEF CreateTemp, TypeOK, IInv
<1>2. RunInv'
  BY DEF CreateTemp, TypeOK, RunInv, IInv
<1>3. FileInv'
  BY DEF CreateTemp, TypeOK, RunInv, FileInv, IInv
<1>4. SerialInv'
  BY DEF CreateTemp, TypeOK, RunInv, SerialInv, IInv
<1>5. LogTellsExit'
  BY DEF CreateTemp, TypeOK, RunInv, LogTellsExit, Says, IInv
<1> QED
  BY <1>1, <1>2, <1>3, <1>4, <1>5 DEF IInv

\* Without a directory or a temporary file the run fails unrecorded.
LEMMA DirectoryFailsStep ==
  ASSUME IInv, NEW r \in Runs, DirectoryFails(r)
  PROVE  IInv'
BY FailEndsRun DEF DirectoryFails, RunInv, IInv

\* Only an encoded and closed temporary file is renamed.
LEMMA EncodeTempStep ==
  ASSUME IInv, NEW r \in Runs, EncodeTemp(r)
  PROVE  IInv'
<1>1. TypeOK'
  BY DEF EncodeTemp, TypeOK, IInv
<1>2. RunInv'
  BY DEF EncodeTemp, TypeOK, RunInv, IInv
<1>3. FileInv'
  BY DEF EncodeTemp, TypeOK, RunInv, FileInv, IInv
<1>4. SerialInv'
  BY DEF EncodeTemp, TypeOK, RunInv, SerialInv, IInv
<1>5. LogTellsExit'
  BY DEF EncodeTemp, TypeOK, RunInv, LogTellsExit, Says, IInv
<1> QED
  BY <1>1, <1>2, <1>3, <1>4, <1>5 DEF IInv

\* A temporary file that is not renamed is removed.
LEMMA TempFailsStep ==
  ASSUME IInv, NEW r \in Runs, TempFails(r)
  PROVE  IInv'
BY FailEndsRun DEF TempFails, TypeOK, IInv

\* The rename replaces the record in one step by a whole one.
LEMMA RenameStep ==
  ASSUME IInv, NEW r \in Runs, Rename(r)
  PROVE  IInv'
<1>1. TypeOK'
  BY DEF Rename, TypeOK, IInv
<1>2. RunInv'
  BY DEF Rename, TypeOK, RunInv, IInv
<1>3. FileInv'
  BY DEF Rename, TypeOK, RunInv, FileInv, IInv
<1>4. SerialInv'
  BY DEF Rename, TypeOK, RunInv, SerialInv, IInv
<1>5. LogTellsExit'
  BY DEF Rename, TypeOK, RunInv, LogTellsExit, Says, IInv
<1> QED
  BY <1>1, <1>2, <1>3, <1>4, <1>5 DEF IInv

\* The success is logged when the file is in place.
LEMMA ChmodStateStep ==
  ASSUME IInv, NEW r \in Runs, ChmodState(r)
  PROVE  IInv'
<1>1. /\ TypeOK /\ Log(r, "success") /\ "success" \in Entries
      /\ sink[r] = "open" => log[r] = <<"start">>
  BY DEF ChmodState, RunInv, IInv, Entries
<1>2. /\ log' \in [Runs -> Seq(Entries)]
      /\ \A q \in Runs \ {r} : log'[q] = log[q]
      /\ \A i \in DOMAIN log'[r] : log'[r][i] = "success" \/ Says(r, log'[r][i])
      /\ sink[r] = "open" => log'[r] = <<"start", "success">>
  BY <1>1, Logged
<1>3. TypeOK'
  BY <1>1, <1>2 DEF ChmodState, TypeOK, IInv
<1>4. RunInv'
  BY <1>1, <1>2 DEF ChmodState, TypeOK, RunInv, IInv
<1>5. FileInv'
  BY DEF ChmodState, TypeOK, RunInv, FileInv, IInv
<1>6. SerialInv'
  BY DEF ChmodState, TypeOK, RunInv, SerialInv, IInv
<1>7. LogTellsExit'
  <2>1. exit[r] = "none" /\ r \in recorded /\ UNCHANGED <<exit, recorded, sink>>
    BY DEF ChmodState, RunInv, IInv
  <2>2. Says(r, "failure")' => Says(r, "failure")
    BY <1>2 DEF Says
  <2>3. \A q \in Runs \ {r}, e \in Entries : Says(q, e)' => Says(q, e)
    BY <1>2 DEF Says
  <2> QED
    BY <1>2, <2>1, <2>2, <2>3 DEF LogTellsExit, IInv, Entries
<1> QED
  BY <1>3, <1>4, <1>5, <1>6, <1>7 DEF IInv

\* The run fails although its record is in place.
LEMMA ChmodFailsStep ==
  ASSUME IInv, NEW r \in Runs, ChmodFails(r)
  PROVE  IInv'
BY FailEndsRun DEF ChmodFails, RunInv, IInv

\* Success is reported when the record is in place and logged.
LEMMA EmitOutputStep ==
  ASSUME IInv, NEW r \in Runs, EmitOutput(r)
  PROVE  IInv'
<1>1. TypeOK'
  BY DEF EmitOutput, TypeOK, IInv
<1>2. RunInv'
  BY DEF EmitOutput, TypeOK, RunInv, IInv
<1>3. FileInv'
  BY DEF EmitOutput, TypeOK, RunInv, FileInv, IInv
<1>4. SerialInv'
  BY DEF EmitOutput, TypeOK, RunInv, SerialInv, IInv
<1>5. LogTellsExit'
  BY DEF EmitOutput, TypeOK, RunInv, LogTellsExit, Says, IInv
<1> QED
  BY <1>1, <1>2, <1>3, <1>4, <1>5 DEF IInv

\* The run fails although its record is in place, and says so in the log.
LEMMA OutputFailsStep ==
  ASSUME IInv, NEW r \in Runs, OutputFails(r)
  PROVE  IInv'
BY FailEndsRun DEF OutputFails, RunInv, IInv

\* A log that can no longer be written keeps what it has.
LEMMA SinkBreaksStep ==
  ASSUME IInv, NEW r \in Runs, SinkBreaks(r)
  PROVE  IInv'
<1>1. TypeOK'
  BY DEF SinkBreaks, TypeOK, IInv
<1>2. RunInv'
  BY DEF SinkBreaks, TypeOK, RunInv, IInv
<1>3. FileInv'
  BY DEF SinkBreaks, TypeOK, RunInv, FileInv, IInv
<1>4. SerialInv'
  BY DEF SinkBreaks, TypeOK, RunInv, SerialInv, IInv
<1>5. LogTellsExit'
  BY DEF SinkBreaks, TypeOK, RunInv, LogTellsExit, Says, IInv
<1> QED
  BY <1>1, <1>2, <1>3, <1>4, <1>5 DEF IInv

\* A killed run leaves everything as it is.
LEMMA CrashStep ==
  ASSUME IInv, NEW r \in Runs, Crash(r)
  PROVE  IInv'
<1>1. TypeOK'
  BY DEF Crash, TypeOK, IInv
<1>2. RunInv'
  BY DEF Crash, TypeOK, RunInv, IInv
<1>3. FileInv'
  BY DEF Crash, TypeOK, RunInv, FileInv, IInv
<1>4. SerialInv'
  BY DEF Crash, TypeOK, RunInv, SerialInv, IInv
<1>5. LogTellsExit'
  BY DEF Crash, TypeOK, RunInv, LogTellsExit, Says, IInv
<1> QED
  BY <1>1, <1>2, <1>3, <1>4, <1>5 DEF IInv

\* Every step preserves the inductive invariant.
LEMMA NextIInv == IInv /\ [Next]_vars => IInv'
<1> SUFFICES ASSUME IInv, [Next]_vars PROVE IInv'
  OBVIOUS
<1>1. ASSUME NEW r \in Runs, ProgramStep(r) PROVE IInv'
  BY <1>1, ResolveStep, ResolveFailsStep, PhaseStartsStep, StartEventFailsStep,
     HelmSucceedsStep, HelmFailsStep, PhaseCompletesStep, CompletionEventFailsStep,
     EnsureDirectoryStep, CreateTempStep, DirectoryFailsStep, EncodeTempStep,
     TempFailsStep, RenameStep, ChmodStateStep, ChmodFailsStep, EmitOutputStep,
     OutputFailsStep
  DEF ProgramStep
<1>2. CASE UNCHANGED vars
  BY <1>2 DEF vars, IInv, TypeOK, RunInv, FileInv, SerialInv, LogTellsExit, Says
<1> QED
  BY <1>1, <1>2, RejectStep, BeginStep, SinkBreaksStep, CrashStep DEF Next

\* The inductive invariant holds in every reachable state.
THEOREM Invariance == Spec => []IInv
BY InitIInv, NextIInv, PTL DEF Spec

-----------------------------------------------------------------------------
(* The safety properties *)

\* Runs, temporary files, state file and log keep the shape the code gives them.
THEOREM TypeCorrect == Spec => []TypeOK
<1>1. IInv => TypeOK
  BY DEF IInv
<1> QED
  BY Invariance, <1>1, PTL

\* Whoever runAppAction returns nil to was installed and recorded, the state file
\* is whole from then on, and an installer has left a release of such a run.
THEOREM SuccessesAreRecorded == Spec => []SuccessIsRecorded
<1>1. IInv => SuccessIsRecorded
  BY DEF IInv, RunInv, FileInv, SerialInv, SuccessIsRecorded
<1> QED
  BY Invariance, <1>1, PTL

\* While operators take turns, the file written by Manager.Write names the
\* release the cluster has, if that release was reported as a success.
THEOREM SerialRunsAgree == Spec => []SerialRunsKeepRecordCurrent
<1>1. IInv => SerialRunsKeepRecordCurrent
  BY DEF IInv, SerialInv, SerialRunsKeepRecordCurrent
<1> QED
  BY Invariance, <1>1, PTL

\* The deferred logging of runAppAction never contradicts the exit status, and
\* agrees with it while the entries can be written.
THEOREM LogsTellExits == Spec => []LogTellsExit
<1>1. IInv => LogTellsExit
  BY DEF IInv
<1> QED
  BY Invariance, <1>1, PTL

\* The deferred Remove of writeStateFile leaves no temporary file behind.
THEOREM NoStrayTempFiles == Spec => []NoStrayTemp
<1>1. IInv => NoStrayTemp
  BY DEF IInv, RunInv, NoStrayTemp
<1> QED
  BY Invariance, <1>1, PTL

-----------------------------------------------------------------------------
(* The state file implements ReleaseLedger *)

\* Manager.Write with its temporary file and its rename implements the ledger:
\* Helm's success and the rename are its steps, all else is invisible.
THEOREM ImplementsLedger == Spec => KeepsLedger
<1>1. Init => Ledger!Init
  BY DEF Init, NoFile, Ledger!Init
<1>2. IInv /\ [Next]_vars => [Ledger!Next]_(Ledger!vars)
  <2> SUFFICES ASSUME IInv, [Next]_vars
               PROVE  Ledger!Next \/ UNCHANGED Ledger!vars
    OBVIOUS
  <2>1. ASSUME NEW r \in Runs, HelmSucceeds(r) PROVE Ledger!Install(r)
    BY <2>1 DEF HelmSucceeds, RunInv, IInv, Ledger!Install
  <2>2. ASSUME NEW r \in Runs, Rename(r) PROVE Ledger!Record(r)
    <3>1. r \in installed \ recorded /\ tmp[r] = "whole"
      BY <2>2 DEF Rename, RunInv, IInv
    <3>2. file'.run = r /\ file'.whole
      BY <2>2, <3>1 DEF Rename
    <3> QED
      BY <2>2, <3>1, <3>2 DEF Rename, Ledger!Record
  <2>3. ASSUME NEW r \in Runs, ProgramStep(r), ~HelmSucceeds(r), ~Rename(r)
        PROVE  UNCHANGED Ledger!vars
    BY <2>3 DEF ProgramStep, Resolve, ResolveFails, PhaseStarts, StartEventFails,
       HelmFails, PhaseCompletes, CompletionEventFails, EnsureDirectory, CreateTemp,
       DirectoryFails, EncodeTemp, TempFails, ChmodState, ChmodFails, EmitOutput,
       OutputFails, Ledger!vars
  <2>4. ASSUME NEW r \in Runs, Reject(r) \/ Begin(r) \/ SinkBreaks(r) \/ Crash(r)
        PROVE  UNCHANGED Ledger!vars
    BY <2>4 DEF Reject, Begin, SinkBreaks, Crash, Ledger!vars
  <2>5. CASE UNCHANGED vars
    BY <2>5 DEF vars, Ledger!vars
  <2> QED
    BY <2>1, <2>2, <2>3, <2>4, <2>5 DEF Next, Ledger!Next
<1> QED
  BY Invariance, <1>1, <1>2, PTL DEF Spec, KeepsLedger, Ledger!Spec
=============================================================================
