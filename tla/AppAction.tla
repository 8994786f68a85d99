----------------------------- MODULE AppAction ------------------------------
(***************************************************************************)
(* `chainctl app install` and `chainctl app upgrade` (runAppAction): the   *)
(* chart is resolved, Helm is run inside a telemetry phase, the state file *)
(* is replaced (state.Manager.Write) and the outcome is logged and printed.*)
(*                                                                         *)
(* Each run is an operating-system process; several operators may act on   *)
(* the same release and state file, and a process may be killed anywhere.  *)
(* All runs target one release and one state file.                         *)
(***************************************************************************)
EXTENDS Naturals, Sequences

CONSTANTS Runs,   \* executions of the two commands
          NoRun

ASSUME NoRunAssumption == NoRun \notin Runs

VARIABLES
  pc,          \* where each run stands
  installer,   \* do the commands have a Helm installer (the shipped ones do not)?
  released,    \* the run whose release the cluster has
  installed,   \* the runs for which Installer.Install has returned nil
  writable,    \* can files be created in the state directory?
  tmp,         \* tmp[r]: the temporary file of r in the state directory
  file,        \* the state file: whose record it holds, and is it whole
  recorded,    \* runs whose record has been renamed onto the state file
  sink,        \* sink[r]: can r still write entries of the structured log?
  log,         \* log[r]: workflow entries of r in the structured log
  exit,        \* exit status of the run
  overlapped   \* have two runs ever been active at the same time?

vars ==
  <<pc, installer, released, installed, writable, tmp, file, recorded, sink, log, exit, overlapped>>

fileVars == <<writable, tmp, file, recorded>>
clusterVars == <<installer, released, installed>>

Idle == {"idle"}
Ended == {"done", "crashed"}
Active == {"resolve", "start", "helm", "complete", "directory", "temp", "encode",
           "rename", "chmod", "report"}

Entries == {"start", "success", "failure"}

NoFile == [run |-> NoRun, whole |-> FALSE]

TypeOK ==
  /\ pc \in [Runs -> Idle \cup Active \cup Ended]
  /\ installer \in BOOLEAN
  /\ released \in Runs \cup {NoRun}
  /\ installed \subseteq Runs
  /\ writable \in BOOLEAN
  /\ tmp \in [Runs -> {"none", "partial", "whole"}]
  /\ file \in [run : Runs \cup {NoRun}, whole : BOOLEAN]
  /\ recorded \subseteq Runs
  /\ sink \in [Runs -> {"open", "broken"}]
  /\ log \in [Runs -> Seq(Entries)]
  /\ exit \in [Runs -> {"none", "ok", "error", "killed"}]
  /\ overlapped \in BOOLEAN

Init ==
  /\ pc = [r \in Runs |-> "idle"]
  /\ installer \in BOOLEAN
  /\ released = NoRun
  /\ installed = {}
  /\ writable \in BOOLEAN
  /\ tmp = [r \in Runs |-> "none"]
  /\ file = NoFile
  /\ recorded = {}
  /\ sink = [r \in Runs |-> "open"]
  /\ log = [r \in Runs |-> << >>]
  /\ exit = [r \in Runs |-> "none"]
  /\ overlapped = FALSE

-----------------------------------------------------------------------------
(* Helpers *)

Step(r, from, to) == pc[r] = from /\ pc' = [pc EXCEPT ![r] = to]

\* The error of the write is dropped: an entry that cannot be written is lost.
Log(r, entry) ==
  log' = IF sink[r] = "open" THEN [log EXCEPT ![r] = Append(@, entry)] ELSE log

\* The run returns an error: the deferred function of runAppAction logs it.
Fail(r) ==
  /\ pc' = [pc EXCEPT ![r] = "done"]
  /\ exit' = [exit EXCEPT ![r] = "error"]
  /\ Log(r, "failure")

-----------------------------------------------------------------------------
(* Up to the Helm phase *)

\* Missing values file or endpoint, an invalid profile or state path, no
\* logger: the run ends before anything is logged or contacted.
Reject(r) ==
  /\ Step(r, "idle", "done")
  /\ exit' = [exit EXCEPT ![r] = "error"]
  /\ UNCHANGED <<clusterVars, fileVars, sink, log, overlapped>>

Begin(r) ==
  /\ Step(r, "idle", "resolve")
  /\ Log(r, "start")
  /\ overlapped' = (overlapped \/ \E q \in Runs : pc[q] \in Active)
  /\ UNCHANGED <<clusterVars, fileVars, sink, exit>>

\* resolveChartSource found a chart or a bundle.
Resolve(r) ==
  /\ Step(r, "resolve", "start")
  /\ UNCHANGED <<clusterVars, fileVars, sink, log, exit, overlapped>>

\* Conflicting or no sources, or the pull or the load failed.
ResolveFails(r) ==
  /\ pc[r] = "resolve"
  /\ Fail(r)
  /\ UNCHANGED <<clusterVars, fileVars, sink, overlapped>>

-----------------------------------------------------------------------------
(* The Helm phase: EmitPhase around Installer.Install *)

PhaseStarts(r) ==
  /\ Step(r, "start", "helm")
  /\ UNCHANGED <<clusterVars, fileVars, sink, log, exit, overlapped>>

\* The start event cannot be written: Helm is not run.
StartEventFails(r) ==
  /\ pc[r] = "start"
  /\ Fail(r)
  /\ UNCHANGED <<clusterVars, fileVars, sink, overlapped>>

\* Without an installer the noopInstaller succeeds and nothing is released.
HelmSucceeds(r) ==
  /\ Step(r, "helm", "complete")
  /\ released' = IF installer THEN r ELSE released
  /\ installed' = installed \cup {r}
  /\ UNCHANGED <<installer, fileVars, sink, log, exit, overlapped>>

HelmFails(r) ==
  /\ pc[r] = "helm"
  /\ Fail(r)
  /\ UNCHANGED <<clusterVars, fileVars, sink, overlapped>>

PhaseCompletes(r) ==
  /\ Step(r, "complete", "directory")
  /\ UNCHANGED <<clusterVars, fileVars, sink, log, exit, overlapped>>

\* The completion event cannot be written: Helm's success becomes an error.
CompletionEventFails(r) ==
  /\ pc[r] = "complete"
  /\ Fail(r)
  /\ UNCHANGED <<clusterVars, fileVars, sink, overlapped>>

-----------------------------------------------------------------------------
(* The state file: Manager.Write *)

\* The directory exists or was created.
EnsureDirectory(r) ==
  /\ Step(r, "directory", "temp")
  /\ UNCHANGED <<clusterVars, fileVars, sink, log, exit, overlapped>>

CreateTemp(r) ==
  /\ writable
  /\ Step(r, "temp", "encode")
  /\ tmp' = [tmp EXCEPT ![r] = "partial"]
  /\ UNCHANGED <<clusterVars, writable, file, recorded, sink, log, exit, overlapped>>

DirectoryFails_ignored(r) ==
  /\ pc[r] \in {"directory", "temp"}
  /\ pc' = [pc EXCEPT ![r] = "report"]
  /\ Log(r, "success")
  /\ UNCHANGED <<clusterVars, fileVars, sink, exit, overlapped>>

DirectoryFails_shadowedErr(r) ==
  /\ pc[r] \in {"directory", "temp"}
  /\ pc' = [pc EXCEPT ![r] = "done"]
  /\ exit' = [exit EXCEPT ![r] = "error"]
  /\ UNCHANGED <<clusterVars, fileVars, sink, log, overlapped>>

\* Stat, MkdirAll, Chmod or CreateTemp failed: there is no temporary file.
DirectoryFails(r) ==
  /\ pc[r] \in {"directory", "temp"}
  /\ Fail(r)
  /\ UNCHANGED <<clusterVars, fileVars, sink, overlapped>>

\* Chmod, encode and close the temporary file.
EncodeTemp(r) ==
  /\ Step(r, "encode", "rename")
  /\ tmp' = [tmp EXCEPT ![r] = "whole"]
  /\ UNCHANGED <<clusterVars, writable, file, recorded, sink, log, exit, overlapped>>

TempFails_renamesAnyway(r) ==
  /\ Step(r, "encode", "rename")
  /\ UNCHANGED <<clusterVars, fileVars, sink, log, exit, overlapped>>

TempFails_keepsTemp(r) ==
  /\ pc[r] \in {"encode", "rename"}
  /\ Fail(r)
  /\ UNCHANGED <<clusterVars, fileVars, sink, overlapped>>

\* Chmod, encode, close or rename failed: the deferred Remove takes the
\* temporary file away.
TempFails(r) ==
  /\ pc[r] \in {"encode", "rename"}
  /\ tmp' = [tmp EXCEPT ![r] = "none"]
  /\ Fail(r)
  /\ UNCHANGED <<clusterVars, writable, file, recorded, sink, overlapped>>

Rename_keepsExisting(r) ==
  /\ Step(r, "rename", "chmod")
  /\ file' = IF file = NoFile THEN [run |-> r, whole |-> tmp[r] = "whole"] ELSE file
  /\ tmp' = [tmp EXCEPT ![r] = "none"]
  /\ recorded' = recorded \cup {r}
  /\ UNCHANGED <<clusterVars, writable, sink, log, exit, overlapped>>

Rename_dropsRun(r) ==
  /\ Step(r, "rename", "chmod")
  /\ file' = [whole |-> tmp[r] = "whole"]
  /\ tmp' = [tmp EXCEPT ![r] = "none"]
  /\ recorded' = recorded \cup {r}
  /\ UNCHANGED <<clusterVars, writable, sink, log, exit, overlapped>>

Rename(r) ==
  /\ Step(r, "rename", "chmod")
  /\ file' = [run |-> r, whole |-> tmp[r] = "whole"]
  /\ tmp' = [tmp EXCEPT ![r] = "none"]
  /\ recorded' = recorded \cup {r}
  /\ UNCHANGED <<clusterVars, writable, sink, log, exit, overlapped>>

\* The mode of the state file is set once more, and the success is logged.
ChmodState(r) ==
  /\ Step(r, "chmod", "report")
  /\ Log(r, "success")
  /\ UNCHANGED <<clusterVars, fileVars, sink, exit, overlapped>>

\* The last Chmod fails: an error, although the file has been replaced.
ChmodFails(r) ==
  /\ pc[r] = "chmod"
  /\ Fail(r)
  /\ UNCHANGED <<clusterVars, fileVars, sink, overlapped>>

-----------------------------------------------------------------------------
(* The report, and the end of a run *)

EmitOutput(r) ==
  /\ Step(r, "report", "done")
  /\ exit' = [exit EXCEPT ![r] = "ok"]
  /\ UNCHANGED <<clusterVars, fileVars, sink, log, overlapped>>

\* Unknown output format, or the JSON cannot be written.
OutputFails(r) ==
  /\ pc[r] = "report"
  /\ Fail(r)
  /\ UNCHANGED <<clusterVars, fileVars, sink, overlapped>>

\* A write of the structured log fails; its json.Encoder then refuses all later
\* ones. The events of EmitPhase have an encoder of their own, and fail for
\* themselves.
SinkBreaks(r) ==
  /\ pc[r] \in Idle \cup Active /\ sink[r] = "open"
  /\ sink' = [sink EXCEPT ![r] = "broken"]
  /\ UNCHANGED <<pc, clusterVars, fileVars, log, exit, overlapped>>

\* The process is killed (a signal, or SIGPIPE on a closed stderr).
Crash(r) ==
  /\ pc[r] \in Active
  /\ pc' = [pc EXCEPT ![r] = "crashed"]
  /\ exit' = [exit EXCEPT ![r] = "killed"]
  /\ UNCHANGED <<clusterVars, fileVars, sink, log, overlapped>>

-----------------------------------------------------------------------------
\* A step of the program itself, once it has begun.
ProgramStep(r) ==
  \/ Resolve(r) \/ ResolveFails(r)
  \/ PhaseStarts(r) \/ StartEventFails(r)
  \/ HelmSucceeds(r) \/ HelmFails(r)
  \/ PhaseCompletes(r) \/ CompletionEventFails(r)
  \/ EnsureDirectory(r) \/ CreateTemp(r) \/ DirectoryFails(r)
  \/ EncodeTemp(r) \/ TempFails(r) \/ Rename(r)
  \/ ChmodState(r) \/ ChmodFails(r)
  \/ EmitOutput(r) \/ OutputFails(r)

Next == \E r \in Runs : Reject(r) \/ Begin(r) \/ ProgramStep(r) \/ SinkBreaks(r) \/ Crash(r)

Spec == Init /\ [][Next]_vars

-----------------------------------------------------------------------------
(* Properties *)

\* Is there such an entry in the log of r?
Says(r, entry) == \E i \in DOMAIN log[r] : log[r][i] = entry

NobodyActive == \A r \in Runs : pc[r] \notin Active

\* Manager.Write's temporary file and rename make the state file a register:
\* whatever crashes and whoever else writes, it steps from one whole record
\* to the next, and only to records of runs that were installed.
Ledger == INSTANCE ReleaseLedger WITH
  entry <- IF file.run \in Runs /\ ~file.whole THEN <<"torn", file.run>> ELSE file.run

KeepsLedger == Ledger!Spec

\* A run that exits with success was installed and recorded, and the state file
\* holds a whole record from then on. With an installer the cluster then has the
\* release of a run that was installed; the shipped no-op releases nothing.
SuccessIsRecorded ==
  \A r \in Runs : exit[r] = "ok" =>
    /\ r \in installed \cap recorded
    /\ released \in IF installer THEN installed ELSE {NoRun}
    /\ file.run \in recorded /\ file.whole

\* As long as operators act one at a time, the state file tells what the
\* cluster runs whenever the last release was reported as a success.
SerialRunsKeepRecordCurrent ==
  (NobodyActive /\ ~overlapped /\ released /= NoRun) =>
    (exit[released] = "ok" => file.run = released)

\* The structured log never contradicts the exit status: whichever writes fail,
\* a success entry stands for a record in the state file and a failure entry for
\* an error; and while no write fails the log has the outcome of every run that
\* began. A rejected run leaves no entry.
LogTellsExit ==
  \A r \in Runs :
    /\ Says(r, "success") => r \in recorded
    /\ Says(r, "failure") => exit[r] = "error"
    /\ sink[r] = "open" =>
         /\ exit[r] = "ok" => log[r] = <<"start", "success">>
         /\ exit[r] = "error" /\ log[r] /= << >> => log[r][Len(log[r])] = "failure"

\* A run that ends by itself, at whatever point of Manager.Write it fails, leaves
\* no temporary file in the state directory.
NoStrayTemp == \A r \in Runs : pc[r] = "done" => tmp[r] = "none"

-----------------------------------------------------------------------------
(* What the safety properties rest on: their inductive strengthening *)

BeforeRelease == {"resolve", "start", "helm"}
BeforeRename == {"complete", "directory", "temp", "encode", "rename"}

\* What a run has done by where it stands: its log, its temporary file, and
\* whether Helm and the rename have succeeded.
RunInv ==
  \A r \in Runs :
    /\ exit[r] = "ok" => pc[r] = "done" /\ r \in recorded
    /\ pc[r] \in Idle \cup Active => exit[r] = "none"
    /\ pc[r] = "idle" => log[r] = << >>
    /\ sink[r] = "open" =>
         /\ pc[r] \in BeforeRelease \cup BeforeRename \cup {"chmod"} => log[r] = <<"start">>
         /\ pc[r] = "report" => log[r] = <<"start", "success">>
    /\ pc[r] \in Idle \cup BeforeRelease => r \notin installed
    /\ pc[r] \in BeforeRename => r \in installed \ recorded
    /\ pc[r] \in {"chmod", "report"} => r \in recorded
    /\ pc[r] = "rename" => tmp[r] = "whole"
    /\ pc[r] \notin {"encode", "rename", "crashed"} => tmp[r] = "none"

\* The state file holds a whole record of a run that was renamed onto it.
FileInv ==
  /\ recorded \subseteq installed
  /\ file.run \in recorded \cup {NoRun}
  /\ recorded /= {} => file.run \in recorded /\ file.whole

\* One operator at a time: nobody but the run last released has got past Helm,
\* and once it has renamed its record the file is its own.
SerialInv ==
  /\ released \in installed \cup {NoRun}
  /\ ~installer => released = NoRun
  /\ installer /\ installed /= {} => released /= NoRun
  /\ ~overlapped =>
       /\ \A q, r \in Runs : pc[q] \in Active /\ pc[r] \in Active => q = r
       /\ released /= NoRun =>
            /\ \A r \in Runs : pc[r] \in Active \ BeforeRelease => r = released
            /\ pc[released] \in {"chmod", "report"} \/ exit[released] = "ok" =>
                 file.run = released

IInv ==
  /\ TypeOK
  /\ RunInv
  /\ FileInv
  /\ SerialInv
  /\ LogTellsExit
=============================================================================
