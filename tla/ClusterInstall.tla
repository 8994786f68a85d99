--------------------------- MODULE ClusterInstall ---------------------------
(***************************************************************************)
(* `chainctl cluster install` (runInstall): preflight, validation of a     *)
(* cluster that is to be reused, the air-gapped bundle, then the bootstrap *)
(* phase (k3s install script and a wait) and the Helm phase, each between  *)
(* the events of EmitPhase, with the structured log that tells of them.    *)
(* Executions share one host and one cluster; a script, Helm or the        *)
(* command itself may fail or die anywhere, and the log may fill its disk. *)
(***************************************************************************)
EXTENDS Naturals, Sequences

CONSTANTS Installs,   \* executions of `cluster install`
          OptionSets, \* the command lines they are given
          DepSets     \* the dependencies they may be built with

\* bootstrap, endpoint, values, airgapped, bundle, dryRun: whether the flag is
\* given; output: whether its format is one emitOutput knows.
ASSUME OptionsAssumption ==
  OptionSets \subseteq [bootstrap : BOOLEAN, endpoint : BOOLEAN, values : BOOLEAN,
                        airgapped : BOOLEAN, bundle : BOOLEAN, dryRun : BOOLEAN,
                        output : BOOLEAN]

\* What a HostConfig of this command asks of the host.
Requirements == {"cpu", "memory", "modules", "sudo"}

Phases == {"bootstrap", "helm"}

\* What the check of a cluster to be reused rests on: the answer of the cluster
\* that the default kubeconfig leads to, which need not be the one that the
\* endpoint names, or a loader that returns no configuration.
Answers == {"cluster", "no config"}

\* A dependency that does nothing (the shipped ones), one that acts, and one
\* that acts and logs its commands (Orchestrator, helm.Installer).
Kinds == {"noop", "plain", "logging"}

ASSUME DepsAssumption == DepSets \subseteq [Phases -> Kinds]

VARIABLES
  deps,    \* the kind of the Bootstrapper and of the HelmInstaller
  host,    \* the requirements this host meets
  k3s,     \* the cluster's control plane
  applied, \* installs whose Helm release the cluster has taken
  opts,    \* the options of each install
  pc,      \* where it stands
  checked, \* the checks it has passed (history)
  ran,     \* how its command of each phase ended, if it was run (history)
  result,  \* what the function of the current phase returns
  log,     \* its structured log
  sink,    \* the writer its events and log entries go to
  exit     \* its exit status

vars == <<deps, host, k3s, applied, opts, pc, checked, ran, result, log, sink, exit>>

world == <<deps, host, k3s, applied>>

NoOptions == [bootstrap |-> FALSE, endpoint |-> FALSE, values |-> FALSE, airgapped |-> FALSE,
              bundle |-> FALSE, dryRun |-> FALSE, output |-> FALSE]

Entries ==
  ({"install"} \X {"started", "completed", "failed"})
    \cup ({"bootstrap phase", "helm phase", "bootstrap command", "helm command"}
            \X {"started", "ok", "error"})

TypeOK ==
  /\ deps \in DepSets
  /\ host \subseteq Requirements
  /\ k3s \in {"absent", "starting", "ready"}
  /\ applied \subseteq Installs
  /\ opts \in [Installs -> OptionSets \cup {NoOptions}]
  /\ pc \in [Installs -> ({"install"} \X {"idle", "cluster", "bundle", "plan", "finish", "output",
                                          "done", "gone", "orphan"})
                           \cup (Phases \X {"start", "run", "command", "wait", "end"})]
  /\ checked \in [Installs -> SUBSET ({"host", "bundle"} \cup Answers)]
  /\ ran \in [Installs -> [Phases -> {"no", "ok", "error"}]]
  /\ result \in [Installs -> {"ok", "error"}]
  /\ log \in [Installs -> Seq(Entries)] /\ \A i \in Installs : Len(log[i]) <= 11
  /\ sink \in [Installs -> {"open", "full"}]
  /\ exit \in [Installs -> {"none", "ok", "error"}]

Init ==
  /\ deps \in DepSets
  /\ host \in {Requirements, Requirements \ {"sudo"}}
  /\ k3s \in {"absent", "ready"}
  /\ applied = {}
  /\ opts = [i \in Installs |-> NoOptions]
  /\ pc = [i \in Installs |-> <<"install", "idle">>]
  /\ checked = [i \in Installs |-> {}]
  /\ ran = [i \in Installs |-> [p \in Phases |-> "no"]]
  /\ result = [i \in Installs |-> "ok"]
  /\ log = [i \in Installs |-> <<>>]
  /\ sink = [i \in Installs |-> "open"]
  /\ exit = [i \in Installs |-> "none"]

-----------------------------------------------------------------------------
(* Helpers *)

At(i, part, stage) == pc[i] = <<part, stage>>

Goto(i, label) == pc' = [pc EXCEPT ![i] = label]

\* Entries for the log; an error of the writer is ignored.
Log(i, entries) ==
  log' = IF sink[i] = "open" THEN [log EXCEPT ![i] = @ \o entries] ELSE log

NoEntry == <<>>

PhaseName(p) == IF p = "bootstrap" THEN "bootstrap phase" ELSE "helm phase"

CommandName(p) == IF p = "bootstrap" THEN "bootstrap command" ELSE "helm command"

Mode(o) == IF ~o.bootstrap \/ o.endpoint THEN "reuse" ELSE "bootstrap"

\* validateInstallOptions, then LoadOptions.Validate.
Valid(o) ==
  /\ o.values
  /\ Mode(o) = "reuse" => o.endpoint
  /\ o.airgapped => o.bundle

ValidateHost == host = Requirements

\* The command returns an error, which the deferred function logs.
Fail(i, entries) ==
  /\ Log(i, entries \o <<<<"install", "failed">>>>)
  /\ exit' = [exit EXCEPT ![i] = "error"]
  /\ Goto(i, <<"install", "done">>)

-----------------------------------------------------------------------------
(* Before anything is changed *)

\* Options, host, emitter: nothing is logged of what goes wrong here.
Reject(i) ==
  /\ At(i, "install", "idle")
  /\ \E o \in OptionSets :
       /\ ~Valid(o) \/ ~ValidateHost
       /\ opts' = [opts EXCEPT ![i] = o]
  /\ exit' = [exit EXCEPT ![i] = "error"]
  /\ Goto(i, <<"install", "done">>)
  /\ UNCHANGED <<world, checked, ran, result, log, sink>>

Begin(i) ==
  /\ At(i, "install", "idle")
  /\ ValidateHost
  /\ \E o \in OptionSets :
       /\ Valid(o)
       /\ opts' = [opts EXCEPT ![i] = o]
  /\ checked' = [checked EXCEPT ![i] = {"host"}]
  /\ Log(i, <<<<"install", "started">>>>)
  /\ Goto(i, <<"install", "cluster">>)
  /\ UNCHANGED <<world, ran, result, sink, exit>>

\* In reuse mode the cluster of the kubeconfig answers with its version; the
\* endpoint is not looked at. Without a configuration nobody is asked.
ValidateExistingCluster(i) ==
  /\ At(i, "install", "cluster")
  /\ \/ Mode(opts[i]) = "bootstrap" /\ UNCHANGED checked
     \/ /\ Mode(opts[i]) = "reuse"
        /\ \E answer \in Answers : checked' = [checked EXCEPT ![i] = @ \cup {answer}]
  /\ Goto(i, <<"install", "bundle">>)
  /\ UNCHANGED <<world, opts, ran, result, log, sink, exit>>

\* The kubeconfig cannot be loaded, or its cluster does not answer.
ClusterInvalid(i) ==
  /\ At(i, "install", "cluster")
  /\ Mode(opts[i]) = "reuse"
  /\ Fail(i, NoEntry)
  /\ UNCHANGED <<world, opts, checked, ran, result, sink>>

\* An air-gapped install loads its bundle (see BundleCache).
PrepareBundle(i) ==
  /\ At(i, "install", "bundle")
  /\ checked' = [checked EXCEPT ![i] = IF opts[i].airgapped THEN @ \cup {"bundle"} ELSE @]
  /\ Goto(i, <<"install", "plan">>)
  /\ UNCHANGED <<world, opts, ran, result, log, sink, exit>>

BundleRejected_ignored(i) ==
  /\ At(i, "install", "bundle")
  /\ opts[i].airgapped
  /\ Goto(i, <<"install", "plan">>)
  /\ UNCHANGED <<world, opts, checked, ran, result, log, sink, exit>>

BundleRejected(i) ==
  /\ At(i, "install", "bundle")
  /\ opts[i].airgapped
  /\ Fail(i, NoEntry)
  /\ UNCHANGED <<world, opts, checked, ran, result, sink>>

\* A dry run logs the commands it would run, unless the components log theirs.
DryRun(i) ==
  LET planned(p) == IF deps[p] = "logging" THEN NoEntry ELSE <<<<CommandName(p), "ok">>>> IN
  /\ At(i, "install", "plan")
  /\ opts[i].dryRun
  /\ Log(i, (IF Mode(opts[i]) = "bootstrap" THEN planned("bootstrap") ELSE NoEntry)
              \o planned("helm") \o <<<<"install", "completed">>>>)
  /\ Goto(i, <<"install", "output">>)
  /\ UNCHANGED <<world, opts, checked, ran, result, sink, exit>>

Proceed(i) ==
  /\ At(i, "install", "plan")
  /\ ~opts[i].dryRun
  /\ Goto(i, <<"bootstrap", "start">>)
  /\ UNCHANGED <<world, opts, checked, ran, result, log, sink, exit>>

-----------------------------------------------------------------------------
(* The phases: EmitPhase around the phase's function *)

\* The command entry of a component that does not log its commands; the
\* bootstrap phase of a reused cluster has no command.
CommandEntry(i, p, outcome) ==
  IF deps[p] = "logging" \/ (p = "bootstrap" /\ Mode(opts[i]) = "reuse")
  THEN NoEntry ELSE <<<<CommandName(p), outcome>>>>

PhaseStarts(i, p) ==
  /\ At(i, p, "start")
  /\ sink[i] = "open"
  /\ Log(i, <<<<PhaseName(p), "started">>>>)
  /\ Goto(i, <<p, "run">>)
  /\ UNCHANGED <<world, opts, checked, ran, result, sink, exit>>

\* The event cannot be written: the phase does not run, the install fails.
StartEventFails(i, p) ==
  /\ At(i, p, "start")
  /\ sink[i] = "full"
  /\ Fail(i, <<<<PhaseName(p), "started">>>> \o CommandEntry(i, p, "error"))
  /\ UNCHANGED <<world, opts, checked, ran, result, sink>>

\* The phase's function returns: its outcome is what it is.
Return(i, p, outcome) ==
  /\ result' = [result EXCEPT ![i] = outcome]
  /\ Goto(i, <<p, "end">>)

After(p) == IF p = "bootstrap" THEN <<"helm", "start">> ELSE <<"install", "finish">>

PhaseEnds_logsTwice(i, p) ==
  /\ At(i, p, "end")
  /\ result[i] = "ok" /\ sink[i] = "open"
  /\ Log(i, <<<<PhaseName(p), "ok">>, <<CommandName(p), "ok">>>>)
  /\ Goto(i, After(p))
  /\ UNCHANGED <<world, opts, checked, ran, result, sink, exit>>

PhaseEnds(i, p) ==
  /\ At(i, p, "end")
  /\ result[i] = "ok" /\ sink[i] = "open"
  /\ Log(i, <<<<PhaseName(p), "ok">>>> \o CommandEntry(i, p, "ok"))
  /\ Goto(i, After(p))
  /\ UNCHANGED <<world, opts, checked, ran, result, sink, exit>>

PhaseFails_retries(i, p) ==
  /\ At(i, p, "end")
  /\ result[i] = "error"
  /\ Log(i, <<<<PhaseName(p), "error">>>>)
  /\ Goto(i, <<p, "start">>)
  /\ UNCHANGED <<world, opts, checked, ran, result, sink, exit>>

PhaseFails_goesOn(i, p) ==
  /\ At(i, p, "end")
  /\ result[i] = "error" \/ sink[i] = "full"
  /\ Log(i, <<<<PhaseName(p), result[i]>>>> \o CommandEntry(i, p, "error"))
  /\ Goto(i, After(p))
  /\ UNCHANGED <<world, opts, checked, ran, result, sink, exit>>

\* The function has failed, or its completion event cannot be written.
PhaseFails(i, p) ==
  /\ At(i, p, "end")
  /\ result[i] = "error" \/ sink[i] = "full"
  /\ Fail(i, <<<<PhaseName(p), result[i]>>>> \o CommandEntry(i, p, "error"))
  /\ UNCHANGED <<world, opts, checked, ran, result, sink>>

-----------------------------------------------------------------------------
(* What a phase does *)

\* A reused cluster needs no bootstrap.
NothingToBootstrap(i) ==
  /\ At(i, "bootstrap", "run")
  /\ Mode(opts[i]) = "reuse"
  /\ Return(i, "bootstrap", "ok")
  /\ UNCHANGED <<world, opts, checked, ran, log, sink, exit>>

\* The Orchestrator is not told which script to run, or its checksum.
ScriptMissing(i) ==
  /\ At(i, "bootstrap", "run")
  /\ Mode(opts[i]) = "bootstrap" /\ deps["bootstrap"] = "logging"
  /\ Return(i, "bootstrap", "error")
  /\ UNCHANGED <<world, opts, checked, ran, log, sink, exit>>

\* The command of a phase is started; a script may stop before it installs.
RunCommand(i, p) ==
  /\ At(i, p, "run")
  /\ p = "bootstrap" => Mode(opts[i]) = "bootstrap"
  /\ \/ UNCHANGED k3s
     \/ p = "bootstrap" /\ deps[p] /= "noop" /\ k3s' = "starting"
  /\ Log(i, IF deps[p] = "logging" THEN <<<<CommandName(p), "started">>>> ELSE NoEntry)
  /\ Goto(i, <<p, "command">>)
  /\ UNCHANGED <<deps, host, applied, opts, checked, ran, result, sink, exit>>

\* The outcome of a command, in the log of a component that keeps one.
CommandReturns(i, p, outcome) ==
  /\ ran' = [ran EXCEPT ![i][p] = outcome]
  /\ Log(i, IF deps[p] = "logging" THEN <<<<CommandName(p), outcome>>>> ELSE NoEntry)

ScriptSucceeds(i) ==
  /\ At(i, "bootstrap", "command")
  /\ deps["bootstrap"] /= "noop" => k3s /= "absent"
  /\ CommandReturns(i, "bootstrap", "ok")
  /\ IF deps["bootstrap"] = "logging" THEN Goto(i, <<"bootstrap", "wait">>) /\ UNCHANGED result
     ELSE Return(i, "bootstrap", "ok")
  /\ UNCHANGED <<world, opts, checked, sink, exit>>

WaitForCluster_untilReady(i) ==
  /\ At(i, "bootstrap", "wait")
  /\ k3s = "ready"
  /\ Return(i, "bootstrap", "ok")
  /\ UNCHANGED <<world, opts, checked, ran, log, sink, exit>>

\* defaultWaiter sleeps two seconds, whatever the timeout and the cluster.
WaitForCluster(i) ==
  /\ At(i, "bootstrap", "wait")
  /\ Return(i, "bootstrap", "ok")
  /\ UNCHANGED <<world, opts, checked, ran, log, sink, exit>>

\* The error of a Waiter that an Orchestrator was built with; the default one
\* has none.
WaitFails(i) ==
  /\ At(i, "bootstrap", "wait")
  /\ Return(i, "bootstrap", "error")
  /\ UNCHANGED <<world, opts, checked, ran, log, sink, exit>>

\* Helm needs the API; an executor that does nothing needs nothing.
HelmSucceeds(i) ==
  /\ At(i, "helm", "command")
  /\ IF deps["helm"] = "noop" THEN UNCHANGED applied
     ELSE k3s = "ready" /\ applied' = applied \cup {i}
  /\ CommandReturns(i, "helm", "ok")
  /\ Return(i, "helm", "ok")
  /\ UNCHANGED <<deps, host, k3s, opts, checked, sink, exit>>

\* A command fails; Helm may have changed the release by then.
CommandFails(i, p) ==
  /\ At(i, p, "command")
  /\ deps[p] /= "noop"
  /\ applied' \in {applied, IF p = "helm" /\ k3s = "ready" THEN applied \cup {i} ELSE applied}
  /\ CommandReturns(i, p, "error")
  /\ Return(i, p, "error")
  /\ UNCHANGED <<deps, host, k3s, opts, checked, sink, exit>>

-----------------------------------------------------------------------------
(* The end *)

Finish(i) ==
  /\ At(i, "install", "finish")
  /\ Log(i, <<<<"install", "completed">>>>)
  /\ Goto(i, <<"install", "output">>)
  /\ UNCHANGED <<world, opts, checked, ran, result, sink, exit>>

EmitOutput(i) ==
  /\ At(i, "install", "output")
  /\ opts[i].output
  /\ exit' = [exit EXCEPT ![i] = "ok"]
  /\ Goto(i, <<"install", "done">>)
  /\ UNCHANGED <<world, opts, checked, ran, result, log, sink>>

OutputFails_notLogged(i) ==
  /\ At(i, "install", "output")
  /\ ~opts[i].output \/ sink[i] = "full"
  /\ exit' = [exit EXCEPT ![i] = "error"]
  /\ Goto(i, <<"install", "done">>)
  /\ UNCHANGED <<world, opts, checked, ran, result, log, sink>>

\* Only now is an unknown output format noticed, and JSON needs the writer.
OutputFails(i) ==
  /\ At(i, "install", "output")
  /\ ~opts[i].output \/ sink[i] = "full"
  /\ Fail(i, NoEntry)
  /\ UNCHANGED <<world, opts, checked, ran, result, sink>>

-----------------------------------------------------------------------------
(* The environment *)

Running(i) == pc[i] \notin {"install"} \X {"idle", "done", "gone", "orphan"}

\* The process is killed; a Helm that it has started goes on without it.
Crash(i) ==
  /\ Running(i)
  /\ Goto(i, <<"install", IF At(i, "helm", "command") /\ deps["helm"] /= "noop" THEN "orphan" ELSE "gone">>)
  /\ UNCHANGED <<world, opts, checked, ran, result, log, sink, exit>>

\* That Helm ends, with or without the release, and nobody hears of it.
OrphanEnds(i) ==
  /\ At(i, "install", "orphan")
  /\ applied' \in {applied, IF k3s = "ready" THEN applied \cup {i} ELSE applied}
  /\ Goto(i, <<"install", "gone">>)
  /\ UNCHANGED <<deps, host, k3s, opts, checked, ran, result, log, sink, exit>>

\* The disk that takes the log is full from now on.
SinkFills(i) ==
  /\ Running(i)
  /\ sink[i] = "open"
  /\ sink' = [sink EXCEPT ![i] = "full"]
  /\ UNCHANGED <<world, opts, pc, checked, ran, result, log, exit>>

\* The control plane comes up, and may go down again.
K3sStarts ==
  /\ k3s = "starting"
  /\ k3s' = "ready"
  /\ UNCHANGED <<deps, host, applied, opts, pc, checked, ran, result, log, sink, exit>>

K3sRestarts ==
  /\ k3s = "ready"
  /\ k3s' = "starting"
  /\ UNCHANGED <<deps, host, applied, opts, pc, checked, ran, result, log, sink, exit>>

-----------------------------------------------------------------------------
InstallStep(i) ==
  \/ Reject(i) \/ Begin(i) \/ ValidateExistingCluster(i) \/ ClusterInvalid(i)
  \/ PrepareBundle(i) \/ BundleRejected(i) \/ DryRun(i) \/ Proceed(i)
  \/ \E p \in Phases :
       \/ PhaseStarts(i, p) \/ StartEventFails(i, p) \/ RunCommand(i, p)
       \/ CommandFails(i, p) \/ PhaseEnds(i, p) \/ PhaseFails(i, p)
  \/ NothingToBootstrap(i) \/ ScriptMissing(i) \/ ScriptSucceeds(i) \/ WaitForCluster(i)
  \/ HelmSucceeds(i) \/ Finish(i) \/ EmitOutput(i) \/ OutputFails(i)

Next ==
  \/ \E i \in Installs : InstallStep(i) \/ WaitFails(i) \/ Crash(i) \/ OrphanEnds(i) \/ SinkFills(i)
  \/ K3sStarts \/ K3sRestarts

Spec == Init /\ [][Next]_vars

\* A process that lives goes on, and the commands it runs end; no Waiter has to
\* fail.
FairSpec == Spec /\ \A i \in Installs : WF_vars(InstallStep(i))

-----------------------------------------------------------------------------
(* Properties *)

Ended(i) == At(i, "install", "done") /\ log[i] /= <<>>

\* An install that reports success has done it: Helm has succeeded, after the
\* k3s script if a cluster was to be made: no failure of a step, an event that
\* cannot be written included, is lost on the way to the exit status.
SuccessIsInstalled ==
  \A i \in Installs : exit[i] = "ok" /\ ~opts[i].dryRun =>
    /\ ran[i]["helm"] = "ok"
    /\ deps["helm"] /= "noop" => i \in applied
    /\ Mode(opts[i]) = "bootstrap" => ran[i]["bootstrap"] = "ok"

\* The promise of StagedInstall, through failures anywhere, other installs and a
\* control plane that comes and goes: each command that the options call for is
\* run at most once, Helm after the script, and success means that all of them
\* have succeeded; a dry run runs none.
Promise == INSTANCE StagedInstall WITH
  Commands <- Phases,
  acts <- deps["helm"] /= "noop",
  task <- [i \in Installs |-> IF checked[i] = {} THEN "unknown"
                              ELSE IF opts[i].dryRun THEN "dry run" ELSE Mode(opts[i])],
  released <- applied

InstallsAsPromised == Promise!Spec

\* No command is run before the checks that its options call for have passed:
\* the host, the bundle, and for a cluster that is reused the cluster of the
\* kubeconfig, if the loader returned one to ask; and a dry run runs none.
CheckedBeforeChanges ==
  \A i \in Installs, p \in Phases : At(i, p, "command") \/ ran[i][p] /= "no" =>
    /\ ~opts[i].dryRun
    /\ "host" \in checked[i]
    /\ opts[i].airgapped => "bundle" \in checked[i]
    /\ Mode(opts[i]) = "reuse" => checked[i] \cap Answers /= {}

\* Where a log tells how the command of phase p ended.
Outcomes(entries, p) ==
  {n \in 1 .. Len(entries) : entries[n] \in {CommandName(p)} \X {"ok", "error"}}

Silent(entries, p) == Outcomes(entries, p) = {}

Tells(entries, p, outcome) ==
  \E n \in 1 .. Len(entries) :
    Outcomes(entries, p) = {n} /\ entries[n] = <<CommandName(p), outcome>>

\* Once and with its outcome if the command of p was run, else not at all.
Logged(i, p) ==
  IF ran[i][p] = "no" THEN Silent(log[i], p) ELSE Tells(log[i], p, ran[i][p])

\* Whichever component keeps the log of its commands, an install that has
\* ended and could write its log has logged every command it ran, once and
\* with its outcome, and none that it did not run.
CommandsLoggedOnce ==
  \A i \in Installs, p \in Phases :
    Ended(i) /\ sink[i] = "open" /\ ~opts[i].dryRun => Logged(i, p)

\* The last entry of a log that could be written tells the exit status, even
\* of an install that had logged its completion before it failed.
LastEntryTellsExit ==
  \A i \in Installs : Ended(i) /\ sink[i] = "open" =>
    log[i][Len(log[i])] = <<"install", IF exit[i] = "ok" THEN "completed" ELSE "failed">>

\* An install ends, whether or not the cluster it made ever becomes ready.
EveryInstallEnds == \A i \in Installs : Running(i) ~> ~Running(i)

\* What the contract says of --bootstrap: install k3s and wait for the API to
\* be ready.
WaitsForReady ==
  [][ \A i \in Installs :
        At(i, "bootstrap", "wait") /\ pc'[i] = <<"bootstrap", "end">> /\ result'[i] = "ok"
          => k3s = "ready" ]_vars

-----------------------------------------------------------------------------
(* The inductive invariant, of one install at a time *)

InPhase(i) == pc[i][1] \in Phases

\* What has been checked where an install stands.
CheckInv(i) ==
  /\ At(i, "install", "idle") => checked[i] = {}
  /\ Running(i) \/ At(i, "install", "orphan") => "host" \in checked[i]
  /\ Running(i) /\ ~At(i, "install", "cluster") /\ Mode(opts[i]) = "reuse" => checked[i] \cap Answers /= {}
  /\ Running(i) /\ pc[i] \notin {"install"} \X {"cluster", "bundle"} /\ opts[i].airgapped
       => "bundle" \in checked[i]
  /\ InPhase(i) \/ At(i, "install", "finish") => ~opts[i].dryRun

\* Both commands have been run, if there were two to run, and have succeeded.
Done(i) ==
  /\ ran[i]["helm"] = "ok"
  /\ deps["helm"] /= "noop" => i \in applied
  /\ Mode(opts[i]) = "bootstrap" => ran[i]["bootstrap"] = "ok"

\* The phase's function has returned what its command did, if it ran one.
ReturnInv(i, p) ==
  At(i, p, "end") =>
    \/ /\ ran[i][p] = result[i]
       /\ p = "bootstrap" => Mode(opts[i]) = "bootstrap"
       /\ p = "helm" /\ result[i] = "ok" /\ deps[p] /= "noop" => i \in applied
    \/ ran[i][p] = "no" /\ result[i] = "ok" /\ p = "bootstrap" /\ Mode(opts[i]) = "reuse"
    \/ ran[i][p] = "no" /\ result[i] = "error" /\ deps[p] = "logging"
    \/ /\ ran[i][p] = "ok" /\ result[i] = "error" /\ p = "bootstrap"
       /\ Mode(opts[i]) = "bootstrap" /\ deps[p] = "logging"

\* Which commands have been run.
RanInv(i) ==
  /\ pc[i] \in ({"install"} \X {"idle", "cluster", "bundle", "plan"})
                 \cup ({"bootstrap"} \X {"start", "run", "command"})
       => ran[i]["bootstrap"] = "no"
  /\ pc[i] \in ({"install"} \X {"idle", "cluster", "bundle", "plan"})
                 \cup ({"bootstrap"} \X {"start", "run", "command", "wait", "end"})
                 \cup ({"helm"} \X {"start", "run", "command"})
       => ran[i]["helm"] = "no"
  /\ pc[i] \in {"bootstrap"} \X {"command", "wait"} => Mode(opts[i]) = "bootstrap"
  /\ At(i, "bootstrap", "wait") => ran[i]["bootstrap"] = "ok" /\ deps["bootstrap"] = "logging"
  /\ At(i, "install", "orphan") =>
       /\ ran[i]["helm"] = "no" /\ ~opts[i].dryRun
       /\ Mode(opts[i]) = "bootstrap" => ran[i]["bootstrap"] = "ok"
  /\ pc[i][1] = "helm" =>
       ran[i]["bootstrap"] = IF Mode(opts[i]) = "bootstrap" THEN "ok" ELSE "no"
  /\ \A p \in Phases : ReturnInv(i, p)
  /\ At(i, "install", "finish") => Done(i)
  /\ At(i, "install", "output") => opts[i].dryRun \/ Done(i)
  /\ exit[i] /= "none" => At(i, "install", "done")
  /\ exit[i] = "ok" => opts[i].dryRun \/ Done(i)

\* What was checked before a command that has been run.
BeforeInv(i) ==
  \A p \in Phases : ran[i][p] /= "no" =>
    /\ ~opts[i].dryRun
    /\ "host" \in checked[i]
    /\ opts[i].airgapped => "bundle" \in checked[i]
    /\ Mode(opts[i]) = "reuse" => checked[i] \cap Answers /= {}

\* The last entry of the log.
EntryInv(i) ==
  /\ At(i, "install", "idle") => log[i] = <<>>
  /\ At(i, "install", "output") /\ sink[i] = "open" =>
       log[i] /= <<>> /\ log[i][Len(log[i])] = <<"install", "completed">>
  /\ Ended(i) /\ sink[i] = "open" =>
       log[i][Len(log[i])] = <<"install", IF exit[i] = "ok" THEN "completed" ELSE "failed">>

\* Four entries for a phase whose component logs its command, three or fewer
\* for another.
Own(p) == IF deps[p] = "logging" THEN 1 ELSE 0

Before(p) == IF p = "bootstrap" THEN 1 ELSE 5

\* The longest log.
LengthInv(i) ==
  /\ At(i, "install", "idle") => Len(log[i]) = 0
  /\ pc[i] \in {"install"} \X {"cluster", "bundle", "plan"} => Len(log[i]) <= 1
  /\ \A p \in Phases :
       /\ At(i, p, "start") => Len(log[i]) <= Before(p)
       /\ At(i, p, "run") => Len(log[i]) <= Before(p) + 1
       /\ At(i, p, "command") => Len(log[i]) <= Before(p) + 1 + Own(p)
       /\ pc[i] \in {p} \X {"wait", "end"} => Len(log[i]) <= Before(p) + 1 + 2 * Own(p)
  /\ At(i, "install", "finish") => Len(log[i]) <= 9
  /\ At(i, "install", "output") => Len(log[i]) <= 10

\* The phase of p is behind the install.
Past(i, p) ==
  \/ pc[i] \in {"install"} \X {"finish", "output", "done"}
  \/ p = "bootstrap" /\ pc[i][1] = "helm"

\* Who has logged the command of p, and when.
OutcomeInv(i) ==
  sink[i] = "open" /\ ~opts[i].dryRun /\ pc[i] \notin {"install"} \X {"gone", "orphan"} =>
    \A p \in Phases : IF deps[p] = "logging" \/ Past(i, p) THEN Logged(i, p) ELSE Silent(log[i], p)

InstallInv(i) ==
  CheckInv(i) /\ RanInv(i) /\ BeforeInv(i) /\ EntryInv(i) /\ LengthInv(i) /\ OutcomeInv(i)

IInv == TypeOK /\ \A i \in Installs : InstallInv(i)
=============================================================================
