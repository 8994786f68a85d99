----------------------------- MODULE AppRequest -----------------------------
(***************************************************************************)
(* What one `app install` or `app upgrade` does with its options: they are *)
(* checked, made into a profile, a state path and a chart source, handed   *)
(* to Helm, logged and recorded. The steps are those of AppAction, which   *)
(* follows their order through failures and concurrent runs and knows      *)
(* nothing of the data; here each of them is given its data, for one run.  *)
(***************************************************************************)
EXTENDS Sanitizer

CONSTANTS
  Runs, NoRun,   \* the run, as AppAction wants it
  Requests,      \* options that the command may be given
  Environments,  \* XDG_CONFIG_HOME and the home directory
  Bundles,       \* sound contents of the bundle's tarball
  BadNames,      \* file names that invalidFileName rejects
  None           \* what was not given, or is not known yet

\* A chart reference: whether it begins with oci://, the tag (what follows a
\* colon behind its last slash), the digest (what follows @sha256:), and what
\* follows the last colon if it has neither (that of a port or of the scheme).
ASSUME RequestsAssumption ==
  /\ NoRun \notin Runs /\ \E r \in Runs : Runs = {r}
  /\ \A q \in Requests :
       /\ q.action \in {"install", "upgrade"}
       /\ q.chart /= None =>
            q.chart.word /= None /\ q.chart.oci \in BOOLEAN
       /\ q.statePath /= None => q.statePath.absolute \in BOOLEAN
  /\ Environments \subseteq
       [xdg : {"unset", "absolute", "relative"}, home : {"unknown", "absolute", "relative"}]

\* The words that the program itself puts into the commands it logs: the passphrase
\* follows one that contains a marker, and none of the others does.
OwnWords ==
  {"helm", "upgrade", "chainapp", "--namespace", "chain-system", "--values", "--bundle-path",
   "pull", "bundle", "load"}

ASSUME OwnWordsAssumption ==
  /\ OwnWords \cap (FlagMarked \cup SetFlags) = {}
  /\ "--values-passphrase" \in FlagMarked \ SetFlags

\* What was not given is not a path, not the content of a bundle and not a word.
ASSUME NoneAssumption ==
  /\ None \notin Bundles \cup {Mask}
  /\ None \notin [at : {"xdg", "home"}, absolute : BOOLEAN,
                  file : {"app.json"} \cup {q.stateName : q \in Requests}]

VARIABLES
  pc, installer, released, installed, writable, tmp, file, recorded, sink, log, exit, overlapped,
  request,      \* the options
  environment,  \* the environment
  executor,     \* is the installer helm.Installer, which logs for itself?
  hint,         \* the state path, as resolved at the start
  loads,        \* loads of the bundle that have failed
  source,       \* the resolved chart or bundle
  given,        \* what the installer was given: Install(profile, bundle)
  lines,        \* the command entries of the structured log
  record,       \* the record in the state file, and where it is
  refusal       \* why the options were refused

Run == INSTANCE AppAction

options == <<request, environment, executor>>
progress == <<hint, loads, source, given, lines, record, refusal>>
runVars ==
  <<pc, installer, released, installed, writable, tmp, file, recorded, sink, log, exit, overlapped>>
vars == <<runVars, options, progress>>

-----------------------------------------------------------------------------
(* The state path: internal/state.Resolver *)

\* XDG_CONFIG_HOME, or else the home directory.
StateDirectory ==
  IF environment.xdg /= "unset" THEN [at |-> "xdg", absolute |-> environment.xdg = "absolute"]
  ELSE [at |-> "home", absolute |-> environment.home = "absolute"]

NoStateDirectory == environment.xdg = "unset" /\ environment.home = "unknown"

StatePathRefused(path, name) ==
  \/ path /= None /\ (name /= None \/ ~path.absolute)
  \/ path = None /\ (NoStateDirectory \/ name \in BadNames)

StatePath_keepsRelative(path, name) ==
  IF path /= None THEN path
  ELSE [at |-> StateDirectory.at, absolute |-> StateDirectory.absolute,
        file |-> IF name = None THEN "app.json" ELSE name]

\* A relative directory is made absolute.
StatePath(path, name) ==
  IF path /= None THEN path
  ELSE [at |-> StateDirectory.at, absolute |-> TRUE,
        file |-> IF name = None THEN "app.json" ELSE name]

-----------------------------------------------------------------------------
(* The profile, and what is logged of it *)

InputsMissing == request.values = None \/ (request.action = "upgrade" /\ request.endpoint = None)

Default(value, fallback) == IF value = None THEN fallback ELSE value

\* LoadOptions.Validate: the endpoint is of reuse mode only, that is of upgrades.
ProfileOf(q) ==
  [release    |-> Default(q.release, "chainapp"),
   namespace  |-> Default(q.namespace, "chain-system"),
   endpoint   |-> IF q.action = "upgrade" THEN q.endpoint ELSE None,
   values     |-> q.values,
   passphrase |-> q.passphrase,
   bundlePath |-> q.bundle]

Profile == ProfileOf(request)

\* The arguments of Installer.Install.
Applications == [profile : {ProfileOf(q) : q \in Requests}, bundle : Bundles \cup {None}]

\* They are not what is known of them before the call.
ASSUME ApplicationsAssumption == None \notin Applications

\* An option of a command line, if it has a value.
Opt(flag, value) == IF value = None THEN <<>> ELSE <<Word(flag), Word(value)>>

ChartWord == IF request.chart = None THEN None ELSE request.chart.word

\* A Helm command, with the chart or without.
HelmWords ==
  <<Word("helm"), Word("upgrade"), Word(Profile.release)>>
  \o Opt("--namespace", Profile.namespace)
  \o Opt("--values", Profile.values)

SourceWords(chart) ==
  (IF chart = None THEN <<>> ELSE <<Word(chart)>>) \o Opt("--bundle-path", request.bundle)

HelmCommand(passphrase, chart) ==
  HelmWords \o Opt("--values-passphrase", passphrase) \o SourceWords(chart)

\* As the executor logs it (buildHelmArgs), and as executeHelmPhase does
\* (buildHelmInstallArgs): with the chart, although Install does not get it.
ExecutorArgs == HelmCommand(Profile.passphrase, None)
PhaseArgs == HelmCommand(Profile.passphrase, ChartWord)

ResolveArgs ==
  IF request.chart /= None THEN <<Word("helm"), Word("pull"), Word(ChartWord)>>
  ELSE IF request.bundle /= None THEN <<Word("bundle"), Word("load"), Word(request.bundle)>>
  ELSE <<Word("helm"), Word("pull")>>

Entry(step, ended, args, ok) ==
  [step |-> step, ended |-> ended, ok |-> ok, command |-> SanitizeCommand(args)]

\* The error of the write is dropped: entries that cannot be written are lost.
LogCommands(r, entries) == lines' = IF sink[r] = "open" THEN lines \o entries ELSE lines

\* prepareAppInstaller: the executor logs for itself.
HelmHasLogging_never == FALSE

HelmHasLogging == executor

-----------------------------------------------------------------------------
Init ==
  /\ Run!Init
  /\ request \in Requests
  /\ environment \in Environments
  /\ executor \in BOOLEAN /\ (executor => installer)
  /\ hint = None
  /\ loads = 0
  /\ source = None
  /\ given = None
  /\ lines = <<>>
  /\ record = None
  /\ refusal = None

Refuse(reason) == refusal' = reason /\ UNCHANGED <<options, hint, loads, source, given, record>>

-----------------------------------------------------------------------------
(* Before the first entry of the log *)

RefuseInputs(r) ==
  /\ Run!Reject(r)
  /\ InputsMissing
  /\ Refuse("inputs")
  /\ UNCHANGED lines

RefuseStatePath(r) ==
  /\ Run!Reject(r)
  /\ ~InputsMissing
  /\ StatePathRefused(request.statePath, request.stateName)
  /\ Refuse("state path")
  /\ UNCHANGED lines

Accept(r) ==
  /\ Run!Begin(r)
  /\ ~InputsMissing
  /\ ~StatePathRefused(request.statePath, request.stateName)
  /\ hint' = StatePath(request.statePath, request.stateName)
  /\ UNCHANGED <<options, loads, source, given, lines, record, refusal>>

-----------------------------------------------------------------------------
(* resolveChartSource *)

\* Exactly one of the two sources.
RefuseSources(r) ==
  /\ Run!ResolveFails(r)
  /\ (request.chart = None) = (request.bundle = None)
  /\ Refuse("sources")
  /\ LogCommands(r, <<Entry("helm-resolve", TRUE, ResolveArgs, FALSE)>>)

FromChart == request.chart /= None /\ request.bundle = None
FromBundle == request.chart = None /\ request.bundle /= None

RefuseReference(r) ==
  /\ Run!ResolveFails(r)
  /\ FromChart /\ ~request.chart.oci
  /\ Refuse("reference")
  /\ LogCommands(r, <<Entry("helm-resolve", TRUE, ResolveArgs, FALSE)>>)

\* splitOCIReference takes what follows the last colon if no slash does: the
\* digest comes last.
PulledVersion(chart) == IF chart.digest /= None THEN chart.digest ELSE chart.tag

PullChart(r) ==
  /\ Run!Resolve(r)
  /\ FromChart /\ request.chart.oci
  /\ source' = [type |-> "oci", reference |-> ChartWord, digest |-> request.chart.digest,
                content |-> <<ChartWord, PulledVersion(request.chart)>>]
  /\ LogCommands(r, <<Entry("helm-resolve", TRUE, ResolveArgs, TRUE)>>)
  /\ UNCHANGED <<options, hint, loads, given, record, refusal>>

\* The bundle.Load of the resolver, or the one after it, finds a sound bundle.
LoadBundle(r) ==
  /\ Run!Resolve(r)
  /\ FromBundle
  /\ \E b \in Bundles :
       source' = [type |-> "bundle", reference |-> request.bundle, digest |-> None, content |-> b]
  /\ LogCommands(r, <<Entry("helm-resolve", TRUE, ResolveArgs, TRUE)>>)
  /\ UNCHANGED <<options, hint, loads, given, record, refusal>>

LoadFails_retries(r) ==
  /\ pc[r] = "resolve"
  /\ FromBundle
  /\ loads' = loads + 1
  /\ UNCHANGED <<runVars, options, hint, source, given, lines, record, refusal>>

\* The error of the resolver's load is dropped.
LoadFails(r) ==
  /\ pc[r] = "resolve"
  /\ FromBundle /\ loads = 0
  /\ loads' = 1
  /\ UNCHANGED <<runVars, options, hint, source, given, lines, record, refusal>>

\* The pull fails, or the second load does.
ResolveFails(r) ==
  /\ Run!ResolveFails(r)
  /\ (FromChart /\ request.chart.oci) \/ (FromBundle /\ loads = 1)
  /\ LogCommands(r, <<Entry("helm-resolve", TRUE, ResolveArgs, FALSE)>>)
  /\ UNCHANGED <<options, hint, loads, source, given, record, refusal>>

-----------------------------------------------------------------------------
(* executeHelmPhase *)

\* loggingExecutor logs the start of the command.
StartHelm(r) ==
  /\ Run!PhaseStarts(r)
  /\ LogCommands(r, IF executor THEN <<Entry("helm", FALSE, ExecutorArgs, TRUE)>> ELSE <<>>)
  /\ UNCHANGED <<options, hint, loads, source, given, record, refusal>>

\* Installer.Install returns: the executor logs the outcome, and executeHelmPhase
\* does unless it takes the installer to do so.
ApplyRelease(r) ==
  /\ Run!HelmSucceeds(r) \/ Run!HelmFails(r)
  /\ given' = [profile |-> Profile,
               bundle |-> IF source.type = "bundle" THEN source.content ELSE None]
  /\ LET ok == r \in installed'
     IN LogCommands(r,
          (IF executor THEN <<Entry("helm", TRUE, ExecutorArgs, ok)>> ELSE <<>>)
          \o (IF HelmHasLogging THEN <<>> ELSE <<Entry("helm", TRUE, PhaseArgs, ok)>>))
  /\ UNCHANGED <<options, hint, loads, source, record, refusal>>

-----------------------------------------------------------------------------
(* persistState: Manager.Write resolves the path again, from the hint *)

SettlePath(r) ==
  /\ Run!EnsureDirectory(r)
  /\ ~StatePathRefused(hint, None)
  /\ UNCHANGED <<options, progress>>

PersistFails(r) ==
  /\ Run!DirectoryFails(r)
  /\ refusal' = IF pc[r] = "directory" /\ StatePathRefused(hint, None) THEN "state path" ELSE refusal
  /\ UNCHANGED <<options, hint, loads, source, given, lines, record>>

\* deriveVersion takes whatever follows the last colon.
AfterLastColon(chart) ==
  IF chart.digest /= None THEN chart.digest ELSE IF chart.tag /= None THEN chart.tag ELSE chart.rest

DerivedVersion_ofChart ==
  IF source.type = "oci" THEN AfterLastColon(request.chart) ELSE request.version

\* The operator's version, or else that of the reference.
DerivedVersion ==
  IF request.version /= None THEN request.version
  ELSE IF source.type = "oci" THEN AfterLastColon(request.chart) ELSE None

\* buildStateRecord.
Replace(r) ==
  /\ Run!Rename(r)
  /\ record' = [path |-> StatePath(hint, None), release |-> Profile.release,
                namespace |-> Profile.namespace, endpoint |-> Profile.endpoint,
                action |-> request.action, version |-> DerivedVersion,
                type |-> source.type, reference |-> source.reference, digest |-> source.digest]
  /\ UNCHANGED <<options, hint, loads, source, given, lines, refusal>>

-----------------------------------------------------------------------------
(* The output, and the steps that do nothing to the data *)

Report(r) ==
  /\ Run!EmitOutput(r)
  /\ request.output \in {"text", "json"}
  /\ UNCHANGED <<options, progress>>

ReportFails(r) ==
  /\ Run!OutputFails(r)
  /\ request.output /= "text"
  /\ UNCHANGED <<options, progress>>

Other(r) ==
  /\ \/ Run!StartEventFails(r) \/ Run!PhaseCompletes(r) \/ Run!CompletionEventFails(r)
     \/ Run!CreateTemp(r) \/ Run!EncodeTemp(r) \/ Run!TempFails(r)
     \/ Run!ChmodState(r) \/ Run!ChmodFails(r) \/ Run!SinkBreaks(r) \/ Run!Crash(r)
  /\ UNCHANGED <<options, progress>>

Next ==
  \E r \in Runs :
    \/ RefuseInputs(r) \/ RefuseStatePath(r) \/ Accept(r)
    \/ RefuseSources(r) \/ RefuseReference(r) \/ PullChart(r)
    \/ LoadBundle(r) \/ LoadFails(r) \/ ResolveFails(r)
    \/ StartHelm(r) \/ ApplyRelease(r)
    \/ SettlePath(r) \/ PersistFails(r) \/ Replace(r)
    \/ Report(r) \/ ReportFails(r) \/ Other(r)

Spec == Init /\ [][Next]_vars

-----------------------------------------------------------------------------
(* Properties *)

Reasons == {None, "inputs", "state path", "sources", "reference"}

Steps == {"helm-resolve", "helm"}

\* The data of the run.
DataOK ==
  /\ request \in Requests /\ environment \in Environments /\ executor \in BOOLEAN
  /\ hint /= None => hint.absolute \in BOOLEAN
  /\ loads \in 0 .. 1
  /\ source /= None => source.type \in {"oci", "bundle"}
  /\ given \in Applications \cup {None}
  /\ lines \in Seq([step : Steps, ended : BOOLEAN, ok : BOOLEAN,
                     command : {SanitizeCommand(args) : args \in {ExecutorArgs, PhaseArgs, ResolveArgs}}])
  /\ record /= None => record.type \in {"oci", "bundle"}
  /\ refusal \in Reasons

TypeOK == Run!TypeOK /\ DataOK

\* What docs/cli/commands.md says of app upgrade: conflicting sources, invalid
\* references and invalid state paths are rejected before the cluster is
\* contacted; nothing has been pulled, loaded or written by then either.
RefusedBeforeHelm ==
  refusal /= None => given = None /\ source = None /\ loads = 0 /\ file = Run!NoFile

\* The path that the operator named, or else the managed directory.
NamedPath ==
  IF request.statePath /= None THEN request.statePath
  ELSE [at |-> IF environment.xdg = "unset" THEN "home" ELSE "xdg", absolute |-> TRUE,
        file |-> Default(request.stateName, "app.json")]

\* The record tells what was done: it is where the operator wants it, names the
\* release that Install was called for and the source that was resolved, and has
\* the version that was asked for or else the chart's tag. References with a
\* digest or without a tag are left out: deriveVersion takes the digest, or what
\* follows the colon of a port or of the scheme, for the version.
RecordTellsRun ==
  recorded /= {} =>
    /\ record.path = NamedPath
    /\ record.release = given.profile.release /\ record.namespace = given.profile.namespace
    /\ record.endpoint = given.profile.endpoint
    /\ record.type = "bundle" <=> given.bundle /= None
    /\ record.type = "bundle" => record.reference = given.profile.bundlePath
    /\ record.type = "oci" =>
         record.reference = request.chart.word /\ record.digest = request.chart.digest
    /\ request.version /= None => record.version = request.version
    /\ request.version = None /\ record.type = "oci" =>
         (request.chart.tag /= None /\ request.chart.digest = None => record.version = request.chart.tag)

\* The names in a command that come from the options.
Names == {request.release, request.namespace, request.values, ChartWord, request.bundle} \ {None}

\* The entries of the log that tell how a Helm command ended.
Outcomes == {i \in DOMAIN lines : lines[i].step = "helm" /\ lines[i].ended}

\* How Install ended is logged by exactly one of the two that may have to, never
\* before it has ended, and with its outcome; if it is not logged the log could
\* not be written.
OutcomeIsLogged ==
  /\ Outcomes /= {} => given /= None
  /\ \A i, j \in Outcomes : i = j
  /\ \A i \in Outcomes : lines[i].ok = (installed = Runs)
  /\ given /= None => Outcomes /= {} \/ \E r \in Runs : sink[r] = "broken"

\* No entry shows the passphrase, unless it is one of the other words of the
\* command. Names in which a marker occurs are left out: the sanitizer takes one
\* for a flag, masks what follows it, and no longer sees the passphrase's flag if
\* that is what follows.
PassphraseHidden ==
  /\ Names \cap (FlagMarked \cup SetFlags) = {}
  /\ request.passphrase \notin OwnWords \cup Names \cup {"--values-passphrase", Mask, None}
  => \A i \in DOMAIN lines : \A j \in DOMAIN lines[i].command :
       request.passphrase \notin WordsOf(lines[i].command[j])

\* What the log tells of Helm.
LogTellsHelm == OutcomeIsLogged /\ PassphraseHidden

\* What FR-001 of specs/002-oci-helm-state and its first scenario promise: what
\* was resolved, chart or bundle, is what Helm applies.
HelmGetsTheChart ==
  given /= None => given.bundle = source.content

-----------------------------------------------------------------------------
(* The inductive invariant *)

Resolved == {"start", "helm", "complete", "directory", "temp", "encode", "rename", "chmod", "report"}

Applied == Resolved \ {"start", "helm"}

\* Nothing is known before the chart is resolved, nothing is recorded before
\* the rename, and only a run that has ended was refused.
StageInv ==
  \A r \in Runs :
    /\ pc[r] \in {"idle", "resolve"} => source = None /\ given = None /\ file = Run!NoFile
    /\ pc[r] = "idle" => loads = 0
    /\ pc[r] \notin {"chmod", "report", "done", "crashed"} => recorded = {}
    /\ pc[r] /= "done" => refusal = None

\* The path was accepted, and has been resolved.
HintInv ==
  \A r \in Runs : pc[r] \in Resolved \cup {"resolve"} =>
    /\ ~StatePathRefused(request.statePath, request.stateName)
    /\ hint = StatePath(request.statePath, request.stateName)

LoadsInv == loads /= 0 => FromBundle

\* One of the two sources was resolved.
SourceInv ==
  \A r \in Runs : pc[r] \in Resolved =>
    \/ /\ FromChart /\ source.type = "oci" /\ source.reference = ChartWord
       /\ source.digest = request.chart.digest
       /\ source.content = <<ChartWord, PulledVersion(request.chart)>>
    \/ /\ FromBundle /\ source.type = "bundle" /\ source.reference = request.bundle
       /\ source.content \in Bundles

\* Helm was run for the profile.
GivenInv ==
  \A r \in Runs : pc[r] \in Applied =>
    /\ given.profile = Profile
    /\ given.bundle = IF source.type = "bundle" THEN source.content ELSE None

\* The log has the outcome of Helm once Helm has been run, which is in its phase.
LinesInv ==
  /\ sink \in [Runs -> {"open", "broken"}]
  /\ given = None => installed = {}
  /\ OutcomeIsLogged
  /\ \A r \in Runs : pc[r] \in {"start", "helm"} => given = None

IInv ==
  /\ pc \in [Runs -> Run!Idle \cup Run!Active \cup Run!Ended]
  /\ request \in Requests /\ environment \in Environments
  /\ StageInv /\ HintInv /\ LoadsInv /\ SourceInv /\ GivenInv
  /\ RefusedBeforeHelm /\ RecordTellsRun

\* The data of the run, which that invariant says nothing of.
LogInv == DataOK /\ LinesInv
=============================================================================
