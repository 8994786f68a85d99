# A verification of chainctl

`chainctl` installs one application on a small Kubernetes cluster: it can make
the cluster (k3s), upgrade it, add nodes to it, install and upgrade the
application by Helm, from a registry or from an air-gapped bundle, and seal the
application's values.  It is a command-line program without a daemon: every
command is a process of its own.  What is hard in it is therefore between
processes - two operators, a command and the API server, a command and the
files an earlier command left behind - and within a process, the order in which
checks, effects, records and reports follow each other when one of them fails.

This directory holds TLA+ modules that model those parts, TLC configurations
that check them on small instances, and TLAPS proofs for all instances.
`PROJECT.json` lists components, runs, the source lines behind every
definition, mutants, hazards, findings and theorems.

    tlc -config MCTokenStore.cfg MCTokenStore.tla     (one run)
    tlapm TokenStoreProofs.tla                        (one module of proofs)


## 1. Inventory

| Component | Source | State | Operations | What is hard | Module |
|---|---|---|---|---|---|
| Join tokens | `pkg/tokens`, `cmd/chainctl/node` | one Secret per token at the API server; a map in the memory fallback | Create, Consume; `node token create`, `node join` | two joins read, check and update without a lock; the five-second context expires before or after the server acts; an update that is applied may be answered by an error; clocks of hosts differ | `TokenStore` implements `OneTimeToken` |
| Application runs | `cmd/chainctl/app` | structured log, exit status, the cluster's release | `app install`, `app upgrade` | Helm may succeed and everything after it fail, the writes of the log included; runs overlap | `AppAction` |
| State file | `pkg/state` | one JSON file, temporary files beside it | Manager.Write | torn files, debris, crash between any two calls | `AppAction` implements `ReleaseLedger` |
| Cluster upgrade | `pkg/upgrade`, `cmd/chainctl/cluster/upgrade.go` | namespace and Plan at the API server | EnsureController, SubmitPlan, `cluster upgrade` | create, else get and update, while others write and delete; answers that do not come | `UpgradePlan` implements `PlanSubmission` |
| Bundles | `pkg/bundle`, second load in `cmd/chainctl/app/action.go` | cache directory shared by all loaders of a tarball | Load | no lock: a loader removes what another extracts or checks; debris of crashes; tarball replaced between two loads | `BundleCache` |
| Cluster install | `cmd/chainctl/cluster/install.go`, `pkg/bootstrap`, `pkg/helm` client and executor, `internal/validation`, `internal/config/profile_loader.go` | host, control plane, release, log, exit status | `cluster install` | checks before effects on every path; a failure anywhere, the log's writer included, must reach the exit status; who logs a command depends on dynamic types | `ClusterInstall` implements `StagedInstall` |
| Encrypted values | `pkg/secrets`, `cmd/chainctl/secrets` | input and output files | EncryptFile, DecryptFile, `encrypt-values` | Stat, key derivation, then truncating write; in-place use; failed writes | `EncryptValues` |
| Declarative configuration | `cmd/chainctl/declarative`, `pkg/config`, `internal/config` | resolved flags, sources, overrides, warnings | locate, load, resolve, apply | the whole file is validated, used or not; layers applied from Go maps in random order; typed flags captured before they are overwritten | `ConfigFile`, `DeclarativeConfig` |
| Workflow telemetry | `pkg/telemetry` | events and log entries on one writer | EmitPhase, Logger.Emit | a phase that succeeded fails for want of its completion event | in `AppAction`, `ClusterInstall` |
| State path | `internal/state` | none | resolve a path | resolved twice in a run, the second time from what the first returned | `AppRequest` |
| Chart resolver | `pkg/helm/resolver.go`, `cmd/chainctl/app/deps_defaults.go` | none | Resolve, OCI pull | the first load's error is dropped; two parts of the code split a reference | `AppRequest`, the loads in `BundleCache` |
| Profile options | `internal/config/profile_loader.go` | none | LoadOptions.Validate | defaults and modes decide what Helm is run for | `ClusterInstall`, `AppRequest` |
| Log sanitizer | `internal/cli/logging` | none | mask the arguments of a command | one argument decides how the next is shown | `Sanitizer` (command lines only) |
| Telemetry provider, `main` | `internal/telemetry`, `cmd/chainctl/main.go` | global OpenTelemetry providers | init, shutdown | deadline that starts too early; exit that skips the shutdown | no |
| Command tree | `internal/cli/root.go`, `*/app.go`, ... | none | registration | - | no |

How they interact.  The commands call downwards, in one goroutine each; there
are no callbacks but the function that EmitPhase wraps.  Processes share only
what is outside them: the API server (tokens, plan), the state directory, the
cache directory, the files of values, the host and its cluster.  A declarative
configuration is resolved before a command's options are read, so every other
module starts from options as given.  `cluster install` and the app commands
load bundles through `pkg/bundle`; in their own modules that load is one step
that accepts or refuses, and `BundleCache` is what happens within the step.

What makes each of them correct is what the runs below ask: a token is spent
once and a refusal is true; a run that reports success has been through its
installer and is recorded, its log says nothing else, and the record tells the
release that Install was called for and the source that was resolved; a plan is
never overwritten unseen; only sound bundles are accepted; an install checks
before it changes and logs every command once; only whole envelopes open; the
command runs with the values its summary shows.


## 2. Plan

The order was: tokens (the only protocol between machines), application runs
with the state file (the record operators rely on), cluster upgrade, bundles,
cluster install, encrypted values, declarative configuration, and last what an
application run does with its options, which AppAction leaves open.  All of
these are written, and each has a module of proofs:

    TokenStore        implements OneTimeToken      TokenStoreProofs
    AppAction         implements ReleaseLedger     AppActionProofs
    AppRequest        implements AppAction         AppRequestProofs
      extends Sanitizer
    UpgradePlan       implements PlanSubmission    UpgradePlanProofs
    BundleCache                                    BundleCacheProofs
    ClusterInstall    implements StagedInstall     ClusterInstallProofs
    EncryptValues                                  EncryptValuesProofs
    DeclarativeConfig                              DeclarativeConfigProofs
      extends ConfigFile

Two extensions would still say something new:

1. ClusterInstall composed with BundleCache, for the dry run that resets a
   cache another install is reading.
2. AppRequest for several runs, so that two runs may have different state files
   for one release.


## 3. Modules and their correspondence to the code

Conventions.  One action is what the program does between two points at which
another process, the server, a crash or a failure can come between: a call to
the API server is two actions (sent and served) and a third for its answer; a
file operation is one action; arithmetic and checks on local data belong to the
action that follows.  Guards are the code's conditions, in the code's order
where the order shows.  A `Crash` or `Leave` action kills a process anywhere.
Definitions whose names end in `_something` before the definition of that name
are variants with a defect, used only to see that a property notices it.
Definitions of the API server, the operating system, k3s and other clients are
marked external in the map; they are modelled from what the code relies on:
Create fails if the object exists, Update fails unless the resource version
matches, os.Rename replaces atomically, os.WriteFile opens with truncation.

**OneTimeToken** is what a token promises: unborn, live, revoked; spent by at
most one attempt; accepted only by the one that spent it.

**TokenStore** has processes `Creators` and `Joiners`.  `secrets` is the API
server, `seen` the object a join's Get returned, `write` whether a process'
Create or Update has been applied, `verdict` the error it was given, `stamp` and
`deadline` real times; `WallClock(p)` is a process' own clock.
StartJoin/ServerGet/GetRefused/Refuse/SendUpdate/ServerUpdate/WriteAcknowledged
are the lines of KubeStore.Consume in order; `Refusal` is its chain of checks
(consumed, expired, scope, secret).  An update that the server has applied may
yet be answered by any error - the deadline, a connection reset, a 500 - and
KubeStore.Consume returns it as one (WriteFailed); ServerRefuses is a write that
is not applied.  EditSecret and DeleteSecret are the rest of the cluster.
Without a kubeconfig CreateInMemory and JoinInMemory take the place of the API
server.  SHA-256 is injective here and random identifiers differ: a token is
named by its creator.

**ReleaseLedger** is a register of runs; **AppAction** has runs that go
resolve, start, helm, complete, directory, temp, encode, rename, chmod, report:
one label per call of runAppAction, EmitPhase and Manager.Write that can fail.
`file` is the state file, `tmp` a run's temporary file, `released` the cluster.
`installer` says whether the dependencies hold an installer; those shipped do
not (`cmd/chainctl/app/deps_defaults.go:15`), and the no-op that stands in for
one returns nil.  So `installed`, the runs for which Install has returned nil, is
kept apart from `released`.  `sink` says whether a run's structured log can still
be written: SinkBreaks may come between any two steps, and Log and Fail then lose
their entries as the code does, which drops that error.  The events of EmitPhase
go through an encoder of their own, whose error fails the phase.

**UpgradePlan** has operators whose `pc` is the call they are in and `answer`
what came back; `plan` has the submitter, whether the controller has recorded
status in it, and a revision.  `client` says whether the planner has a
ControllerClient; the shipped one plans nothing and reports success
(PlanNothing).  A call that was served may be answered ("ok"), or its answer may
be lost and the caller given an error; `event` is the outcome event that
EmitPhase writes, before the output, which can still fail.  **PlanSubmission**
is what it promises: an operator submits in one step and at most once, whatever
plan is there, takes no recorded status away, and is told of success only
afterwards.

**BundleCache** follows Load: Read, RemoveFile (os.RemoveAll file by file),
RemoveDirectory, MakeDirectory, OpenEntry and WriteEntry per entry, CheckFile
per listed file.  An archive is a record of what can be said of a tarball;
`cache` is the content of every file of every archive's directory.  `disturbed`
is a history variable: loads whose directory another process or a fault touched.

**ClusterInstall** follows runInstall: Reject (options, profile, host, before
any logging), Begin, ValidateExistingCluster, PrepareBundle, DryRun or Proceed,
then for each phase the start event, the function, the completion event, then
the final log entry and the output.  `log` is what reached the structured log
and `sink` whether the writer of events and log still takes anything: an error
of the writer is ignored for log entries and fails the phase for events, as in
EmitPhase.  `deps` gives the dynamic kind of the Bootstrapper and of the
HelmInstaller: the no-op that is shipped, one that acts, and one that acts and
logs (Orchestrator, helm.Installer); configureBootstrapper and
configureHelmInstaller decide by it who logs commands.  `checked` and `ran` are
history.  What the check of a cluster to be reused rests on is one of `Answers`:
the cluster that the default kubeconfig leads to, which is not asked whether it
is the one of `--cluster-endpoint`, or nothing, if the loader has returned no
configuration.  WaitFails is the error of a Waiter other than the shipped one.
An install that is killed while Helm runs leaves it as an orphan, which ends for
itself, with a release or without (OrphanEnds).  **StagedInstall** is what an
install promises of its commands: it knows from the start which it is to run,
runs each once at most, Helm after a script that has succeeded, and reports
success only if all of them have.

**EncryptValues** has encryptors that go stat, read, open, write, report, and
readers that call DecryptFile.  A file's content is a text and the passphrases
it is sealed under, so an envelope that is sealed again has two; opening the
output empties it, and a write over what another has written meanwhile may
leave a mixture, which no key opens.  A write that fails leaves a part of the
envelope, or all of it if it is the closing that fails (Written).

**ConfigFile** is internal/config.Loader: what YAML gives (a kind and a text)
against the catalog of commands and flags.  `Errors` are the faults of a
section, `Coerced` the section with its values in the types of their flags,
`FileErrors` the faults of a file - all those that some order of Go's maps finds
first - and `Loaded` the profile that Load returns.  A flag is looked up among
all commands for defaults and profiles, and in the command's flags for its section.

**DeclarativeConfig** is one command: Locate, then RejectFile, RejectCommand or
Load, then the layers entry by entry in any order within a layer (ApplyEntry,
NextLayer), then the flags set one by one, then Run with the summary.  `file`
is chosen when it is read, since nothing says what it was before.  A place may
be a path that cannot be made absolute; that is an error that ends the command,
where a missing file is not.  `summary` is also what EmitTelemetry writes to the
log, from the invocation that the binder has stored: flags and overrides, without
the warnings.

**Sanitizer** is logging.SanitizeCommand.  An argument is its words between
commas and equals signs; of its letters only matters whether a word contains a
marker (FlagMarked, KeyMarked) and how it begins.  `NextTransform` is the
variable of that name at the start of each turn of the loop: what an argument
has asked for the next one.  `Sanitized` is how an argument is then written.

**AppRequest** gives the steps of AppAction their data, for one run: each of its
actions is an action of AppAction (`Run!Resolve` and so on) with the code's
conditions on the options and what the step makes of them.  `hint` is the state
path resolved at the start, `loads` the first load's dropped error, `source` the
resolved chart or bundle, `given` the arguments of Installer.Install, `lines`
the command entries of the log, `record` the record of Manager.Write. Two parts
of the code may log Helm: executeHelmPhase, with the arguments of
buildHelmInstallArgs (`PhaseArgs`, which name a chart that Install does not
get), and an executor that takes the logger for itself, with those of
buildHelmArgs (`ExecutorArgs`, without the chart); `HelmHasLogging` decides
which.  LogCommands writes their entries, or none once AppAction's `sink` is
broken.  A chart reference is whether it begins with oci://, a tag, a digest,
and what follows its last colon if it has neither: splitOCIReference and
deriveVersion take different parts of it for the version.  A name from the
options is one word of it: names with an equals sign or a comma, which the
sanitizer would take apart, are not modelled.


## 4. Runs

| Run | Question | Instance |
|---|---|---|
| `token_store` | is a token spent at most once, by who is entitled, while fresh; is every refusal true and harmless, whatever answers are lost; is OneTimeToken implemented; does no command hang | 1 token, 2 joins, TTL 1, timeout 1, joiners' clocks one ahead, time to 3, 2 versions |
| `app_action` | does success mean installed and recorded; is the file a register of whole records; does the log, which may fail, never contradict the exit; is no temporary file left | 3 symmetric runs, with and without an installer, writable or not |
| `app_request` | is what is refused refused before anything is done; does the record tell the release that Install was called for and the source that was resolved; is Helm's outcome logged once, and the passphrase never | 1 run, requests that vary the source, the names or the state path, all environments, 2 bundles |
| `upgrade` | was what is called scheduled submitted; is nothing overwritten unseen; is PlanSubmission implemented, so that each command submits at once and once; does the phase's event tell whether it has | 3 symmetric operators, 5 revisions |
| `bundle` | is only a sound bundle accepted; is an undisturbed load complete and its failure just; does every load end | 2 loaders (one loads twice), 5 archives, one sound and four with one fault each |
| `cluster_install` | is StagedInstall implemented, so that success means installed and no command is run twice; do the checks there are precede effects; is each command logged once with its outcome; does the log end with the exit status; does every install end | 2 installs, 5 command lines, 3 sets of dependencies, host fit or not, cluster there or not |
| `encrypt` | is only a whole envelope ever decrypted; is a success whole; is nothing blank sealed | 2 encryptors, 1 reader, 2 files, 2 texts, 2 passphrases, 5 command lines |
| `config` | are values the most specific ones; are summary and override list true; is a file used or refused as its content deserves | 3 commands, 6 names of flags (one sensitive, one unknown), 3 profiles, all chains of uses up to 2, 12 peculiar entries in 6 places |
| `config_places` | violated: all places are searched for a configuration | as `config` |
| `install_ready` | violated: the bootstrap waits until the API is ready | 1 install |
| `encrypt_race` | violated: without `--confirm` an existing output is left alone | 2 encryptors |
| `request_chart` | violated: Helm applies the chart that was resolved | as `app_request`, 1 bundle |

The bounds and why they are enough.  Two processes are enough for every race the
code has: each races on one object with a version or one file, and the proofs
remove the bound.  Three runs of the application, and three operators of an
upgrade, let a third act on what two overlapping ones left; they are
interchangeable, their runs check no liveness, and so these two use symmetry.
`MaxClock` bounds real time at 3: creation, expiry one unit later and a timeout
one unit after that are all reached; `MaxVersion` 2 is creation and one
consumption (an edit competes for it), `MaxRevision` 5 lets three operators
submit and the controller write between them.  Stray secrets are left out of
`token_store` for its size and present in the proofs.  The bounds stand in the
guards of Tick and of the server's writes; in the proofs they are any naturals.
`ClusterInstall` and `EncryptValues` have no counters: an install logs at most
eleven entries, which TypeOK states, and an envelope has at most one layer per
encryptor.  The command lines of their MC modules contain each combination of
options that takes a path of its own; archives of `bundle` and files of `config`
are wrong in one respect each, since every check is independent of the others
(one file has three faults at once, for the order of the errors). The requests
of `app_request` are grouped in the same way: what the source decides does not
depend on the names or the state path.  SanitizerIsStable, an ASSUME of
MCAppRequest, sanitizes every command line of up to four arguments of ten kinds,
and AppRequestProofs any.  Deadlock is not checked: every behaviour of a set of
commands ends.

Fairness.  Liveness is asked where the code has something that makes it true.
The scheduling of a process that lives is weakly fair, and nothing else is
promised.  TokenStore gives no fairness to the server: its commands end by their
context's deadline (`pkg/tokens/kube_store.go`), so time is fair instead.
BundleCache's loaders are fair and can always proceed or fail, whatever another
does to their directory.  In ClusterInstall the commands that are run (Helm, the
k3s script) are assumed to end, one way or the other, since neither is given a
deadline: EveryInstallEnds says that no wait of chainctl's own goes on forever,
and does not exclude a script that hangs (listed as a hazard with a note); k3s
owes nothing.  AppAction is a straight line of calls and UpgradePlan's calls
have no deadline, so that only an assumption about the server could make them
end: both are checked without fairness, for safety.

### What the violated properties say

Each is a sentence of the repository that the code does not keep, found while
modelling; `findings` in PROJECT.json has the quotations.

* CHAINCTL_CONFIG naming a missing file makes the command run without any
  configuration, past a `chainctl.yaml`.
* The bootstrap waits two seconds, not for the API.
* Stat and WriteFile of EncryptFile are apart: without `--confirm` an output
  that another command has made in between is overwritten.
* The chart that `app install` resolves and pulls is dropped: Installer.Install
  takes a bundle or nothing, and Helm is run for a release without a chart.

Divergences that were met and have no run, because the model shows them at a
glance:

* The shipped app commands confirm and record a release although their
  installer is a no-op (specs/002-oci-helm-state/spec.md:20).  SuccessIsRecorded
  therefore speaks of the installer's return, and of the cluster only if there
  is an installer.
* The calls of `cluster upgrade` have no deadline, so a server that does not
  answer keeps the command waiting, where the contract says that a timeout
  aborts it (contracts/chainctl-cluster-upgrade.md:48).
* The version of the record is the digest of a reference with one, and of a
  reference without a tag what follows the colon of a port or of the scheme,
  where specs/002-oci-helm-state/data-model.md:32 says "application version or
  chart tag".  RecordTellsRun asks for the tag of references that have one and
  no digest.
* In reuse mode it is the cluster of the default kubeconfig that is validated, as
  docs/cli/commands.md:73 says; `--cluster-endpoint` only chooses the mode, and
  nothing compares the two.  With a loader that returns no configuration
  nobody is asked (cmd/chainctl/cluster/install.go:281).
* A run can fail after it has replaced the state file
  (docs/runbooks/installer.md:62).
* Of two overlapping successful runs the state file may name the release that
  was replaced (pkg/state/state.go:20); serial runs keep it current
  (SerialRunsKeepRecordCurrent).
* A state directory that cannot be written is found only after Helm
  (specs/002-oci-helm-state/spec.md:27).
* Without a kubeconfig `node token create` prints a token that exists only in
  the exiting process (chainctl-node-token-create.md:22), and `node join`
  reports a node as ready that nothing has joined (cmd/chainctl/node/join.go:101).
* Checksums are compared after extraction
  (specs/001-single-k8s-app-ctl/data-model.md:32).
* `cluster install --dry-run` resets the bundle cache and prints "no changes
  applied" (cmd/chainctl/cluster/install.go:157).
* The sanitizer takes a value that contains a marker, such as the release
  `token-service`, for a flag and masks the argument after it; LogTellsHelm
  leaves such names out (internal/cli/logging/sanitizer.go:67).
* The defaults and the profiles may name flags that the command lacks, which is
  a warning and no error (specs/004-declarative-config-file/data-model.md),
  and the loader checks in another order than the contract lists.
* A mismatch of typed passphrases is not asked again
  (contracts/chainctl-encrypt-values.md:36); encrypting in place twice seals the
  envelope (pkg/secrets/encrypt.go:59); an in-place `encrypt-values --confirm`
  that dies in its write loses the values.


## 5. Proofs

Each `*Proofs` module proves `Spec => []IInv` for an inductive invariant that
its component's module defines, and from it the properties; constants are
arbitrary, under the ASSUMEs of the module, which TLC evaluates on its instances.

**TokenStoreProofs.**  OneTimeUse alone is not inductive: two joins could both
have sent an update.  IInv adds that every secret descends from its creation and
is consumed exactly when some join's update was applied (SecretInv); that what a
join has read is what was there, and still is while the version has not moved
(SeenInv); and what a join has checked once its update is sent (JoinerInv).  An
update that is applied thus finds the version its join read, hence an unconsumed
secret, hence nobody who has spent it.  RefusalsSpareTheToken follows from
JoinerInv: every check is made before the update is sent, so who has an update
on its way is past all refusals of the token.  Theorems: OneTimeUse, the
invariants of the run and `ImplementsPromise`, Spec => OneTimeToken!Spec, each
step of the store a step or a stutter of the promise.

**AppActionProofs.**  RunInv says what a run has done by where it stands,
FileInv that the state file is a whole record of a recorded run, SerialInv that
while nobody overlaps whoever has passed Helm is the run last released.
Of the log RunInv says what it is while it can be written, and LogTellsExit is
inductive with it: a log that can no longer be written does not grow, and
"success" is written only by a run that is past the rename.
Theorems: the invariants of the run, NoStrayTemp and `ImplementsLedger`.

**UpgradePlanProofs.**  RevisionInv: a revision stands for one state of the
plan, so an update that the server accepts replaces what the operator has read.
From it NoBlindOverwrite and StatusSurvives as action properties; SubmitInv
gives ScheduledWasSubmitted and, with EventInv (who has an outcome event makes no
more calls), OutcomeIsTold.  `ImplementsSubmission` needs one thing more,
OnceInv: who has submitted is in a call that was served, or past all calls, so
that no answer, lost or wrong, makes it send again.  Each step is then one of
PlanSubmission's or a stutter; the update is a Submit, since by RevisionInv
what it writes over has the status it has read.

**BundleCacheProofs.**  LoadInv, CacheInv and CheckInv relate a loader's
position to the directory; AloneInv says what an undisturbed loader has
extracted and what it has still to do.  AcceptedIsSound needs only CheckInv: it
holds however loaders overlap.

**ClusterInstallProofs.** Every install is invariant by itself (InstallInv),
and the others reach it only through the cluster. RanInv says by where an
install stands which commands it has run and what their phase will return: a
phase that returns "ok" without having run its command is only the bootstrap of
a reused cluster, and one that fails although its command succeeded only the
bootstrap whose Waiter did. BeforeInv keeps what was checked before, orphans
included. OutcomeInv carries
CommandsLoggedOnce through a run: a component that logs has told of its command
as soon as it has run it, for another the phase does so when it is past; until
then the log is silent. LengthInv bounds the log, EntryInv gives its last
entry. `ImplementsPromise` maps every step to one of StagedInstall or a
stutter: by RanInv a command that ends had not been run before and is called
for, and the script has succeeded if it is Helm; the task is known from the
options once a check has been passed, and never changes.

**EncryptValuesProofs.**  EnvelopeInv: every envelope in any file is what some
encryptor that has opened that file sealed for it, so a mixture or a short write
has no keys.  AloneInv follows an encryptor that is alone with its output.

**DeclarativeConfigProofs.**  The layers are a sequence of any length, so LayerInv
speaks of the prefix that has been applied: each flag has the value of the last
layer up to `Top(k)` that mentions it, which does not depend on the order within
a layer.  ConfigInv gives the loaded values their types, for which a flag must
have one type in all commands (CatalogAssumption); FlagInv relates resolved and
set values.  OverrideInv says of the list of overrides what LayerInv says of the
values: a flag's entries in it are, in order, its mentions up to `Top(k)` but
the first.  Applying an entry extends that correspondence by one layer or, for
the first mention, leaves it empty; `OverridesTold` follows.

**AppRequestProofs.**  `Implements`: every step is a step of AppAction or a
stutter.  AppActionProofs is taken as an instance (`RunProofs`), so its
invariant is one of a run with its data (`RunInvariance`).  HintInv and
HintStays show that the second resolution of the state path returns the first's
result and refuses nothing: the hint is absolute, and is never taken for "not
given" (NoneAssumption).  With SourceInv and GivenInv the record is that of the
release that Install was called for and of the source that was resolved.

The log has an invariant of its own, LogInv, proved on top of these two
(LogInvariance): until Install has returned there is no outcome in the log,
afterwards there is one at most, which agrees with `installed`, and none only if
the log can no longer be written.  It is one because exactly one of the phase
and the executor takes it upon itself, whichever it is.  That no entry shows the
passphrase is a matter of the sanitizer, and of lemmas about it: the flags and
names before the passphrase ask for nothing, `--values-passphrase` asks for a
mask, and what is masked asks for nothing again.  OwnWordsAssumption says of the
program's own words which of them contain a marker; ApplicationsAssumption that
arguments of a call are not mistaken for "no call yet".  Theorems: LoggedOnce,
which is LogTellsHelm, the data types, and SuccessIsTrue, which joins the
layers: behind an exit status of success are a call of Install that returned
nil, its release in the cluster if there is an installer and none if there is
only the no-op, a log without a failed outcome of Helm (and with one, unless it
cannot be written), and a record of that release where the operator wants it.

`SanitizerStable` is of the sanitizer alone: any command line, of whatever length
and words, keeps its number of arguments but for a placeholder at the end, and
is not changed by sanitizing it again.  What an argument is sanitized to
depends on all those before it, so the proof is an induction; it takes the
least argument at which the two passes differ (LeastNatural, from the
well-foundedness of the naturals) and shows that there is none.

### Only model-checked

Liveness (EveryCommandEnds, EveryLoadEnds, EveryInstallEnds): the prover has
neither fairness nor ENABLED.  And the four properties that are violated.  Every
other property of a run is stated by a theorem.  No module uses a RECURSIVE
operator.


## 6. Not modelled, and why

* Characters: output formats, YAML, tar, hashing, and the letters of what the
  sanitizer masks.  Properties speak of whether a text is well formed, a record
  whole, a checksum right, a word marked.
* SanitizeEnv, which only tests call, and the regular expression of SanitizeText.
* The log entry of EmitTelemetry (called in cmd/chainctl/app/action.go:164 and
  cmd/chainctl/cluster/install.go:227) apart from the summary it is made of, and
  how the summary is laid out.
* Registry pulls, Kubernetes discovery, `/proc`: an answer or an error.
* The OpenTelemetry provider and `main`: nothing in the program reads the spans
  they export.  The five seconds of the shutdown begin when the program starts
  (cmd/chainctl/main.go:27), and a command that fails exits without it.
* cobra's registration and binding of flags.
* Permissions of files, beyond a directory that cannot be written.
* Helm itself: the repository has no executor that acts; ClusterInstall and
  AppAction say what one may do.
* A `--confirm`ed overwrite that fails loses the earlier envelope; the model
  has the behaviour, and no document of the repository promises otherwise.
* Scripts, deployment assets and tests.
