------------------------- MODULE DeclarativeConfig --------------------------
(***************************************************************************)
(* The PreRunE that declarative.Manager attaches to app install, app       *)
(* upgrade and cluster install: a configuration file is located, loaded    *)
(* and validated, its layers (defaults, the profiles of the command, the   *)
(* command's own flags) and the flags typed by the operator are applied on *)
(* top of each other, entry by entry in the random order of Go maps, the   *)
(* result is set on the command's flags, summarised, and the command runs. *)
(***************************************************************************)
EXTENDS ConfigFile

CONSTANTS
  Command,     \* the command that is run
  Profiles,    \* names of profiles
  Files,       \* contents of the configuration file
  Typed,       \* the flags that the operator may have typed
  OutputFlag,  \* --output
  JSONTexts    \* the texts that are json, case and space aside

\* The flags of the command; no command with a configuration has a list.
Flags == DOMAIN FlagTypes(Command)

\* What is typed for a flag is read in the flag's type.
Fits(set, types) == \A k \in Names(set) : k \in DOMAIN types /\ set[k].type = types[k]

ASSUME CommandAssumption ==
  /\ Command \in Commands /\ Command /= Blank
  /\ \A k \in Flags : FlagTypes(Command)[k] \in {"bool", "string"}
  /\ \A s \in Typed : s \in FlagSet /\ Fits(s, FlagTypes(Command))

\* A file has defaults, named profiles and sections for commands.
ASSUME FilesAssumption ==
  \A f \in Files :
    /\ f.decodes \in BOOLEAN
    /\ f.defaults \in RawFlagSet
    /\ DOMAIN f.profiles \subseteq Profiles
    /\ \A p \in DOMAIN f.profiles : f.profiles[p] \in RawFlagSet
    /\ \A s \in f.commands :
         /\ s.profiles \in Seq(Profiles)
         /\ s.disabled \in BOOLEAN
         /\ s.flags \in RawFlagSet

\* The errors of Load and ResolveInvocation, and where a value comes from.
Faults == {"gone", "parse", "secret", "unknown flag", "type", "unknown command",
           "not declared", "disabled", "unknown profile"}

Sources == {"default", "profile", "command", "runtime"}

Choices == [value : Values, source : Sources]

ASSUME AbsentAssumption == NoValue \notin Faults \cup Choices

VARIABLES
  places,     \* the state of the places where the file is looked for
  pc,         \* what the process does next
  typed,      \* what the operator has typed: runtime
  file,       \* the content of the file when it was read
  config,     \* what was loaded of it
  fault,      \* the error of Load or ResolveInvocation
  layer,      \* the layer that is being applied
  left,       \* its entries still to be applied, or the entries still to be set
  resolved,   \* ResolvedInvocation.Flags: value and source
  overrides,  \* ResolvedInvocation.Overrides
  warnings,   \* ResolvedInvocation.Warnings, the flags they name
  flags,      \* the command's flags that are set, with their values
  summary     \* the invocation as stored for the command, and printed before it ran

vars == <<places, pc, typed, file, config, fault, layer, left, resolved, overrides, warnings, flags, summary>>

loaded == <<file, config, fault>>
resolution == <<resolved, overrides, warnings>>

-----------------------------------------------------------------------------
(* Location *)

\* The places in their order of precedence; the first two are named by the
\* operator, the others have fixed names.
Places == <<"explicit", "env", "working-dir", "xdg", "home">>

Named == {"explicit", "env"}

\* A path may be impossible to make absolute: it begins with ~ and there is no
\* home directory, or it is relative and there is no working directory.
PlaceStates ==
  {p \in [{Places[i] : i \in 1 .. 5} -> {"unset", "dangling", "unresolvable", "file"}] :
     /\ \A q \in DOMAIN p \ Named : p[q] /= "dangling"
     /\ p["working-dir"] /= "unresolvable"}

\* The places before which there is nothing that LocateConfig stops at.
Reached == {i \in 1 .. 5 : \A j \in 1 .. i - 1 : places[Places[j]] = "unset"}

\* LocateConfig: the first place that is set; a named file must exist, and the
\* error of a path that cannot be resolved is not ErrConfigNotFound.
LocateConfig ==
  IF \A i \in 1 .. 5 : places[Places[i]] = "unset" THEN "none"
  ELSE LET first == CHOOSE i \in Reached : places[Places[i]] /= "unset"
       IN CASE places[Places[first]] = "file" -> Places[first]
            [] places[Places[first]] = "dangling" -> "not_found"
            [] OTHER -> "error"

-----------------------------------------------------------------------------
(* Layers *)

Depth(c) == Len(c.uses) + 3

ProfileLayer(c, p) == [source |-> "profile", name |-> p, set |-> c.profiles[p]]

Layer_commandFirst(c, i) ==
  IF i = 1 THEN [source |-> "default", name |-> "defaults", set |-> c.defaults]
  ELSE IF i = 2 THEN [source |-> "command", name |-> "command", set |-> c.flags]
  ELSE IF i < Depth(c) THEN ProfileLayer(c, c.uses[i - 2])
  ELSE [source |-> "runtime", name |-> "runtime", set |-> typed]

\* The i-th of the layers that ResolveInvocation applies.
Layer(c, i) ==
  IF i = 1 THEN [source |-> "default", name |-> "defaults", set |-> c.defaults]
  ELSE IF i < Depth(c) - 1 THEN ProfileLayer(c, c.uses[i - 1])
  ELSE IF i = Depth(c) - 1 THEN [source |-> "command", name |-> "command", set |-> c.flags]
  ELSE [source |-> "runtime", name |-> "runtime", set |-> typed]

TypeOK ==
  /\ places \in PlaceStates
  /\ pc \in {"locate", "load", "resolve", "set", "run", "failed"}
  /\ typed \in Typed
  /\ file \in Files \cup {NoValue}
  /\ config /= NoValue =>
       /\ config.defaults \in FlagSet /\ config.flags \in FlagSet
       /\ config.uses \in Seq(DOMAIN config.profiles)
       /\ \A p \in DOMAIN config.profiles : config.profiles[p] \in FlagSet
  /\ fault \in Faults \cup {NoValue}
  /\ layer \in Nat
  /\ left \subseteq Keys
  /\ resolved \in [Keys -> Choices \cup {NoValue}]
  /\ overrides \in Seq([by : {"defaults", "command", "runtime"} \cup Profiles, flag : Keys, was : Sources])
  /\ warnings \subseteq Keys \ Flags
  /\ flags \in FlagSet

\* Cobra has parsed the command line.
Init ==
  /\ places \in PlaceStates
  /\ pc = "locate"
  /\ typed \in Typed
  /\ file = NoValue
  /\ config = NoValue
  /\ fault = NoValue
  /\ layer = 0
  /\ left = {}
  /\ resolved = [k \in Keys |-> NoValue]
  /\ overrides = <<>>
  /\ warnings = {}
  /\ flags = typed
  /\ summary = NoValue

Goto(from, to) == pc = from /\ pc' = to

\* The environment is not looked at again.
Located == places' = [p \in DOMAIN places |-> "unset"]

-----------------------------------------------------------------------------
(* resolveConfigLocation *)

\* A file was found, by this or that way.
Locate ==
  /\ LocateConfig \notin {"none", "not_found", "error"}
  /\ Goto("locate", "load")
  /\ Located
  /\ UNCHANGED <<typed, loaded, layer, left, resolution, flags, summary>>

\* --config names a file that does not exist, or a path cannot be resolved.
RejectPath ==
  /\ LocateConfig = "error" \/ (LocateConfig = "not_found" /\ places["explicit"] /= "unset")
  /\ Goto("locate", "failed")
  /\ Located
  /\ UNCHANGED <<typed, loaded, layer, left, resolution, flags, summary>>

\* ErrConfigNotFound without --config: the command runs as it was typed.
RunUnconfigured ==
  /\ LocateConfig \in {"none", "not_found"} /\ places["explicit"] = "unset"
  /\ Goto("locate", "run")
  /\ Located
  /\ UNCHANGED <<typed, loaded, layer, left, resolution, flags, summary>>

-----------------------------------------------------------------------------
(* buildResolvedInvocation: Loader.Load, then ResolveInvocation *)

Fail(reason) ==
  /\ Goto("load", "failed")
  /\ fault' = reason
  /\ UNCHANGED <<places, typed, config, layer, left, resolution, flags, summary>>

\* The file has been removed since.
FileGone ==
  /\ Fail("gone")
  /\ UNCHANGED file

\* The loader finds fault with the file, whatever it contains by now.
RejectFile ==
  /\ pc = "load"
  /\ file' \in Files
  /\ \E e \in FileErrors(file') : Fail(e)

\* validateCommandSection and applyProfileSections.
Undeclared(f) == Sections(f, Command) = {}

UndefinedProfiles(f, section) ==
  {section.profiles[i] : i \in DOMAIN section.profiles} \ DOMAIN f.profiles

RejectCommand ==
  /\ pc = "load"
  /\ file' \in Files
  /\ FileErrors(file') = {}
  /\ \/ Undeclared(file') /\ Fail("not declared")
     \/ \E s \in Sections(file', Command) :
          \/ s.disabled /\ Fail("disabled")
          \/ ~s.disabled /\ UndefinedProfiles(file', s) /= {} /\ Fail("unknown profile")

\* The file is good for the command, and the first layer begins.
Load ==
  /\ Goto("load", "resolve")
  /\ file' \in Files
  /\ FileErrors(file') = {}
  /\ \E s \in Sections(file', Command) :
       /\ ~s.disabled /\ UndefinedProfiles(file', s) = {}
       /\ config' = Loaded(file', s)
  /\ layer' = 1
  /\ left' = Names(config'.defaults)
  /\ UNCHANGED <<places, typed, fault, resolution, flags, summary>>

-----------------------------------------------------------------------------
(* flagApplier *)

ApplyEntry_forgetsOverride ==
  /\ pc = "resolve"
  /\ \E k \in left :
       /\ resolved' = [resolved EXCEPT ![k] =
            [value |-> Layer(config, layer).set[k], source |-> Layer(config, layer).source]]
       /\ overrides' = IF resolved[k] = NoValue \/ Layer(config, layer).source = "runtime" THEN overrides
            ELSE Append(overrides, [by |-> Layer(config, layer).name, flag |-> k, was |-> resolved[k].source])
       /\ left' = left \ {k}
  /\ UNCHANGED <<places, pc, typed, loaded, layer, warnings, flags, summary>>

\* Apply takes the entries of the layer in any order.
ApplyEntry ==
  /\ pc = "resolve"
  /\ \E k \in left :
       /\ resolved' = [resolved EXCEPT ![k] =
            [value |-> Layer(config, layer).set[k], source |-> Layer(config, layer).source]]
       /\ overrides' = IF resolved[k] = NoValue THEN overrides
            ELSE Append(overrides, [by |-> Layer(config, layer).name, flag |-> k, was |-> resolved[k].source])
       /\ left' = left \ {k}
  /\ UNCHANGED <<places, pc, typed, loaded, layer, warnings, flags, summary>>

NextLayer ==
  /\ pc = "resolve" /\ left = {}
  /\ layer < Depth(config)
  /\ layer' = layer + 1
  /\ left' = Names(Layer(config, layer + 1).set)
  /\ UNCHANGED <<places, pc, typed, loaded, resolution, flags, summary>>

Resolved ==
  /\ Goto("resolve", "set")
  /\ left = {} /\ layer = Depth(config)
  /\ left' = {k \in Keys : resolved[k] /= NoValue}
  /\ UNCHANGED <<places, typed, loaded, layer, resolution, flags, summary>>

-----------------------------------------------------------------------------
(* applyResolvedFlags and the summary *)

SetFlag_quiet ==
  /\ pc = "set"
  /\ \E k \in left :
       /\ flags' = IF k \in Flags THEN [flags EXCEPT ![k] = resolved[k].value] ELSE flags
       /\ left' = left \ {k}
  /\ UNCHANGED <<places, pc, typed, loaded, layer, resolution, summary>>

\* Set on the command, or warned about, in any order. The value has the flag's
\* type, so that formatting and setting it do not fail.
SetFlag ==
  /\ pc = "set"
  /\ \E k \in left :
       /\ IF k \in Flags
          THEN flags' = [flags EXCEPT ![k] = resolved[k].value] /\ UNCHANGED warnings
          ELSE warnings' = warnings \cup {k} /\ UNCHANGED flags
       /\ left' = left \ {k}
  /\ UNCHANGED <<places, pc, typed, loaded, layer, resolved, overrides, summary>>

\* determineOutputFormat reads the flag as the configuration has set it.
SummaryFormat ==
  IF flags[OutputFlag] /= NoValue /\ flags[OutputFlag].text \in JSONTexts THEN "json" ELSE "text"

\* FormatSummary: what either format tells.
Summary == [format |-> SummaryFormat, flags |-> resolved, overrides |-> overrides, warnings |-> warnings]

\* The invocation is stored for the command, the summary of it is printed, and the
\* command runs: the entry that EmitTelemetry writes to its log is made of the
\* flags and overrides of what was stored.
Run ==
  /\ Goto("set", "run")
  /\ left = {}
  /\ summary' = Summary
  /\ UNCHANGED <<places, typed, loaded, layer, left, resolution, flags>>

Next ==
  \/ Locate \/ RejectPath \/ RunUnconfigured
  \/ FileGone \/ RejectFile \/ RejectCommand \/ Load
  \/ ApplyEntry \/ NextLayer \/ Resolved \/ SetFlag \/ Run

Spec == Init /\ [][Next]_vars

-----------------------------------------------------------------------------
(* Properties *)

Configured == pc = "run" /\ config /= NoValue

\* Who mentions a flag and how much it counts: the file's defaults, then the
\* profiles in the order in which the command lists them, then the command's
\* section, then the operator.
Mentions(k) ==
  LET n == Len(config.uses)
  IN {m \in {<<0, config.defaults[k]>>, <<n + 1, config.flags[k]>>, <<n + 2, typed[k]>>}
            \cup {<<i, config.profiles[config.uses[i]][k]>> : i \in 1 .. n} : m[2] /= NoValue}

\* The command runs with the most specific value of every flag it has, in the
\* flag's type, and with no value for the flags that nobody mentions.
EffectiveByPrecedence ==
  Configured => \A k \in Flags :
    IF Mentions(k) = {} THEN flags[k] = NoValue
    ELSE /\ flags[k] /= NoValue /\ flags[k].type = FlagTypes(Command)[k]
         /\ \E m \in Mentions(k) : flags[k] = m[2] /\ \A n \in Mentions(k) : n[1] <= m[1]

\* The summary printed before the command runs tells what it runs with: each
\* value it shows is in effect or is warned about, a value in effect is
\* shown, and the source it names has that value.
SummaryIsTruthful ==
  Configured => \A k \in Keys :
    /\ summary.flags[k] /= NoValue =>
         /\ k \in summary.warnings \/ (k \in Flags /\ flags[k] = summary.flags[k].value)
         /\ \E i \in 1 .. Depth(config) :
              /\ Layer(config, i).source = summary.flags[k].source
              /\ Layer(config, i).set[k] = summary.flags[k].value
    /\ flags[k] /= NoValue => summary.flags[k] /= NoValue

\* The value that layer i has for flag k.
ValueAt(i, k) == Layer(config, i).set[k]

\* The layers up to the n-th that mention flag k.
Mentioning(k, n) == {i \in 1 .. n : ValueAt(i, k) /= NoValue}

\* The entry tells, by name and source, that layer m superseded the last of these
\* layers that come before it.
Supersedes(entry, m, layers) ==
  /\ entry.by = Layer(config, m).name
  /\ \E l \in layers :
       /\ l < m /\ \A n \in layers : n < m => n <= l
       /\ entry.was = Layer(config, l).source

\* The list tells of each of these layers but the first that it superseded the
\* one before it: once, and in the order of the layers.
Tells(list, k, layers) ==
  LET told == {i \in DOMAIN list : list[i].flag = k}
  IN \E by \in [told -> layers] :
       /\ \A i, j \in told : i < j => by[i] < by[j]
       /\ {by[i] : i \in told} = {m \in layers : \E l \in layers : l < m}
       /\ \A i \in told : Supersedes(list[i], by[i], layers)

\* The override list in the summary is the whole story of a flag: it has an
\* entry for each layer that superseded an earlier one, and no other.
OverridesAreComplete ==
  Configured => \A k \in Keys : Tells(summary.overrides, k, Mentioning(k, Depth(config)))

\* Everything that a file says of flags, under whatever name it stands.
Said(f) ==
  UNION {{<<k, set[k]>> : k \in Names(set)} :
           set \in {f.defaults} \cup {f.profiles[p] : p \in DOMAIN f.profiles}
                   \cup {s.flags : s \in {c \in f.commands : c.key /= Blank}}}

\* The types that the commands give a flag.
TypesOf(k) == {Catalog[i].types[k] : i \in Having(k)}

\* The loader's verdict is just. Nothing in a file that is used is sensitive,
\* misspelt or of a wrong kind, also in profiles and commands that the run does
\* not need; and a file is refused for a fault that it has.
VerdictIsJust ==
  /\ config /= NoValue => \A e \in Said(file) :
       /\ e[1] \notin Sensitive /\ TypesOf(e[1]) /= {} /\ e[2].kind /= "other"
       /\ e[2].kind \in {"number", "date"} => "bool" \notin TypesOf(e[1])
  /\ fault = "secret" => \E e \in Said(file) : e[1] \in Sensitive
  /\ fault = "unknown command" => \E s \in file.commands : s.key \notin Commands
  /\ fault = "unknown profile" => \E s \in file.commands : \E i \in DOMAIN s.profiles :
                                    s.profiles[i] \notin DOMAIN file.profiles

-----------------------------------------------------------------------------
(* The inductive invariant *)

\* Nothing has been loaded, or loading has failed.
StartInv ==
  /\ pc \in {"locate", "load"} =>
       /\ config = NoValue /\ fault = NoValue
       /\ resolved = [k \in Keys |-> NoValue] /\ overrides = <<>>
  /\ pc = "failed" => config = NoValue

InUse == pc \in {"resolve", "set"} \/ Configured

\* A section that has been loaded has values of the types of the flags.
Suits(set) ==
  /\ set \in FlagSet
  /\ \A k \in Flags : set[k] /= NoValue => set[k].type = FlagTypes(Command)[k]

ConfigInv ==
  InUse =>
    /\ Suits(config.defaults) /\ Suits(config.flags)
    /\ config.uses \in Seq(Profiles)
    /\ \A i \in 1 .. Len(config.uses) : config.uses[i] \in DOMAIN config.profiles
    /\ \A p \in DOMAIN config.profiles : Suits(config.profiles[p])

\* The layers that have been applied to flag k.
Top(k) == IF pc = "resolve" /\ k \in left THEN layer - 1 ELSE layer

\* The flag has the value of the last of them that mentions it.
Best(k) ==
  \/ resolved[k] = NoValue /\ \A i \in 1 .. Top(k) : ValueAt(i, k) = NoValue
  \/ \E m \in 1 .. Top(k) :
       /\ ValueAt(m, k) /= NoValue
       /\ resolved[k] = [value |-> ValueAt(m, k), source |-> Layer(config, m).source]
       /\ \A i \in m + 1 .. Top(k) : ValueAt(i, k) = NoValue

LayerInv ==
  InUse =>
    /\ layer \in 1 .. Depth(config)
    /\ pc /= "resolve" => layer = Depth(config)
    /\ pc = "resolve" => \A k \in left : ValueAt(layer, k) /= NoValue
    /\ \A k \in Keys : Best(k)

\* What has become of the flag when the resolved values are set.
Handled(k) ==
  IF resolved[k] = NoValue THEN flags[k] = typed[k]
  ELSE IF k \in Flags THEN flags[k] = resolved[k].value
  ELSE k \in warnings /\ flags[k] = typed[k]

FlagInv ==
  /\ pc \in {"locate", "load", "resolve"} => flags = typed /\ warnings = {}
  /\ pc = "set" \/ Configured =>
       \A k \in Keys :
         IF k \in left THEN resolved[k] /= NoValue /\ flags[k] = typed[k] ELSE Handled(k)
  /\ Configured =>
       /\ left = {}
       /\ summary.flags = resolved /\ summary.warnings = warnings

\* The list tells of the layers that have been applied.
OverrideInv ==
  /\ InUse => \A k \in Keys : Tells(overrides, k, Mentioning(k, Top(k)))
  /\ Configured => summary.overrides = overrides

IInv == TypeOK /\ StartInv /\ ConfigInv /\ LayerInv /\ FlagInv /\ OverrideInv /\ VerdictIsJust

\* What the specification says of discovery: the places are searched in order,
\* so a command runs without a configuration only if no place has a file.
EveryPlaceIsSearched ==
  [][ RunUnconfigured => \A p \in DOMAIN places : places[p] /= "file" ]_vars
=============================================================================
