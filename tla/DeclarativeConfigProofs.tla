---------------------- MODULE DeclarativeConfigProofs -----------------------
(***************************************************************************)
(* What holds of DeclarativeConfig for every catalog of commands, every    *)
(* set of files, profiles and typed flags: the inductive invariant IInv,   *)
(* and from it that flags take effect by precedence, that the summary is   *)
(* truthful and that the loader's verdict on a file is just.               *)
(*                                                                         *)
(* The first lemmas are about the loader's operators; then one lemma per   *)
(* action shows that it preserves IInv.                                    *)
(***************************************************************************)
EXTENDS DeclarativeConfig, TLAPS

-----------------------------------------------------------------------------
(* The catalog *)

\* The command has a type for each of its flags, and any command that has a
\* flag of that name gives it the same.
LEMMA CommandTypes ==
  /\ \A k \in Flags : k \in Keys /\ FlagTypes(Command)[k] \in FlagKinds
  /\ \A k \in Flags, i \in 1 .. Len(Catalog) :
       k \in DOMAIN Catalog[i].types => Catalog[i].types[k] = FlagTypes(Command)[k]
<1>1. PICK c \in 1 .. Len(Catalog) : FlagTypes(Command) = Catalog[c].types
  BY CommandAssumption DEF Commands, FlagTypes
<1> QED
  BY <1>1, CatalogAssumption DEF Flags

\* What the sections of all commands are checked against is one of the types
\* that the catalog gives, and for the command's own flags it is theirs.
LEMMA AnyTypes ==
  /\ \A k \in DOMAIN AnyFlagTypes : AnyFlagTypes[k] \in TypesOf(k)
  /\ \A k \in DOMAIN AnyFlagTypes : AnyFlagTypes[k] \in FlagKinds
  /\ \A k \in Flags \cap DOMAIN AnyFlagTypes : AnyFlagTypes[k] = FlagTypes(Command)[k]
<1> SUFFICES ASSUME NEW k \in DOMAIN AnyFlagTypes
             PROVE  /\ AnyFlagTypes[k] \in TypesOf(k) /\ AnyFlagTypes[k] \in FlagKinds
                    /\ k \in Flags => AnyFlagTypes[k] = FlagTypes(Command)[k]
  OBVIOUS
<1>1. PICK i \in Having(k) : AnyFlagTypes[k] = Catalog[i].types[k]
  BY DEF AnyFlagTypes
<1>2. i \in 1 .. Len(Catalog) /\ k \in DOMAIN Catalog[i].types
  BY <1>1 DEF Having
<1> QED
  BY <1>1, <1>2, CatalogAssumption, CommandTypes DEF TypesOf

-----------------------------------------------------------------------------
(* Coercion *)

\* A value that has been coerced has the type of its flag.
LEMMA CoerceTyped ==
  ASSUME NEW type \in FlagKinds, NEW raw \in Raws, Coerce(type, raw) /= NoValue
  PROVE  Coerce(type, raw) \in Values /\ Coerce(type, raw).type = type
<1>1. \A s \in Scalars : Stringify(s) \in Texts \cup {NoValue}
  BY TextsAssumption DEF Scalars, Stringify
<1>2. CASE type = "bool"
  BY <1>2, TextsAssumption DEF Coerce, CoerceBool, Raws, Scalars, Values
<1>3. CASE type = "list"
  <2>1. CASE raw.kind = "string"
    <3>1. raw \in Scalars /\ raw.text \in Texts
      BY <2>1 DEF Raws, Scalars
    <3> QED
      BY <1>3, <2>1, <3>1 DEF Coerce, CoerceList, Values
  <2>2. CASE raw.kind = "list"
    <3>1. raw.text \in Seq(Scalars)
      BY <2>2 DEF Raws, Scalars
    <3>2. \A i \in DOMAIN raw.text : Stringify(raw.text[i]) \in Texts
      BY <1>1, <1>3, <2>2, <3>1 DEF Coerce, CoerceList
    <3>3. [i \in DOMAIN raw.text |-> Stringify(raw.text[i])] \in Seq(Texts)
      BY <3>1, <3>2
    <3> QED
      BY <1>3, <2>2, <3>2, <3>3, NoValueAssumption DEF Coerce, CoerceList, Values
  <2> QED
    BY <1>3, <2>1, <2>2 DEF Coerce, CoerceList
<1>4. CASE type = "string"
  <2>1. raw \in Scalars
    BY <1>4 DEF Coerce, CoerceString, Stringify, Raws
  <2> QED
    BY <1>1, <1>4, <2>1 DEF Coerce, CoerceString, Values
<1> QED
  BY <1>2, <1>3, <1>4 DEF FlagKinds

\* A boolean is not made of a number or a date, and nothing of null or a map.
LEMMA CoerceFits ==
  ASSUME NEW type, NEW raw, Coerce(type, raw) /= NoValue
  PROVE  raw.kind /= "other" /\ (raw.kind \in {"number", "date"} => type /= "bool")
BY DEF Coerce, CoerceBool, CoerceList, CoerceString, Stringify

\* A section without errors is loaded with values of the types of the flags.
LEMMA CoercedSuits ==
  ASSUME NEW entries \in RawFlagSet, NEW types, Errors(entries, types) = {},
         \A k \in DOMAIN types : types[k] \in FlagKinds,
         \A k \in Flags \cap DOMAIN types : types[k] = FlagTypes(Command)[k]
  PROVE  Suits(Coerced(entries, types))
<1>1. ASSUME NEW k \in Keys, entries[k] /= NoValue
      PROVE  k \in DOMAIN types /\ Coerce(types[k], entries[k]) /= NoValue
  BY <1>1 DEF Errors, Names
<1>2. ASSUME NEW k \in Keys, entries[k] /= NoValue
      PROVE  /\ Coerce(types[k], entries[k]) \in Values
             /\ Coerce(types[k], entries[k]).type = types[k]
  BY <1>1, <1>2, CoerceTyped DEF RawFlagSet
<1>3. Coerced(entries, types) \in FlagSet
  BY <1>2 DEF Coerced, FlagSet
<1>4. ASSUME NEW k \in Flags, Coerced(entries, types)[k] /= NoValue
      PROVE  Coerced(entries, types)[k].type = FlagTypes(Command)[k]
  BY <1>1, <1>2, <1>4, CommandTypes DEF Coerced
<1> QED
  BY <1>3, <1>4 DEF Suits

-----------------------------------------------------------------------------
(* Layers *)

\* A layer says of the command's flags what their types allow, and of others
\* something that some flag takes.
LEMMA LayerTyped ==
  ASSUME ConfigInv, InUse, typed \in Typed, NEW i \in 1 .. Depth(config)
  PROVE  /\ Suits(Layer(config, i).set)
         /\ Layer(config, i).source \in Sources
         /\ Layer(config, i).name \in {"defaults", "command", "runtime"} \cup Profiles
<1>1. Suits(typed)
  <2>1. typed \in FlagSet /\ Fits(typed, FlagTypes(Command))
    BY CommandAssumption
  <2>2. \A k \in Flags : k \in Keys
    BY CommandTypes
  <2> QED
    BY <2>1, <2>2 DEF Suits, Fits, Names
<1>2. ASSUME NEW j \in 1 .. Len(config.uses)
      PROVE  config.uses[j] \in Profiles /\ Suits(config.profiles[config.uses[j]])
  BY DEF ConfigInv
<1>3. Len(config.uses) \in Nat /\ Depth(config) = Len(config.uses) + 3
  BY DEF ConfigInv, Depth
<1>4. Suits(config.defaults) /\ Suits(config.flags)
  BY DEF ConfigInv
<1>5. CASE i = 1
  BY <1>4, <1>5 DEF Layer, Sources
<1>6. CASE i /= 1 /\ i < Depth(config) - 1
  <2>1. i - 1 \in 1 .. Len(config.uses)
    BY <1>3, <1>6
  <2>2. Layer(config, i) = ProfileLayer(config, config.uses[i - 1])
    BY <1>6 DEF Layer
  <2> QED
    BY <1>2, <2>1, <2>2 DEF ProfileLayer, Sources
<1>7. CASE i = Depth(config) - 1
  BY <1>3, <1>4, <1>7 DEF Layer, Sources
<1>8. CASE i = Depth(config)
  BY <1>1, <1>3, <1>8 DEF Layer, Sources
<1> QED
  BY <1>3, <1>5, <1>6, <1>7, <1>8

\* The layers are those of the configuration and the command line.
LEMMA SameLayers ==
  ASSUME UNCHANGED <<typed, config>>
  PROVE  /\ Depth(config)' = Depth(config)
         /\ \A i : Layer(config, i)' = Layer(config, i)
         /\ \A i, k : ValueAt(i, k)' = ValueAt(i, k)
BY DEF Depth, Layer, ProfileLayer, ValueAt

\* A step that leaves alone what was loaded keeps it as it was.
LEMMA SameConfig ==
  ASSUME ConfigInv, UNCHANGED config, InUse' => InUse
  PROVE  ConfigInv'
BY DEF ConfigInv, Suits

\* The same for the verdict on the file.
LEMMA SameVerdict ==
  ASSUME VerdictIsJust, UNCHANGED loaded
  PROVE  VerdictIsJust'
<1>1. file' = file /\ config' = config /\ fault' = fault
  BY DEF loaded
<1> QED
  BY <1>1 DEF VerdictIsJust

-----------------------------------------------------------------------------
(* The override list *)

\* Nothing is told of a single layer, or of none.
LEMMA NothingTold ==
  ASSUME NEW list, NEW k, NEW layers, \A i \in DOMAIN list : list[i].flag /= k,
         \A l, m \in layers : ~(l < m)
  PROVE  Tells(list, k, layers) /\ Tells(list, k, layers)'
<1> DEFINE told == {i \in DOMAIN list : list[i].flag = k}
           by == [i \in told |-> 0]
<1>1. told = {}
  OBVIOUS
<1>2. by \in [told -> layers] /\ {by[i] : i \in told} = {}
  BY <1>1
<1>3. {m \in layers : \E l \in layers : l < m} = {}
  OBVIOUS
<1>4. \A i \in told : FALSE
  BY <1>1
<1>5. /\ \A i, j \in told : i < j => by[i] < by[j]
      /\ {by[i] : i \in told} = {m \in layers : \E l \in layers : l < m}
      /\ \A i \in told : Supersedes(list[i], by[i], layers)
      /\ \A i \in told : Supersedes(list[i], by[i], layers)'
  BY <1>2, <1>3, <1>4
<1> QED
  BY <1>2, <1>5 DEF Tells

\* An entry about another flag changes nothing.
LEMMA OtherTold ==
  ASSUME NEW O, NEW list \in Seq(O), NEW o \in O, NEW k, NEW layers,
         o.flag /= k, Tells(list, k, layers)
  PROVE  Tells(Append(list, o), k, layers)
<1> DEFINE longer == Append(list, o)
           told == {i \in DOMAIN list : list[i].flag = k}
<1>1. /\ {i \in DOMAIN longer : longer[i].flag = k} = told
      /\ \A i \in told : longer[i] = list[i]
  OBVIOUS
<1> QED
  BY <1>1 DEF Tells

\* An entry tells of the layer that comes after all that were applied.
LEMMA OneMoreTold ==
  ASSUME NEW O, NEW list \in Seq(O), NEW o \in O, NEW k, NEW layers \in SUBSET Int,
         NEW m \in Int, \A l \in layers : l < m,
         NEW last \in layers, \A l \in layers : l <= last,
         o.flag = k, o.by = Layer(config, m).name, o.was = Layer(config, last).source,
         Tells(list, k, layers)
  PROVE  Tells(Append(list, o), k, layers \cup {m})
<1> DEFINE longer == Append(list, o)
           told == {i \in DOMAIN list : list[i].flag = k}
           more == layers \cup {m}
           n == Len(list) + 1
<1>1. PICK by \in [told -> layers] :
        /\ \A i, j \in told : i < j => by[i] < by[j]
        /\ {by[i] : i \in told} = {x \in layers : \E l \in layers : l < x}
        /\ \A i \in told : Supersedes(list[i], by[i], layers)
  BY DEF Tells
<1> DEFINE to == [i \in told \cup {n} |-> IF i = n THEN m ELSE by[i]]
<1>2. /\ {i \in DOMAIN longer : longer[i].flag = k} = told \cup {n}
      /\ longer[n] = o /\ n \notin told
      /\ \A i \in told : longer[i] = list[i] /\ i < n /\ i \in Int
  OBVIOUS
<1>3. to \in [told \cup {n} -> more] /\ to[n] = m /\ \A i \in told : to[i] = by[i] /\ by[i] \in layers
  BY <1>1, <1>2
<1>4. n \in Int /\ told \subseteq Int
  OBVIOUS
<1>5. ASSUME NEW e, NEW x \in layers, Supersedes(e, x, layers)
      PROVE  Supersedes(e, x, more)
  <2>1. \A l \in layers : l \in more
    OBVIOUS
  <2>2. \A l \in more : l < x => l \in layers
    OBVIOUS
  <2> HIDE DEF more
  <2> QED
    BY <1>5, <2>1, <2>2 DEF Supersedes
<1>6. Supersedes(o, m, more)
  <2>1. last \in more /\ last < m
    OBVIOUS
  <2>2. \A l \in more : l < m => l <= last
    OBVIOUS
  <2> HIDE DEF more, longer, told, n, to
  <2> QED
    BY <2>1, <2>2 DEF Supersedes
<1> HIDE DEF longer, told, n, to
<1>7. ASSUME NEW i \in told \cup {n}, NEW j \in told \cup {n}, i < j
      PROVE  to[i] < to[j]
  <2>1. i \in told
    BY <1>2, <1>4, <1>7
  <2>2. CASE j = n
    BY <1>3, <2>1, <2>2
  <2>3. CASE j \in told
    BY <1>1, <1>3, <1>7, <2>1, <2>3
  <2> QED
    BY <2>2, <2>3
<1>8. {to[i] : i \in told \cup {n}} = {x \in more : \E l \in more : l < x}
  <2>1. {to[i] : i \in told \cup {n}} = {by[i] : i \in told} \cup {m}
    BY <1>2, <1>3
  <2>2. {x \in more : \E l \in more : l < x} = {x \in layers : \E l \in layers : l < x} \cup {m}
    <3>1. \A x \in layers : (\E l \in more : l < x) <=> (\E l \in layers : l < x)
      OBVIOUS
    <3>2. \E l \in more : l < m
      OBVIOUS
    <3>3. \A x : x \in more <=> x \in layers \/ x = m
      OBVIOUS
    <3> HIDE DEF more
    <3> QED
      BY <3>1, <3>2, <3>3
  <2> QED
    BY <1>1, <2>1, <2>2
<1>9. ASSUME NEW i \in told \cup {n}
      PROVE  Supersedes(longer[i], to[i], more)
  BY <1>1, <1>2, <1>3, <1>5, <1>6
<1> HIDE DEF more
<1>10. Tells(longer, k, more)
  <2> DEFINE all == {i \in DOMAIN longer : longer[i].flag = k}
  <2>1. /\ to \in [all -> more]
        /\ \A i, j \in all : i < j => to[i] < to[j]
        /\ {to[i] : i \in all} = {x \in more : \E l \in more : l < x}
        /\ \A i \in all : Supersedes(longer[i], to[i], more)
    BY <1>2, <1>3, <1>7, <1>8, <1>9
  <2> QED
    BY <2>1 DEF Tells
<1> QED
  BY <1>10 DEF longer, more

\* What a list tells depends on the configuration and the command line only.
LEMMA SameTells ==
  ASSUME UNCHANGED <<typed, config>>
  PROVE  \A list, k, layers : Tells(list, k, layers)' <=> Tells(list, k, layers)
<1>1. \A entry, m, layers : Supersedes(entry, m, layers)' <=> Supersedes(entry, m, layers)
  <2>1. \A i : Layer(config, i)' = Layer(config, i)
    BY SameLayers
  <2> QED
    BY <2>1 DEF Supersedes
<1> SUFFICES ASSUME NEW list, NEW k, NEW layers
             PROVE  Tells(list, k, layers)' <=> Tells(list, k, layers)
  OBVIOUS
<1> DEFINE told == {i \in DOMAIN list : list[i].flag = k}
<1>2. \A by : (\A i \in told : Supersedes(list[i], by[i], layers)')
                <=> (\A i \in told : Supersedes(list[i], by[i], layers))
  BY <1>1
<1> QED
  BY <1>2 DEF Tells

\* What the list must tell after a step, in terms of the layers as they were.
LEMMA SameStory ==
  ASSUME UNCHANGED <<typed, config>>, NEW n, Tells(overrides', n, Mentioning(n, Top(n)'))
  PROVE  Tells(overrides, n, Mentioning(n, Top(n)))'
<1>1. Mentioning(n, Top(n)') = Mentioning(n, Top(n))'
  <2>1. \A i : ValueAt(i, n)' = ValueAt(i, n)
    BY SameLayers
  <2> QED
    BY <2>1 DEF Mentioning
<1> QED
  BY <1>1, SameTells

-----------------------------------------------------------------------------
(* The steps before anything is loaded *)

\* Cobra has parsed the command line.
LEMMA InitIInv == Init => IInv
<1> SUFFICES ASSUME Init PROVE IInv
  OBVIOUS
<1>1. TypeOK
  BY CommandAssumption DEF Init, TypeOK
<1>2. StartInv /\ ConfigInv /\ LayerInv /\ FlagInv /\ OverrideInv
  BY DEF Init, StartInv, ConfigInv, LayerInv, FlagInv, OverrideInv, InUse, Configured
<1>3. VerdictIsJust
  BY AbsentAssumption DEF Init, VerdictIsJust, Faults
<1> QED
  BY <1>1, <1>2, <1>3 DEF IInv

\* Whatever is found, the process goes on with nothing loaded.
LEMMA LocateStep ==
  ASSUME IInv, Locate \/ RejectPath \/ RunUnconfigured
  PROVE  IInv'
<1> USE DEF Locate, RejectPath, RunUnconfigured, Goto, Located, loaded, resolution
<1>1. TypeOK'
  <2>1. places' \in PlaceStates
    <3> DEFINE P == {Places[i] : i \in 1 .. 5}
    <3>1. Places[3] = "working-dir" /\ 3 \in 1 .. 5
      BY DEF Places
    <3>2. "working-dir" \in P
      BY <3>1
    <3> HIDE DEF P
    <3>3. DOMAIN places = P
      BY DEF PlaceStates, IInv, TypeOK, P
    <3>4. places' = [p \in P |-> "unset"]
      BY <3>3
    <3>5. /\ places' \in [P -> {"unset", "dangling", "unresolvable", "file"}] /\ DOMAIN places' = P
          /\ \A q \in P : places'[q] = "unset"
      BY <3>4
    <3> QED
      BY <3>2, <3>5 DEF PlaceStates, P
  <2> QED
    BY <2>1 DEF IInv, TypeOK
<1>2. StartInv' /\ ConfigInv' /\ LayerInv' /\ FlagInv' /\ OverrideInv'
  BY DEF IInv, StartInv, ConfigInv, LayerInv, FlagInv, OverrideInv, InUse, Configured
<1>3. VerdictIsJust'
  BY SameVerdict DEF IInv
<1> QED
  BY <1>1, <1>2, <1>3 DEF IInv

\* What a failure leaves alone.
LEMMA FailStep ==
  ASSUME IInv, NEW reason \in Faults, Fail(reason), file' \in Files \cup {NoValue}, VerdictIsJust'
  PROVE  IInv'
<1> USE DEF Fail, Goto, resolution
<1>1. TypeOK'
  BY DEF IInv, TypeOK
<1>2. StartInv' /\ ConfigInv' /\ LayerInv' /\ FlagInv' /\ OverrideInv'
  BY DEF IInv, StartInv, ConfigInv, LayerInv, FlagInv, OverrideInv, InUse, Configured
<1> QED
  BY <1>1, <1>2 DEF IInv

\* The file is gone, and there is no verdict on it.
LEMMA FileGoneStep ==
  ASSUME IInv, FileGone
  PROVE  IInv'
<1>1. VerdictIsJust'
  BY DEF FileGone, Fail, Goto, IInv, StartInv, VerdictIsJust
<1> QED
  BY <1>1, FailStep DEF FileGone, Faults, IInv, TypeOK

\* The errors that the loader finds are in what the file says.
LEMMA ErrorsAreSaid ==
  ASSUME NEW f \in Files
  PROVE  /\ FileErrors(f) \subseteq {"parse", "secret", "unknown flag", "type", "unknown command"}
         /\ "secret" \in FileErrors(f) => \E e \in Said(f) : e[1] \in Sensitive
         /\ "unknown command" \in FileErrors(f) => \E s \in f.commands : s.key \notin Commands
<1>1. ASSUME NEW set, NEW types, "secret" \in Errors(set, types)
      PROVE  \E k \in Names(set) : k \in Sensitive
  BY <1>1 DEF Errors
<1>2. ASSUME NEW set, NEW types
      PROVE  Errors(set, types) \subseteq {"secret", "unknown flag", "type"}
  BY DEF Errors
<1>3. ASSUME "secret" \in FileErrors(f)
      PROVE  \E e \in Said(f) : e[1] \in Sensitive
  <2>1. CASE "secret" \in DefaultErrors(f)
    <3>1. PICK k \in Names(f.defaults) : k \in Sensitive
      BY <1>1, <2>1 DEF DefaultErrors
    <3>2. <<k, f.defaults[k]>> \in Said(f)
      BY <3>1 DEF Said
    <3> QED
      BY <3>1, <3>2
  <2>2. CASE "secret" \in ProfileErrors(f)
    <3>1. PICK p \in DOMAIN f.profiles : "secret" \in Errors(f.profiles[p], AnyFlagTypes)
      BY <2>2 DEF ProfileErrors
    <3>2. PICK k \in Names(f.profiles[p]) : k \in Sensitive
      BY <1>1, <3>1
    <3>3. <<k, f.profiles[p][k]>> \in Said(f)
      BY <3>1, <3>2 DEF Said
    <3> QED
      BY <3>2, <3>3
  <2>3. CASE "secret" \in CommandErrors(f)
    <3>1. PICK s \in f.commands : s.key /= Blank /\ "secret" \in Errors(s.flags, FlagTypes(s.key))
      BY <2>3 DEF CommandErrors
    <3>2. PICK k \in Names(s.flags) : k \in Sensitive
      BY <1>1, <3>1
    <3>3. <<k, s.flags[k]>> \in Said(f)
      BY <3>1, <3>2 DEF Said
    <3> QED
      BY <3>2, <3>3
  <2> QED
    BY <1>3, <2>1, <2>2, <2>3 DEF FileErrors
<1>4. /\ DefaultErrors(f) \subseteq {"secret", "unknown flag", "type"}
      /\ ProfileErrors(f) \subseteq {"secret", "unknown flag", "type"}
  BY <1>2 DEF DefaultErrors, ProfileErrors
<1>5. \A e \in CommandErrors(f) : \E s \in f.commands :
        \/ e = "unknown command" /\ s.key \notin Commands
        \/ e \in Errors(s.flags, FlagTypes(s.key))
  BY DEF CommandErrors
<1>6. \A e \in CommandErrors(f) :
        \/ e \in {"secret", "unknown flag", "type"}
        \/ e = "unknown command" /\ \E s \in f.commands : s.key \notin Commands
  BY <1>2, <1>5
<1>7. FileErrors(f) \subseteq {"parse"} \cup DefaultErrors(f) \cup ProfileErrors(f) \cup CommandErrors(f)
  BY DEF FileErrors
<1> QED
  BY <1>3, <1>4, <1>6, <1>7

\* A file is refused for one of them.
LEMMA RejectFileStep ==
  ASSUME IInv, RejectFile
  PROVE  IInv'
<1>1. file' \in Files
  BY DEF RejectFile
<1>2. PICK e \in FileErrors(file') : Fail(e)
  BY DEF RejectFile
<1>3. e \in {"parse", "secret", "unknown flag", "type", "unknown command"}
  BY <1>1, <1>2, ErrorsAreSaid
<1>4. fault' = e /\ config' = NoValue
  BY <1>2 DEF Fail, Goto, IInv, StartInv
<1>5. VerdictIsJust'
  <2>1. fault' = "secret" => \E s \in Said(file') : s[1] \in Sensitive
    BY <1>1, <1>2, <1>4, ErrorsAreSaid
  <2>2. fault' = "unknown command" => \E s \in file'.commands : s.key \notin Commands
    BY <1>1, <1>2, <1>4, ErrorsAreSaid
  <2> QED
    BY <1>3, <1>4, <2>1, <2>2 DEF VerdictIsJust, Said
<1> QED
  BY <1>1, <1>2, <1>3, <1>5, FailStep DEF Faults

\* The command is refused for what its section lacks.
LEMMA RejectCommandStep ==
  ASSUME IInv, RejectCommand
  PROVE  IInv'
<1>1. file' \in Files /\ config' = NoValue
  BY DEF RejectCommand, Fail, Goto, IInv, StartInv
<1>2. PICK reason \in {"not declared", "disabled", "unknown profile"} :
        /\ Fail(reason)
        /\ reason = "unknown profile" =>
             \E s \in Sections(file', Command) : UndefinedProfiles(file', s) /= {}
  BY DEF RejectCommand
<1>3. VerdictIsJust'
  BY <1>1, <1>2 DEF VerdictIsJust, Fail, Goto, Sections, UndefinedProfiles
<1> QED
  BY <1>1, <1>2, <1>3, FailStep DEF Faults

-----------------------------------------------------------------------------
(* Load *)

\* A file without errors has nothing to say that the loader should refuse.
LEMMA SoundFile ==
  ASSUME NEW f \in Files, FileErrors(f) = {}, NEW e \in Said(f)
  PROVE  /\ e[1] \notin Sensitive /\ TypesOf(e[1]) /= {} /\ e[2].kind /= "other"
         /\ e[2].kind \in {"number", "date"} => "bool" \notin TypesOf(e[1])
<1>1. ASSUME NEW set, NEW types, Errors(set, types) = {}, NEW k \in Names(set),
             \A n \in DOMAIN types : types[n] \in TypesOf(n)
      PROVE  /\ k \notin Sensitive /\ TypesOf(k) /= {} /\ set[k].kind /= "other"
             /\ set[k].kind \in {"number", "date"} => "bool" \notin TypesOf(k)
  <2>1. k \notin Sensitive /\ k \in DOMAIN types /\ Coerce(types[k], set[k]) /= NoValue
    BY <1>1 DEF Errors
  <2>2. types[k] \in TypesOf(k)
    BY <1>1, <2>1
  <2>3. \A t \in TypesOf(k) : t = types[k]
    <3>1. \A i, j \in Having(k) : Catalog[i].types[k] = Catalog[j].types[k]
      BY CatalogAssumption DEF Having
    <3> QED
      BY <2>2, <3>1 DEF TypesOf
  <2> QED
    BY <2>1, <2>2, <2>3, CoerceFits
<1>2. f.decodes /\ DefaultErrors(f) = {} /\ ProfileErrors(f) = {} /\ CommandErrors(f) = {}
  BY DEF FileErrors
<1>3. CASE \E k \in Names(f.defaults) : e = <<k, f.defaults[k]>>
  BY <1>1, <1>2, <1>3, AnyTypes DEF DefaultErrors
<1>4. CASE \E p \in DOMAIN f.profiles : \E k \in Names(f.profiles[p]) : e = <<k, f.profiles[p][k]>>
  <2>1. PICK p \in DOMAIN f.profiles :
          \E k \in Names(f.profiles[p]) : e = <<k, f.profiles[p][k]>>
    BY <1>4
  <2>2. Errors(f.profiles[p], AnyFlagTypes) = {}
    BY <1>2 DEF ProfileErrors
  <2> QED
    BY <1>1, <2>1, <2>2, AnyTypes
<1>5. CASE \E s \in f.commands : s.key /= Blank /\ \E k \in Names(s.flags) : e = <<k, s.flags[k]>>
  <2>1. PICK s \in f.commands : s.key /= Blank /\ \E k \in Names(s.flags) : e = <<k, s.flags[k]>>
    BY <1>5
  <2>2. s.key \in Commands /\ Errors(s.flags, FlagTypes(s.key)) = {}
    BY <1>2, <2>1 DEF CommandErrors
  <2>3. \A n \in DOMAIN FlagTypes(s.key) : FlagTypes(s.key)[n] \in TypesOf(n)
    <3>1. PICK c \in 1 .. Len(Catalog) : FlagTypes(s.key) = Catalog[c].types
      BY <2>2 DEF Commands, FlagTypes
    <3> QED
      BY <3>1, CatalogAssumption DEF TypesOf, Having
  <2> QED
    BY <1>1, <2>1, <2>2, <2>3
<1> QED
  BY <1>3, <1>4, <1>5 DEF Said

\* What is loaded of such a file suits the flags of the command.
LEMMA LoadedSuits ==
  ASSUME NEW f \in Files, FileErrors(f) = {}, NEW s \in Sections(f, Command)
  PROVE  /\ Suits(Loaded(f, s).defaults) /\ Suits(Loaded(f, s).flags)
         /\ \A p \in DOMAIN Loaded(f, s).profiles : Suits(Loaded(f, s).profiles[p])
<1>1. f.decodes /\ DefaultErrors(f) = {} /\ ProfileErrors(f) = {} /\ CommandErrors(f) = {}
  BY DEF FileErrors
<1>2. Suits(Coerced(f.defaults, AnyFlagTypes))
  BY <1>1, FilesAssumption, AnyTypes, CoercedSuits DEF DefaultErrors
<1>3. ASSUME NEW p \in DOMAIN f.profiles
      PROVE  Suits(Coerced(f.profiles[p], AnyFlagTypes))
  <2>1. Errors(f.profiles[p], AnyFlagTypes) = {}
    BY <1>1 DEF ProfileErrors
  <2> QED
    BY <2>1, FilesAssumption, AnyTypes, CoercedSuits
<1>4. Suits(Coerced(s.flags, FlagTypes(s.key)))
  <2>1. s \in f.commands /\ s.key = Command
    BY DEF Sections
  <2>2. Errors(s.flags, FlagTypes(Command)) = {}
    BY <1>1, <2>1, CommandAssumption DEF CommandErrors
  <2> QED
    BY <2>1, <2>2, FilesAssumption, CommandTypes, CoercedSuits DEF Flags
<1> QED
  BY <1>2, <1>3, <1>4 DEF Loaded

\* The first layer begins, with nothing applied.
LEMMA LoadStep ==
  ASSUME IInv, Load
  PROVE  IInv'
<1> USE DEF Goto, resolution
<1>1. file' \in Files /\ FileErrors(file') = {}
  BY DEF Load
<1>2. PICK s \in Sections(file', Command) :
        /\ ~s.disabled /\ UndefinedProfiles(file', s) = {}
        /\ config' = Loaded(file', s)
  BY DEF Load
<1>3. s \in file'.commands /\ s.profiles \in Seq(Profiles)
  BY <1>1, FilesAssumption DEF Sections
<1>4. \A i \in 1 .. Len(s.profiles) : s.profiles[i] \in DOMAIN file'.profiles
  BY <1>2, <1>3 DEF UndefinedProfiles
<1>5. /\ config'.uses = s.profiles
      /\ DOMAIN config'.profiles = DOMAIN file'.profiles
  BY <1>2 DEF Loaded
<1>6. /\ Suits(config'.defaults) /\ Suits(config'.flags)
      /\ \A p \in DOMAIN config'.profiles : Suits(config'.profiles[p])
  BY <1>1, <1>2, LoadedSuits
<1>7. /\ typed' = typed /\ resolved' = resolved /\ fault' = NoValue /\ pc' = "resolve"
      /\ layer' = 1 /\ left' = Names(config'.defaults) /\ flags' = flags /\ warnings' = warnings
      /\ resolved = [k \in Keys |-> NoValue] /\ flags = typed /\ warnings = {}
      /\ overrides' = <<>>
  BY DEF Load, IInv, StartInv, FlagInv
<1>8. TypeOK'
  <2>1. config'.uses \in Seq(DOMAIN config'.profiles)
    BY <1>3, <1>4, <1>5
  <2> QED
    BY <1>1, <1>6, <1>7, <2>1 DEF Load, IInv, TypeOK, Suits, Names
<1>9. StartInv' /\ FlagInv'
  BY <1>7 DEF StartInv, FlagInv, Configured
<1>10. ConfigInv'
  BY <1>3, <1>4, <1>5, <1>6 DEF ConfigInv, Suits
<1>11. LayerInv'
  <2>1. Depth(config') \in Nat /\ Depth(config') >= 3
    BY <1>3, <1>5 DEF Depth
  <2>2. ASSUME NEW k \in left'
        PROVE  ValueAt(layer, k)' /= NoValue
    BY <1>7, <2>2 DEF ValueAt, Layer, Names
  <2>3. ASSUME NEW k \in Keys
        PROVE  Best(k)'
    <3>1. CASE k \in left'
      BY <1>7, <3>1 DEF Best, Top
    <3>2. CASE k \notin left'
      BY <1>7, <3>2 DEF Best, Top, ValueAt, Layer, Names
    <3> QED
      BY <3>1, <3>2
  <2> QED
    BY <1>7, <2>1, <2>2, <2>3 DEF LayerInv
<1>12. VerdictIsJust'
  <2>1. \A e \in Said(file') :
          /\ e[1] \notin Sensitive /\ TypesOf(e[1]) /= {} /\ e[2].kind /= "other"
          /\ e[2].kind \in {"number", "date"} => "bool" \notin TypesOf(e[1])
    BY <1>1, SoundFile
  <2> QED
    BY <1>7, <2>1, AbsentAssumption DEF VerdictIsJust, Faults
<1>13. OverrideInv'
  <2>1. ASSUME NEW k \in Keys
        PROVE  Tells(overrides, k, Mentioning(k, Top(k)))'
    <3>1. \A l, m \in Mentioning(k, Top(k))' : ~(l < m)
      BY <1>7 DEF Mentioning, Top
    <3>2. \A i \in DOMAIN overrides' : overrides'[i].flag /= k
      BY <1>7
    <3> QED
      BY <3>1, <3>2, NothingTold
  <2> QED
    BY <1>7, <2>1 DEF OverrideInv, Configured
<1> QED
  BY <1>8, <1>9, <1>10, <1>11, <1>12, <1>13 DEF IInv

-----------------------------------------------------------------------------
(* The steps between loading and running *)

\* One more entry of the layer, which is now the best for its flag.
LEMMA ApplyEntryStep ==
  ASSUME IInv, ApplyEntry
  PROVE  IInv'
<1> DEFINE L == Layer(config, layer)
<1>1. /\ pc = "resolve" /\ pc' = "resolve" /\ InUse /\ InUse'
      /\ typed' = typed /\ config' = config /\ layer' = layer /\ UNCHANGED loaded
      /\ flags' = flags /\ warnings' = warnings
  BY DEF ApplyEntry, InUse, loaded
<1>2. PICK k \in left :
        /\ resolved' = [resolved EXCEPT ![k] = [value |-> L.set[k], source |-> L.source]]
        /\ overrides' = IF resolved[k] = NoValue THEN overrides
             ELSE Append(overrides, [by |-> L.name, flag |-> k, was |-> resolved[k].source])
        /\ left' = left \ {k}
  BY DEF ApplyEntry
<1>3. /\ layer \in 1 .. Depth(config) /\ k \in Keys /\ L.set[k] /= NoValue
      /\ Suits(L.set) /\ L.source \in Sources
      /\ L.name \in {"defaults", "command", "runtime"} \cup Profiles
  <2>1. layer \in 1 .. Depth(config) /\ k \in Keys /\ ValueAt(layer, k) /= NoValue
    BY <1>1, <1>2 DEF IInv, LayerInv, TypeOK
  <2> QED
    BY <1>1, <2>1, LayerTyped DEF IInv, TypeOK, ValueAt
<1> HIDE DEF L
<1>4. TypeOK'
  <2>1. [value |-> L.set[k], source |-> L.source] \in Choices
    BY <1>3 DEF Suits, FlagSet, Choices
  <2>2. resolved' \in [Keys -> Choices \cup {NoValue}]
    BY <1>2, <2>1 DEF IInv, TypeOK
  <2>3. resolved[k] /= NoValue => resolved[k].source \in Sources
    BY <1>3 DEF IInv, TypeOK, Choices
  <2> DEFINE O == [by : {"defaults", "command", "runtime"} \cup Profiles, flag : Keys, was : Sources]
             o == [by |-> L.name, flag |-> k, was |-> resolved[k].source]
  <2>4. resolved[k] /= NoValue => o \in O
    BY <1>3, <2>3
  <2>5. overrides \in Seq(O) /\ overrides' = IF resolved[k] = NoValue THEN overrides ELSE Append(overrides, o)
    BY <1>2 DEF IInv, TypeOK
  <2> HIDE DEF O, o
  <2>6. overrides' \in Seq(O)
    BY <2>4, <2>5
  <2> QED
    BY <1>1, <1>2, <2>2, <2>6 DEF ApplyEntry, IInv, TypeOK, loaded, O
<1>5. StartInv' /\ FlagInv'
  BY <1>1 DEF IInv, StartInv, FlagInv, Configured
<1>6. ConfigInv'
  BY <1>1, SameConfig DEF IInv
<1>7. LayerInv'
  <2>1. /\ Depth(config)' = Depth(config) /\ \A i : Layer(config, i)' = Layer(config, i)
        /\ \A i, n : ValueAt(i, n)' = ValueAt(i, n)
    BY <1>1, SameLayers
  <2>2. ASSUME NEW n \in Keys PROVE Best(n)'
    <3>1. CASE n = k
      <4>1. Top(n)' = layer /\ layer \in 1 .. layer
        BY <1>1, <1>2, <1>3, <3>1 DEF Top, IInv, TypeOK
      <4>2. /\ ValueAt(layer, n) /= NoValue
            /\ resolved'[n] = [value |-> ValueAt(layer, n), source |-> Layer(config, layer).source]
        BY <1>2, <1>3, <3>1 DEF ValueAt, L, IInv, TypeOK
      <4> QED
        BY <1>1, <2>1, <4>1, <4>2 DEF Best
    <3>2. CASE n /= k
      <4>1. Top(n)' = Top(n) /\ resolved'[n] = resolved[n]
        BY <1>1, <1>2, <3>2 DEF Top, IInv, TypeOK
      <4>2. Best(n)
        BY <1>1 DEF IInv, LayerInv
      <4>3. CASE resolved[n] = NoValue /\ \A i \in 1 .. Top(n) : ValueAt(i, n) = NoValue
        BY <2>1, <4>1, <4>3 DEF Best
      <4>4. CASE \E m \in 1 .. Top(n) :
                   /\ ValueAt(m, n) /= NoValue
                   /\ resolved[n] = [value |-> ValueAt(m, n), source |-> Layer(config, m).source]
                   /\ \A i \in m + 1 .. Top(n) : ValueAt(i, n) = NoValue
        BY <2>1, <4>1, <4>4 DEF Best
      <4> QED
        BY <4>2, <4>3, <4>4 DEF Best
    <3> QED
      BY <3>1, <3>2
  <2> QED
    BY <1>1, <1>2, <1>3, <2>1, <2>2 DEF IInv, LayerInv
<1>8. VerdictIsJust'
  BY <1>1, SameVerdict DEF IInv
<1>9. OverrideInv'
  <2> DEFINE O == [by : {"defaults", "command", "runtime"} \cup Profiles, flag : Keys, was : Sources]
             o == [by |-> L.name, flag |-> k, was |-> resolved[k].source]
  <2>1. /\ overrides \in Seq(O)
        /\ overrides' = IF resolved[k] = NoValue THEN overrides ELSE Append(overrides, o)
        /\ o.flag = k /\ o.by = Layer(config, layer).name /\ o.was = resolved[k].source
    BY <1>2 DEF IInv, TypeOK, L
  <2>2. resolved[k] /= NoValue => o \in O
    BY <1>3 DEF IInv, TypeOK, Choices
  <2>3. ASSUME NEW n \in Keys
        PROVE  Tells(overrides', n, Mentioning(n, Top(n)'))
    <3>1. Tells(overrides, n, Mentioning(n, Top(n)))
      BY <1>1 DEF IInv, OverrideInv
    <3>2. CASE n /= k
      <4>1. Top(n)' = Top(n)
        BY <1>1, <1>2, <3>2 DEF Top
      <4> HIDE DEF o, O
      <4> QED
        BY <2>1, <2>2, <3>1, <3>2, <4>1, OtherTold
    <3>3. CASE n = k
      <4>1. Top(k) = layer - 1 /\ Top(k)' = layer /\ layer \in Int
        BY <1>1, <1>2 DEF Top, IInv, TypeOK
      <4>2. Mentioning(k, layer) = Mentioning(k, layer - 1) \cup {layer}
        BY <1>3, <4>1 DEF Mentioning, ValueAt, L
      <4>3. /\ Mentioning(k, layer - 1) \in SUBSET Int
            /\ \A l \in Mentioning(k, layer - 1) : l < layer
        BY <4>1 DEF Mentioning
      <4>4. Best(k)
        BY <1>1, <1>3 DEF IInv, LayerInv
      <4> HIDE DEF o, O
      <4>5. CASE \A i \in 1 .. Top(k) : ValueAt(i, k) = NoValue
        <5>1. Mentioning(k, layer - 1) = {}
          BY <4>1, <4>5 DEF Mentioning
        <5>2. \A i \in DOMAIN overrides : overrides[i].flag /= k
          BY <3>1, <3>3, <4>1, <5>1 DEF Tells
        <5>3. resolved[k] = NoValue
          BY <4>4, <4>5 DEF Best
        <5>4. overrides' = overrides
          BY <2>1, <5>3
        <5>5. \A l, m \in Mentioning(k, layer) : ~(l < m)
          BY <4>1, <4>2, <5>1
        <5> QED
          BY <3>3, <4>1, <5>2, <5>4, <5>5, NothingTold
      <4>6. CASE \E m \in 1 .. Top(k) :
                   /\ ValueAt(m, k) /= NoValue
                   /\ resolved[k] = [value |-> ValueAt(m, k), source |-> Layer(config, m).source]
                   /\ \A i \in m + 1 .. Top(k) : ValueAt(i, k) = NoValue
        <5>1. PICK m \in 1 .. Top(k) :
                /\ ValueAt(m, k) /= NoValue
                /\ resolved[k] = [value |-> ValueAt(m, k), source |-> Layer(config, m).source]
                /\ \A i \in m + 1 .. Top(k) : ValueAt(i, k) = NoValue
          BY <4>6
        <5>2. /\ m \in Mentioning(k, layer - 1)
              /\ \A l \in Mentioning(k, layer - 1) : l <= m
          BY <4>1, <5>1 DEF Mentioning
        <5>3. resolved[k] /= NoValue
          <6>1. m \in 1 .. Depth(config)
            BY <1>3, <4>1, <5>1, <1>1 DEF IInv, ConfigInv, Depth
          <6>2. Suits(Layer(config, m).set) /\ Layer(config, m).source \in Sources
            BY <1>1, <6>1, LayerTyped DEF IInv, TypeOK
          <6>3. resolved[k] \in Choices
            BY <1>3, <5>1, <6>2 DEF Suits, FlagSet, ValueAt, Choices
          <6> QED
            BY <6>3, AbsentAssumption
        <5>4. overrides' = Append(overrides, o) /\ o \in O
          BY <2>1, <2>2, <5>3
        <5>5. o.was = Layer(config, m).source
          BY <2>1, <5>1
        <5>6. Tells(overrides, k, Mentioning(k, layer - 1))
          BY <3>1, <3>3, <4>1
        <5>7. Tells(Append(overrides, o), k, Mentioning(k, layer - 1) \cup {layer})
          BY <2>1, <4>1, <4>3, <5>2, <5>4, <5>5, <5>6, OneMoreTold
        <5> QED
          BY <3>3, <4>1, <4>2, <5>4, <5>7
      <4> QED
        BY <4>4, <4>5, <4>6 DEF Best
    <3> QED
      BY <3>2, <3>3
  <2> HIDE DEF o, O
  <2>4. \A n \in Keys : Tells(overrides, n, Mentioning(n, Top(n)))'
    BY <1>1, <2>3, SameStory
  <2> QED
    BY <1>1, <2>4 DEF OverrideInv, Configured
<1> QED
  BY <1>4, <1>5, <1>6, <1>7, <1>8, <1>9 DEF IInv

\* The next layer begins, with none of its entries applied.
LEMMA NextLayerStep ==
  ASSUME IInv, NextLayer
  PROVE  IInv'
<1>1. /\ pc = "resolve" /\ pc' = "resolve" /\ InUse /\ InUse'
      /\ typed' = typed /\ config' = config /\ UNCHANGED loaded /\ resolved' = resolved
      /\ flags' = flags /\ warnings' = warnings /\ left = {}
      /\ layer < Depth(config) /\ layer' = layer + 1
      /\ left' = {k \in Keys : ValueAt(layer + 1, k) /= NoValue}
  BY DEF NextLayer, InUse, loaded, resolution, Names, ValueAt
<1>2. layer \in 1 .. Depth(config) /\ Depth(config) \in Nat
  <2>1. config.uses \in Seq(Profiles)
    BY <1>1 DEF IInv, ConfigInv
  <2> QED
    BY <1>1, <2>1 DEF IInv, LayerInv, Depth
<1>3. TypeOK'
  BY <1>1, <1>2 DEF NextLayer, IInv, TypeOK, loaded, resolution
<1>4. StartInv' /\ FlagInv'
  BY <1>1 DEF IInv, StartInv, FlagInv, Configured
<1>5. ConfigInv'
  BY <1>1, SameConfig DEF IInv
<1>6. LayerInv'
  <2>1. /\ Depth(config)' = Depth(config) /\ \A i : Layer(config, i)' = Layer(config, i)
        /\ \A i, n : ValueAt(i, n)' = ValueAt(i, n)
    BY <1>1, SameLayers
  <2>2. ASSUME NEW n \in Keys PROVE Best(n)'
    <3>1. Best(n) /\ Top(n) = layer /\ resolved'[n] = resolved[n]
      BY <1>1 DEF IInv, LayerInv, Top
    <3>2. CASE n \in left'
      <4>1. Top(n)' = layer
        BY <1>1, <1>2, <3>2 DEF Top
      <4> QED
        BY <2>1, <3>1, <4>1 DEF Best
    <3>3. CASE n \notin left'
      <4>1. Top(n)' = layer + 1 /\ ValueAt(layer + 1, n) = NoValue
        BY <1>1, <3>3 DEF Top
      <4>2. CASE resolved[n] = NoValue /\ \A i \in 1 .. layer : ValueAt(i, n) = NoValue
        BY <1>2, <2>1, <3>1, <4>1, <4>2 DEF Best
      <4>3. CASE \E m \in 1 .. layer :
                   /\ ValueAt(m, n) /= NoValue
                   /\ resolved[n] = [value |-> ValueAt(m, n), source |-> Layer(config, m).source]
                   /\ \A i \in m + 1 .. layer : ValueAt(i, n) = NoValue
        <5>1. PICK m \in 1 .. layer :
                /\ ValueAt(m, n) /= NoValue
                /\ resolved[n] = [value |-> ValueAt(m, n), source |-> Layer(config, m).source]
                /\ \A i \in m + 1 .. layer : ValueAt(i, n) = NoValue
          BY <4>3
        <5>2. m \in 1 .. layer + 1 /\ \A i \in m + 1 .. layer + 1 : ValueAt(i, n) = NoValue
          BY <1>2, <4>1, <5>1
        <5> QED
          BY <2>1, <3>1, <4>1, <5>1, <5>2 DEF Best
      <4> QED
        BY <3>1, <4>2, <4>3 DEF Best
    <3> QED
      BY <3>2, <3>3
  <2> QED
    BY <1>1, <1>2, <2>1, <2>2 DEF LayerInv
<1>7. VerdictIsJust'
  BY <1>1, SameVerdict DEF IInv
<1>8. OverrideInv'
  <2>1. ASSUME NEW n \in Keys
        PROVE  Tells(overrides', n, Mentioning(n, Top(n)'))
    <3>1. Tells(overrides, n, Mentioning(n, Top(n))) /\ Top(n) = layer
      BY <1>1 DEF IInv, OverrideInv, Top
    <3>2. Mentioning(n, Top(n)') = Mentioning(n, layer)
      BY <1>1, <1>2 DEF Mentioning, Top
    <3>3. overrides' = overrides
      BY DEF NextLayer, resolution
    <3> QED
      BY <3>1, <3>2, <3>3
  <2>2. \A n \in Keys : Tells(overrides, n, Mentioning(n, Top(n)))'
    BY <1>1, <2>1, SameStory
  <2> QED
    BY <1>1, <2>2 DEF OverrideInv, Configured
<1> QED
  BY <1>3, <1>4, <1>5, <1>6, <1>7, <1>8 DEF IInv

\* When the layers are applied, they stay so.
LEMMA SameBest ==
  ASSUME IInv, InUse, InUse', left = {} \/ pc = "set", pc' /= "resolve",
         UNCHANGED <<typed, config, layer, resolved, overrides>>, layer = Depth(config)
  PROVE  LayerInv' /\ \A n \in Keys : Tells(overrides, n, Mentioning(n, Top(n)))'
<1>1. /\ Depth(config)' = Depth(config) /\ \A i : Layer(config, i)' = Layer(config, i)
      /\ \A i, n : ValueAt(i, n)' = ValueAt(i, n)
  BY SameLayers
<1>2. ASSUME NEW n \in Keys PROVE Best(n)'
  <2>1. Best(n) /\ Top(n) = layer /\ Top(n)' = layer
    BY DEF IInv, LayerInv, Top
  <2> QED
    BY <1>1, <2>1 DEF Best
<1>3. ASSUME NEW n \in Keys PROVE Tells(overrides, n, Mentioning(n, Top(n)))'
  <2>1. Tells(overrides, n, Mentioning(n, Top(n))) /\ Top(n)' = Top(n)
    BY DEF IInv, OverrideInv, LayerInv, Top
  <2> QED
    BY <2>1, SameStory
<1> QED
  BY <1>1, <1>2, <1>3 DEF IInv, LayerInv

\* All layers have been applied, and no flag is set yet.
LEMMA ResolvedStep ==
  ASSUME IInv, Resolved
  PROVE  IInv'
<1>1. /\ pc = "resolve" /\ pc' = "set" /\ InUse /\ InUse'
      /\ typed' = typed /\ config' = config /\ UNCHANGED loaded /\ resolved' = resolved
      /\ flags' = flags /\ warnings' = warnings /\ left = {}
      /\ layer' = layer /\ layer = Depth(config)
      /\ left' = {k \in Keys : resolved[k] /= NoValue}
  BY DEF Resolved, Goto, InUse, loaded, resolution
<1>2. TypeOK'
  BY <1>1 DEF Resolved, Goto, IInv, TypeOK, loaded, resolution
<1>3. StartInv'
  BY <1>1 DEF StartInv
<1>4. FlagInv'
  BY <1>1 DEF IInv, FlagInv, Handled, Configured
<1>5. ConfigInv'
  BY <1>1, SameConfig DEF IInv
<1>6. LayerInv' /\ OverrideInv'
  <2>1. overrides' = overrides
    BY DEF Resolved, resolution
  <2> QED
    BY <1>1, <2>1, SameBest DEF OverrideInv, Configured
<1>7. VerdictIsJust'
  BY <1>1, SameVerdict DEF IInv
<1> QED
  BY <1>2, <1>3, <1>4, <1>5, <1>6, <1>7 DEF IInv

\* A flag is set, or warned about.
LEMMA SetFlagStep ==
  ASSUME IInv, SetFlag
  PROVE  IInv'
<1>1. /\ pc = "set" /\ pc' = "set" /\ InUse /\ InUse'
      /\ typed' = typed /\ config' = config /\ UNCHANGED loaded /\ resolved' = resolved
      /\ layer' = layer
  BY DEF SetFlag, InUse, loaded
<1>2. PICK k \in left :
        /\ IF k \in Flags
           THEN flags' = [flags EXCEPT ![k] = resolved[k].value] /\ warnings' = warnings
           ELSE warnings' = warnings \cup {k} /\ flags' = flags
        /\ left' = left \ {k}
  BY DEF SetFlag
<1>3. layer = Depth(config)
  BY <1>1 DEF IInv, LayerInv
<1>4. k \in Keys /\ resolved[k] /= NoValue /\ flags[k] = typed[k]
  BY <1>1, <1>2 DEF IInv, FlagInv, TypeOK
<1>5. TypeOK'
  <2>1. resolved[k].value \in Values
    BY <1>4 DEF IInv, TypeOK, Choices
  <2>2. flags' \in FlagSet
    BY <1>2, <2>1 DEF IInv, TypeOK, FlagSet
  <2>3. warnings' \subseteq Keys \ Flags
    BY <1>2, <1>4 DEF IInv, TypeOK
  <2> QED
    BY <1>1, <1>2, <2>2, <2>3 DEF SetFlag, IInv, TypeOK, loaded
<1>6. StartInv'
  BY <1>1 DEF StartInv
<1>7. FlagInv'
  <2>1. ASSUME NEW n \in Keys
        PROVE  IF n \in left' THEN resolved'[n] /= NoValue /\ flags'[n] = typed'[n] ELSE Handled(n)'
    <3>1. IF n \in left THEN resolved[n] /= NoValue /\ flags[n] = typed[n] ELSE Handled(n)
      BY <1>1 DEF IInv, FlagInv
    <3>2. CASE n = k
      BY <1>1, <1>2, <1>4, <3>2 DEF Handled, IInv, TypeOK, FlagSet
    <3>3. CASE n /= k
      BY <1>1, <1>2, <3>1, <3>3 DEF Handled, IInv, TypeOK, FlagSet
    <3> QED
      BY <3>2, <3>3
  <2> QED
    BY <1>1, <2>1 DEF FlagInv, Configured
<1>8. ConfigInv'
  BY <1>1, SameConfig DEF IInv
<1>9. LayerInv' /\ OverrideInv'
  <2>1. overrides' = overrides
    BY DEF SetFlag
  <2> QED
    BY <1>1, <1>3, <2>1, SameBest DEF OverrideInv, Configured
<1>10. VerdictIsJust'
  BY <1>1, SameVerdict DEF IInv
<1> QED
  BY <1>5, <1>6, <1>7, <1>8, <1>9, <1>10 DEF IInv

\* The summary tells what has been resolved.
LEMMA RunStep ==
  ASSUME IInv, Run
  PROVE  IInv'
<1>1. /\ pc = "set" /\ pc' = "run" /\ InUse
      /\ typed' = typed /\ config' = config /\ UNCHANGED loaded /\ resolved' = resolved
      /\ layer' = layer /\ left = {} /\ left' = left /\ flags' = flags /\ warnings' = warnings
      /\ summary' = Summary
  BY DEF Run, Goto, InUse, loaded, resolution
<1>2. layer = Depth(config)
  BY <1>1 DEF IInv, LayerInv
<1>3. TypeOK'
  BY <1>1 DEF Run, Goto, IInv, TypeOK, loaded, resolution
<1>4. StartInv'
  BY <1>1 DEF StartInv
<1>5. FlagInv'
  BY <1>1 DEF IInv, FlagInv, Handled, Configured, Summary
<1>6. ConfigInv'
  BY <1>1, SameConfig DEF IInv
<1>7. LayerInv' /\ OverrideInv'
  <2>1. overrides' = overrides /\ (Configured' => summary'.overrides = overrides')
    BY <1>1 DEF Run, resolution, Summary
  <2>2. CASE InUse'
    BY <1>1, <1>2, <2>1, <2>2, SameBest DEF OverrideInv
  <2> QED
    BY <2>1, <2>2 DEF LayerInv, OverrideInv
<1>8. VerdictIsJust'
  BY <1>1, SameVerdict DEF IInv
<1> QED
  BY <1>3, <1>4, <1>5, <1>6, <1>7, <1>8 DEF IInv

-----------------------------------------------------------------------------
(* The invariant, and what it implies *)

\* Every step preserves the inductive invariant.
LEMMA NextIInv == IInv /\ [Next]_vars => IInv'
<1> SUFFICES ASSUME IInv, [Next]_vars PROVE IInv'
  OBVIOUS
<1>1. CASE Locate \/ RejectPath \/ RunUnconfigured
  BY <1>1, LocateStep
<1>2. CASE FileGone
  BY <1>2, FileGoneStep
<1>3. CASE RejectFile
  BY <1>3, RejectFileStep
<1>4. CASE RejectCommand
  BY <1>4, RejectCommandStep
<1>5. CASE Load
  BY <1>5, LoadStep
<1>6. CASE ApplyEntry
  BY <1>6, ApplyEntryStep
<1>7. CASE NextLayer
  BY <1>7, NextLayerStep
<1>8. CASE Resolved
  BY <1>8, ResolvedStep
<1>9. CASE SetFlag
  BY <1>9, SetFlagStep
<1>10. CASE Run
  BY <1>10, RunStep
<1>11. CASE UNCHANGED vars
  <2>1. TypeOK' /\ StartInv' /\ FlagInv'
    BY <1>11 DEF vars, IInv, TypeOK, StartInv, FlagInv, Handled, Configured
  <2>2. ConfigInv'
    BY <1>11, SameConfig DEF vars, InUse, Configured, IInv
  <2>3. VerdictIsJust'
    BY <1>11, SameVerdict DEF vars, loaded, IInv
  <2>4. LayerInv'
    <3>1. /\ Depth(config)' = Depth(config) /\ \A i : Layer(config, i)' = Layer(config, i)
          /\ \A i, n : ValueAt(i, n)' = ValueAt(i, n)
      BY <1>11, SameLayers DEF vars
    <3>2. \A n : Top(n)' = Top(n)
      BY <1>11 DEF vars, Top
    <3>3. ASSUME NEW n \in Keys, Best(n) PROVE Best(n)'
      BY <1>11, <3>1, <3>2, <3>3 DEF vars, Best
    <3> QED
      BY <1>11, <3>1, <3>3 DEF vars, LayerInv, InUse, Configured, IInv
  <2>5. OverrideInv'
    <3>1. ASSUME NEW n \in Keys, Tells(overrides, n, Mentioning(n, Top(n)))
          PROVE  Tells(overrides, n, Mentioning(n, Top(n)))'
      <4>1. Top(n)' = Top(n)
        BY <1>11 DEF vars, Top
      <4> QED
        BY <1>11, <3>1, <4>1, SameStory DEF vars
    <3> QED
      BY <1>11, <3>1 DEF vars, OverrideInv, InUse, Configured, IInv
  <2> QED
    BY <2>1, <2>2, <2>3, <2>4, <2>5 DEF IInv
<1> QED
  BY <1>1, <1>2, <1>3, <1>4, <1>5, <1>6, <1>7, <1>8, <1>9, <1>10, <1>11 DEF Next

\* IInv holds of every reachable state.
THEOREM Invariance == Spec => []IInv
<1> QED
  BY InitIInv, NextIInv, PTL DEF Spec

\* Every variable keeps to its type: an overriding has a source, a warning is
\* about a flag that the command does not have.
THEOREM Typing == Spec => []TypeOK
<1>1. IInv => TypeOK
  BY DEF IInv
<1> QED
  BY <1>1, Invariance, PTL

\* A file that is used has nothing that the loader should refuse, and one that
\* is refused has the fault that is reported.
THEOREM JustVerdict == Spec => []VerdictIsJust
<1>1. IInv => VerdictIsJust
  BY DEF IInv
<1> QED
  BY <1>1, Invariance, PTL

\* The override list in the summary tells of every layer that superseded an
\* earlier one, for any number of layers and any order of their entries.
THEOREM OverridesTold == Spec => []OverridesAreComplete
<1>1. IInv => OverridesAreComplete
  <2> SUFFICES ASSUME IInv, Configured, NEW k \in Keys
               PROVE  Tells(summary.overrides, k, Mentioning(k, Depth(config)))
    BY DEF OverridesAreComplete
  <2>1. Top(k) = Depth(config) /\ InUse
    BY DEF IInv, LayerInv, Top, InUse, Configured
  <2> QED
    BY <2>1 DEF IInv, OverrideInv
<1> QED
  BY <1>1, Invariance, PTL

\* The mentions of a flag are the values that the layers have for it.
LEMMA MentionsAreLayers ==
  ASSUME ConfigInv, InUse, NEW k \in Keys
  PROVE  \A m : m \in Mentions(k) <=>
           \E i \in 1 .. Depth(config) : ValueAt(i, k) /= NoValue /\ m = <<i - 1, ValueAt(i, k)>>
<1> DEFINE n == Len(config.uses)
<1>1. n \in Nat /\ Depth(config) = n + 3
  BY DEF ConfigInv, Depth
<1>2. /\ ValueAt(1, k) = config.defaults[k]
      /\ ValueAt(n + 2, k) = config.flags[k]
      /\ ValueAt(n + 3, k) = typed[k]
  BY <1>1 DEF ValueAt, Layer
<1>3. \A i \in 1 .. n : ValueAt(i + 1, k) = config.profiles[config.uses[i]][k]
  BY <1>1 DEF ValueAt, Layer, ProfileLayer
<1>4. ASSUME NEW m, m \in Mentions(k)
      PROVE  \E i \in 1 .. Depth(config) : ValueAt(i, k) /= NoValue /\ m = <<i - 1, ValueAt(i, k)>>
  <2>1. CASE m = <<0, config.defaults[k]>>
    BY <1>1, <1>2, <1>4, <2>1 DEF Mentions
  <2>2. CASE m = <<n + 1, config.flags[k]>>
    <3>1. n + 2 \in 1 .. Depth(config) /\ (n + 2) - 1 = n + 1
      BY <1>1
    <3> QED
      BY <1>2, <1>4, <2>2, <3>1 DEF Mentions
  <2>3. CASE m = <<n + 2, typed[k]>>
    <3>1. n + 3 \in 1 .. Depth(config) /\ (n + 3) - 1 = n + 2
      BY <1>1
    <3> QED
      BY <1>2, <1>4, <2>3, <3>1 DEF Mentions
  <2>4. CASE \E i \in 1 .. n : m = <<i, config.profiles[config.uses[i]][k]>>
    <3>1. PICK i \in 1 .. n : m = <<i, config.profiles[config.uses[i]][k]>>
      BY <2>4
    <3>2. i + 1 \in 1 .. Depth(config) /\ (i + 1) - 1 = i
      BY <1>1
    <3> QED
      BY <1>3, <1>4, <3>1, <3>2 DEF Mentions
  <2> QED
    BY <1>4, <2>1, <2>2, <2>3, <2>4 DEF Mentions
<1>5. ASSUME NEW i \in 1 .. Depth(config), ValueAt(i, k) /= NoValue
      PROVE  <<i - 1, ValueAt(i, k)>> \in Mentions(k)
  <2>1. CASE i = 1
    BY <1>2, <1>5, <2>1 DEF Mentions
  <2>2. CASE i = n + 2
    <3>1. i - 1 = n + 1
      BY <1>1, <2>2
    <3> QED
      BY <1>2, <1>5, <2>2, <3>1 DEF Mentions
  <2>3. CASE i = n + 3
    <3>1. i - 1 = n + 2
      BY <1>1, <2>3
    <3> QED
      BY <1>2, <1>5, <2>3, <3>1 DEF Mentions
  <2>4. CASE i - 1 \in 1 .. n
    <3>1. ValueAt(i, k) = config.profiles[config.uses[i - 1]][k]
      BY <1>1, <1>3, <2>4
    <3> QED
      BY <1>5, <2>4, <3>1 DEF Mentions
  <2> QED
    BY <1>1, <2>1, <2>2, <2>3, <2>4
<1> QED
  BY <1>4, <1>5

\* The command runs with the most specific value of each of its flags.
THEOREM Precedence == Spec => []EffectiveByPrecedence
<1>1. IInv => EffectiveByPrecedence
  <2> SUFFICES ASSUME IInv, Configured, NEW k \in Flags
               PROVE  IF Mentions(k) = {} THEN flags[k] = NoValue
                      ELSE /\ flags[k] /= NoValue /\ flags[k].type = FlagTypes(Command)[k]
                           /\ \E m \in Mentions(k) :
                                flags[k] = m[2] /\ \A n \in Mentions(k) : n[1] <= m[1]
    BY DEF EffectiveByPrecedence
  <2>1. /\ InUse /\ k \in Keys /\ Handled(k) /\ Best(k) /\ Top(k) = Depth(config)
        /\ Depth(config) \in Nat /\ Depth(config) >= 3
    BY CommandTypes DEF Configured, InUse, IInv, ConfigInv, FlagInv, LayerInv, Top, Depth
  <2>2. \A m : m \in Mentions(k) <=>
          \E i \in 1 .. Depth(config) : ValueAt(i, k) /= NoValue /\ m = <<i - 1, ValueAt(i, k)>>
    BY <2>1, MentionsAreLayers DEF IInv
  <2>3. CASE resolved[k] = NoValue /\ \A i \in 1 .. Top(k) : ValueAt(i, k) = NoValue
    <3>1. Mentions(k) = {}
      BY <2>1, <2>2, <2>3
    <3>2. typed[k] = ValueAt(Depth(config), k)
      BY <2>1 DEF ValueAt, Layer
    <3> QED
      BY <2>1, <2>3, <3>1, <3>2 DEF Handled
  <2>4. CASE \E m \in 1 .. Top(k) :
               /\ ValueAt(m, k) /= NoValue
               /\ resolved[k] = [value |-> ValueAt(m, k), source |-> Layer(config, m).source]
               /\ \A i \in m + 1 .. Top(k) : ValueAt(i, k) = NoValue
    <3>1. PICK m \in 1 .. Top(k) :
            /\ ValueAt(m, k) /= NoValue
            /\ resolved[k] = [value |-> ValueAt(m, k), source |-> Layer(config, m).source]
            /\ \A i \in m + 1 .. Top(k) : ValueAt(i, k) = NoValue
      BY <2>4
    <3>2. <<m - 1, ValueAt(m, k)>> \in Mentions(k)
      BY <2>1, <2>2, <3>1
    <3>3. ASSUME NEW n \in Mentions(k) PROVE n[1] <= m - 1
      <4>1. PICK i \in 1 .. Depth(config) : ValueAt(i, k) /= NoValue /\ n = <<i - 1, ValueAt(i, k)>>
        BY <2>2
      <4> QED
        BY <2>1, <3>1, <4>1
    <3>4. Suits(Layer(config, m).set)
      BY <2>1, <3>1, LayerTyped DEF IInv, TypeOK
    <3>5. ValueAt(m, k).type = FlagTypes(Command)[k]
      BY <3>1, <3>4 DEF Suits, ValueAt
    <3>6. resolved[k] /= NoValue
      BY <2>1, <3>1, <3>4, LayerTyped, AbsentAssumption DEF IInv, TypeOK, Suits, FlagSet, ValueAt, Choices
    <3>7. flags[k] = ValueAt(m, k)
      BY <2>1, <3>1, <3>6 DEF Handled
    <3> QED
      BY <3>1, <3>2, <3>3, <3>5, <3>7
  <2> QED
    BY <2>1, <2>3, <2>4 DEF Best
<1> QED
  BY <1>1, Invariance, PTL

\* The summary shows what is in effect, with its source, or warns.
THEOREM Truthfulness == Spec => []SummaryIsTruthful
<1>1. IInv => SummaryIsTruthful
  <2> SUFFICES ASSUME IInv, Configured, NEW k \in Keys
               PROVE  /\ summary.flags[k] /= NoValue =>
                           /\ \/ k \in summary.warnings
                              \/ k \in Flags /\ flags[k] = summary.flags[k].value
                           /\ \E i \in 1 .. Depth(config) :
                                /\ Layer(config, i).source = summary.flags[k].source
                                /\ Layer(config, i).set[k] = summary.flags[k].value
                      /\ flags[k] /= NoValue => summary.flags[k] /= NoValue
    BY DEF SummaryIsTruthful
  <2>1. /\ summary.flags = resolved /\ summary.warnings = warnings
        /\ Handled(k) /\ Best(k) /\ Top(k) = Depth(config)
        /\ Depth(config) \in Nat /\ Depth(config) >= 3
    BY DEF Configured, InUse, IInv, ConfigInv, FlagInv, LayerInv, Top, Depth
  <2>2. ASSUME resolved[k] /= NoValue
        PROVE  \E i \in 1 .. Depth(config) :
                 /\ Layer(config, i).source = resolved[k].source
                 /\ Layer(config, i).set[k] = resolved[k].value
    <3>1. PICK m \in 1 .. Top(k) :
            resolved[k] = [value |-> ValueAt(m, k), source |-> Layer(config, m).source]
      BY <2>1, <2>2 DEF Best
    <3>2. Layer(config, m).source = resolved[k].source /\ ValueAt(m, k) = resolved[k].value
      BY <3>1
    <3> QED
      BY <2>1, <3>2 DEF ValueAt
  <2>3. ASSUME resolved[k] = NoValue
        PROVE  flags[k] = NoValue
    <3>1. CASE \E m \in 1 .. Top(k) :
                 /\ ValueAt(m, k) /= NoValue
                 /\ resolved[k] = [value |-> ValueAt(m, k), source |-> Layer(config, m).source]
      <4>1. PICK m \in 1 .. Top(k) :
              /\ ValueAt(m, k) /= NoValue
              /\ resolved[k] = [value |-> ValueAt(m, k), source |-> Layer(config, m).source]
        BY <3>1
      <4>2. Suits(Layer(config, m).set) /\ Layer(config, m).source \in Sources
        BY <2>1, <4>1, LayerTyped DEF IInv, TypeOK, InUse
      <4>3. resolved[k] \in Choices
        BY <4>1, <4>2 DEF Suits, FlagSet, ValueAt, Choices
      <4> QED
        BY <2>3, <4>3, AbsentAssumption
    <3>2. CASE \A i \in 1 .. Top(k) : ValueAt(i, k) = NoValue
      <4>1. typed[k] = ValueAt(Depth(config), k)
        BY <2>1 DEF ValueAt, Layer
      <4> QED
        BY <2>1, <2>3, <3>2, <4>1 DEF Handled
    <3> QED
      BY <2>1, <3>1, <3>2 DEF Best
  <2> QED
    BY <2>1, <2>2, <2>3 DEF Handled
<1> QED
  BY <1>1, Invariance, PTL
=============================================================================
