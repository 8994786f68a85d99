----------------------------- MODULE ConfigFile -----------------------------
(***************************************************************************)
(* internal/config.Loader: a YAML file against the catalog of the commands *)
(* and flags that the program has. All of it is validated, whatever of it  *)
(* is used later, and its values are coerced to the types of their flags.  *)
(***************************************************************************)
EXTENDS Integers, Sequences

CONSTANTS
  Keys,       \* names that may stand for a flag
  Sensitive,  \* those of them that isSensitive finds a marker in
  Catalog,    \* the commands in the order of the tree, with the types of their flags
  Blank,      \* a command key of nothing but space
  Texts,      \* texts of scalars
  Bools,      \* Bools[t]: the boolean that the string t spells
  Printed,    \* Printed[t]: the number or date written as t, as Go prints it
  NoValue     \* an absent entry, and a value that a type cannot take

FlagKinds == {"bool", "string", "list"}

\* Flags of one name have one type in all commands.
ASSUME CatalogAssumption ==
  \A i \in 1 .. Len(Catalog) :
    /\ DOMAIN Catalog[i].types \subseteq Keys
    /\ \A k \in DOMAIN Catalog[i].types :
         /\ Catalog[i].types[k] \in FlagKinds
         /\ \A j \in 1 .. Len(Catalog) : k \in DOMAIN Catalog[j].types =>
              Catalog[i].types[k] = Catalog[j].types[k]

ASSUME TextsAssumption ==
  /\ \A t \in DOMAIN Bools : Bools[t] \in Texts
  /\ \A t \in DOMAIN Printed : Printed[t] \in Texts

\* The values of flags.
Values == [type : {"bool", "string"}, text : Texts] \cup [type : {"list"}, text : Seq(Texts)]

FlagSet == [Keys -> Values \cup {NoValue}]

\* What YAML gives: strings, booleans, numbers, dates, lists of these, and what
\* no flag takes (null, a map).
Scalars ==
  [kind : {"string", "bool", "other"}, text : Texts]
    \cup [kind : {"number", "date"}, text : DOMAIN Printed]

Raws == Scalars \cup [kind : {"list"}, text : Seq(Scalars)]

RawFlagSet == [Keys -> Raws \cup {NoValue}]

ASSUME NoValueAssumption == NoValue \notin Texts \cup Values \cup Raws

Names(set) == {k \in Keys : set[k] /= NoValue}

-----------------------------------------------------------------------------
(* FlagCatalog *)

Commands == {Catalog[i].path : i \in 1 .. Len(Catalog)}

\* The types of the flags of a command.
FlagTypes(command) == Catalog[CHOOSE i \in 1 .. Len(Catalog) : Catalog[i].path = command].types

Having(k) == {i \in 1 .. Len(Catalog) : k \in DOMAIN Catalog[i].types}

\* For defaults and profiles: any command with a flag tells its type.
AnyFlagTypes ==
  [k \in {n \in Keys : Having(n) /= {}} |-> Catalog[CHOOSE i \in Having(k) : TRUE].types[k]]

-----------------------------------------------------------------------------
(* coerceValue *)

Stringify(raw) ==
  CASE raw.kind \in {"string", "bool"} -> raw.text
    [] raw.kind \in {"number", "date"} -> Printed[raw.text]
    [] OTHER -> NoValue

CoerceBool(raw) ==
  IF raw.kind = "bool" \/ (raw.kind = "string" /\ raw.text \in DOMAIN Bools)
  THEN [type |-> "bool", text |-> IF raw.kind = "bool" THEN raw.text ELSE Bools[raw.text]]
  ELSE NoValue

CoerceList(raw) ==
  IF raw.kind = "string" THEN [type |-> "list", text |-> <<raw.text>>]
  ELSE IF raw.kind = "list" /\ \A i \in DOMAIN raw.text : Stringify(raw.text[i]) /= NoValue
  THEN [type |-> "list", text |-> [i \in DOMAIN raw.text |-> Stringify(raw.text[i])]]
  ELSE NoValue

CoerceString(raw) ==
  IF Stringify(raw) = NoValue THEN NoValue ELSE [type |-> "string", text |-> Stringify(raw)]

Coerce(type, raw) ==
  CASE type = "bool" -> CoerceBool(raw)
    [] type = "list" -> CoerceList(raw)
    [] OTHER -> CoerceString(raw)

-----------------------------------------------------------------------------
(* buildFlagSet *)

Errors_knownIsFine(entries, types) ==
  {IF k \notin DOMAIN types THEN "unknown flag" ELSE "type" :
     k \in {n \in Names(entries) : n \notin DOMAIN types \/ Coerce(types[n], entries[n]) = NoValue}}

\* What is wrong with entries for flags of these types, if anything: the first
\* error in the random order of a map is returned.
Errors(entries, types) ==
  {IF k \in Sensitive THEN "secret" ELSE IF k \notin DOMAIN types THEN "unknown flag" ELSE "type" :
     k \in {n \in Names(entries) :
              n \in Sensitive \/ n \notin DOMAIN types \/ Coerce(types[n], entries[n]) = NoValue}}

Coerced(entries, types) ==
  [k \in Keys |-> IF entries[k] = NoValue THEN NoValue ELSE Coerce(types[k], entries[k])]

-----------------------------------------------------------------------------
(* Loader.Load *)

DefaultErrors(file) == Errors(file.defaults, AnyFlagTypes)

ProfileErrors(file) == UNION {Errors(file.profiles[p], AnyFlagTypes) : p \in DOMAIN file.profiles}

\* A section under a blank key is passed over.
CommandErrors(file) ==
  UNION {IF s.key = Blank THEN {}
         ELSE IF s.key \notin Commands THEN {"unknown command"}
         ELSE Errors(s.flags, FlagTypes(s.key)) : s \in file.commands}

\* The errors that Load may return; it returns none if there are none.
FileErrors(file) ==
  IF ~file.decodes THEN {"parse"}
  ELSE IF DefaultErrors(file) /= {} THEN DefaultErrors(file)
  ELSE IF ProfileErrors(file) /= {} THEN ProfileErrors(file)
  ELSE CommandErrors(file)

\* The sections under a command's name. Keys that differ in space around them
\* are one name, and the last in the random order of the map is kept.
Sections(file, command) == {s \in file.commands : s.key = command}

\* What is loaded of a file, for one command.
Loaded(file, section) ==
  [defaults |-> Coerced(file.defaults, AnyFlagTypes),
   profiles |-> [p \in DOMAIN file.profiles |-> Coerced(file.profiles[p], AnyFlagTypes)],
   uses |-> section.profiles, flags |-> Coerced(section.flags, FlagTypes(section.key))]
=============================================================================
