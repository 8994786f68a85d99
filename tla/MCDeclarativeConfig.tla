------------------------ MODULE MCDeclarativeConfig -------------------------
(* DeclarativeConfig for TLC: a command with three flags, one with a list   *)
(* and one whose flag is sensitive; two profiles; files that mix the layers *)
(* of one command, and files that differ from a plain one in one respect.   *)
EXTENDS DeclarativeConfig, TLC

CONSTANTS chart, airgapped, output, labels, passphrase, misspelt,
          install, join, encrypt, typo, blank, p1, p2, p3,
          a, b, yes, no, one, json, cost, rounded

AllCatalog ==
  <<[path |-> install, types |-> chart :> "string" @@ airgapped :> "bool" @@ output :> "string"],
    [path |-> join, types |-> labels :> "list" @@ output :> "string"],
    [path |-> encrypt, types |-> passphrase :> "string"]>>

\* "1" spells true; 1.10 is printed as 1.1.
AllBools == yes :> yes @@ no :> no @@ one :> yes

AllPrinted == cost :> rounded

-----------------------------------------------------------------------------
(* Entries as YAML gives them *)

Raw(kind, text) == [kind |-> kind, text |-> text]

String(t) == Raw("string", t)

Nothing == [k \in Keys |-> NoValue]

Entry(k, raw) == [Nothing EXCEPT ![k] = raw]

Charts == {Nothing, Entry(chart, String(a)), Entry(chart, String(b))}

Uses == {<<>>, <<p1>>, <<p2>>, <<p1, p2>>, <<p2, p1>>, <<p1, p1>>}

Section(key, profiles, disabled, set) ==
  [key |-> key, profiles |-> profiles, disabled |-> disabled, flags |-> set]

\* The chart may come from any layer; other flags from some.
Right ==
  [decodes : {TRUE},
   defaults : {Nothing, Entry(chart, String(b)),
               [Entry(chart, String(a)) EXCEPT ![airgapped] = Raw("bool", no), ![labels] = String(a)]},
   profiles : {(p1 :> s @@ p2 :> t) : s \in Charts \cup {Entry(labels, Raw("list", <<String(a), Raw("number", cost)>>))},
                                      t \in Charts},
   commands : {{Section(install, u, FALSE, s)} :
                 u \in Uses, s \in Charts \cup {[Entry(chart, String(b)) EXCEPT ![airgapped] = String(one)]}}]

Plain ==
  [decodes |-> TRUE, defaults |-> Entry(chart, String(a)), profiles |-> (p1 :> Nothing @@ p2 :> Nothing),
   commands |-> {Section(install, <<p2>>, FALSE, Nothing)}]

\* Entries that are good for some flag or for none.
Peculiar ==
  {Entry(chart, Raw("number", cost)), Entry(chart, Raw("bool", yes)), Entry(chart, Raw("other", a)),
   Entry(chart, Raw("list", <<String(a)>>)), Entry(airgapped, Raw("number", cost)), Entry(airgapped, String(a)),
   Entry(labels, Raw("list", <<Raw("other", a)>>)), Entry(labels, Raw("bool", yes)), Entry(output, String(json)),
   Entry(passphrase, String(a)), Entry(misspelt, String(a)),
   [Entry(passphrase, String(a)) EXCEPT ![misspelt] = String(a), ![airgapped] = String(b)]}

\* A plain file that says this in one of its sections.
WithEntry(set) ==
  {[Plain EXCEPT !.defaults = set], [Plain EXCEPT !.profiles[p1] = set], [Plain EXCEPT !.profiles[p2] = set],
   [Plain EXCEPT !.commands = {Section(install, <<>>, FALSE, set)}],
   [Plain EXCEPT !.commands = @ \cup {Section(join, <<>>, TRUE, set)}],
   [Plain EXCEPT !.commands = @ \cup {Section(blank, <<>>, FALSE, set)}]}

\* Other commands than the one that runs, or that one disabled, with a
\* profile that nobody defined, or declared twice under keys that differ in space.
OtherCommands ==
  {{}, {Section(join, <<p1>>, FALSE, Nothing)}, {Section(typo, <<>>, FALSE, Nothing)},
   {Section(install, <<>>, TRUE, Nothing)}, {Section(install, <<p3>>, FALSE, Nothing)},
   {Section(install, <<>>, FALSE, Nothing), Section(join, <<p3>>, FALSE, Nothing)},
   {Section(install, <<p1>>, FALSE, Nothing), Section(install, <<>>, FALSE, Entry(chart, String(b)))},
   {Section(install, <<p1>>, FALSE, Nothing), Section(install, <<>>, TRUE, Nothing)}}

AllFiles ==
  Right \cup UNION {WithEntry(set) : set \in Peculiar}
  \cup {[Plain EXCEPT !.commands = c] : c \in OtherCommands} \cup {[Plain EXCEPT !.decodes = FALSE]}

AllTyped ==
  {Nothing, Entry(chart, [type |-> "string", text |-> b]),
   [Entry(output, [type |-> "string", text |-> json]) EXCEPT
      ![chart] = [type |-> "string", text |-> a], ![airgapped] = [type |-> "bool", text |-> yes]]}
=============================================================================
