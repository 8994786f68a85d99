---------------------------- MODULE MCAppRequest ----------------------------
(* AppRequest for TLC: a plain install of a chart, and requests that differ *)
(* from it in their source, in their names or in their state path.          *)
EXTENDS AppRequest, TLC

Plain ==
  [action |-> "install", endpoint |-> None, values |-> "values.enc", passphrase |-> "sesame",
   chart |-> [word |-> "oci://r/app:1.2", oci |-> TRUE, tag |-> "1.2", digest |-> None, rest |-> None],
   bundle |-> None, release |-> None, namespace |-> None, version |-> None,
   statePath |-> None, stateName |-> None, output |-> "text"]

Charts ==
  {Plain.chart,
   [word |-> "oci://r:5000/app", oci |-> TRUE, tag |-> None, digest |-> None, rest |-> "5000/app"],
   [word |-> "oci://r/app:1.2@sha256:d1", oci |-> TRUE, tag |-> "1.2", digest |-> "d1", rest |-> None],
   [word |-> "./charts/app", oci |-> FALSE, tag |-> None, digest |-> None, rest |-> None]}

OfSource ==
  {[Plain EXCEPT !.action = a, !.endpoint = e, !.chart = c, !.bundle = b, !.version = v] :
     a \in {"install", "upgrade"}, e \in {None, "https://c"}, c \in Charts \cup {None},
     b \in {None, "app.tar"}, v \in {None, "2.0"}}

OfNames ==
  {[Plain EXCEPT !.values = f, !.passphrase = p, !.release = r, !.namespace = n, !.output = o] :
     f \in {None, "values.enc", "secrets.enc"}, p \in {None, "sesame"}, r \in {None, "token-service"},
     n \in {None, "demo"}, o \in {"text", "json", "yaml"}}

OfState ==
  {[Plain EXCEPT !.statePath = p, !.stateName = n] :
     p \in {None} \cup [at : {"named"}, absolute : BOOLEAN, file : {"s.json"}],
     n \in {None, "my.json", "../my.json"}}

AllRequests == OfSource \cup OfNames \cup OfState

AllEnvironments == [xdg : {"unset", "absolute", "relative"}, home : {"unknown", "absolute", "relative"}]

\* Marked words, by either list: the program's own flag, and some names.
FlagWords == {"--values-passphrase", "secrets.enc", "token-service", "credentials"}
KeyWords == {"--values-passphrase", "secrets.enc", "token-service", "apikey"}
DashedWords == {"--namespace", "--values", "--values-passphrase", "--bundle-path", "--set", "--set-file"}

\* Arguments of every kind, and all short command lines of them.
Arguments ==
  {Word(w) : w \in {"helm", "--set", "--values", "--values-passphrase", "credentials"}}
  \cup {<< <<"--values", "x">> >>, << <<"--values-passphrase", "x">> >>, << <<"--values", "apikey">>, <<"x">> >>,
        << <<"a", "x">>, <<"apikey", "x">> >>, << <<"--set-file", "a", "x">>, <<"b", "x">> >>}

CommandLines == UNION {[1 .. n -> Arguments] : n \in 0 .. 4}

\* SanitizeCommand keeps every argument in its place, masks only values, and
\* changes nothing more when it is applied to its own result.
ASSUME SanitizerIsStable ==
  \A args \in CommandLines :
    LET line == SanitizeCommand(args)
    IN /\ Len(line) \in Len(args) .. Len(args) + 1
       /\ SanitizeCommand(line) = line
=============================================================================
