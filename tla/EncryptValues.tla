---------------------------- MODULE EncryptValues ----------------------------
(***************************************************************************)
(* `chainctl encrypt-values` (runEncryptCommand over EncryptFile) and      *)
(* DecryptFile, the reader of what it writes.  Commands share a file       *)
(* system and nothing locks a file: each looks whether its output exists,  *)
(* reads its input, seals it, and then opens the output, which empties it, *)
(* and writes.  A command may die, and a write may fail, at any step.      *)
(***************************************************************************)
EXTENDS Naturals, SequencesExt

CONSTANTS Encryptors, Readers, \* calls of EncryptFile and of DecryptFile
          Paths, Values,       \* files, and the texts they may hold
          Passes,              \* passphrases
          Requests             \* the command lines of encrypt-values

NoPass == "no passphrase"

\* format: whether --format is one the command knows.
ASSUME RequestsAssumption ==
  /\ Requests \subseteq [input : Paths, output : Paths, pass : Passes \cup {NoPass},
                         overwrite : BOOLEAN, format : BOOLEAN]
  /\ NoPass \notin Passes
  /\ Values \cap {"absent", "blank", "broken"} = {}

\* What a file holds: a text sealed under the passphrases of keys, the
\* outermost last.  "blank" is empty or white space, "broken" is neither a
\* text that somebody wrote nor an envelope that opens.
Content(text, keys) == [text |-> text, keys |-> keys]

Absent == Content("absent", <<>>)

Blank == Content("blank", <<>>)

Broken == Content("broken", <<>>)

VARIABLES
  fs,    \* the content of every path
  req,   \* the request of each encryptor
  typed, \* the passphrase it uses
  read,  \* the content it has read
  pc,    \* where it stands
  exit,  \* its exit status
  opened, \* whether it has opened its output for writing (history)
  got    \* per reader: path, passphrase and outcome

vars == <<fs, req, typed, read, pc, exit, opened, got>>

NoRequest == [input |-> "none"]

Waiting == [path |-> "none", pass |-> NoPass, outcome |-> "none", content |-> Absent]

\* A text is sealed at most once more per encryptor.
Contents ==
  [text : Values \cup {"absent", "blank", "broken"}, keys : Seq(Passes)]

Outcomes == {"none", "ok", "validation", "encryption"}

TypeOK ==
  /\ fs \in [Paths -> Contents]
  /\ \A p \in Paths : fs[p].text \in {"absent", "blank"} => fs[p].keys = <<>>
  /\ req \in [Encryptors -> Requests \cup {NoRequest}]
  /\ typed \in [Encryptors -> Passes \cup {NoPass}]
  /\ read \in [Encryptors -> Contents]
  /\ pc \in [Encryptors -> {"idle", "prompt", "stat", "read", "open", "write", "report",
                            "done", "gone"}]
  /\ exit \in [Encryptors -> Outcomes]
  /\ opened \in [Encryptors -> BOOLEAN]
  /\ got \in [Readers -> [path : Paths \cup {"none"}, pass : Passes \cup {NoPass},
                         outcome : Outcomes, content : Contents]]

Init ==
  /\ fs \in [Paths -> {Absent, Blank} \cup {Content(v, <<>>) : v \in Values}]
  /\ req = [e \in Encryptors |-> NoRequest]
  /\ typed = [e \in Encryptors |-> NoPass]
  /\ read = [e \in Encryptors |-> Absent]
  /\ pc = [e \in Encryptors |-> "idle"]
  /\ exit = [e \in Encryptors |-> "none"]
  /\ opened = [e \in Encryptors |-> FALSE]
  /\ got = [r \in Readers |-> Waiting]

-----------------------------------------------------------------------------
(* Helpers *)

Goto(e, label) == pc' = [pc EXCEPT ![e] = label]

Exit(e, status) ==
  /\ exit' = [exit EXCEPT ![e] = status]
  /\ Goto(e, "done")

In(e) == req[e].input

Out(e) == req[e].output

\* GCM under the key derived from the passphrase and a new salt.
Seal(content, pass) == Content(content.text, Append(content.keys, pass))

Sealed(e) == Seal(read[e], typed[e])

-----------------------------------------------------------------------------
(* Before the output is touched *)

\* Paths, then format, then passphrase.
Begin(e) ==
  /\ pc[e] = "idle"
  /\ \E q \in Requests :
       /\ q.format
       /\ req' = [req EXCEPT ![e] = q]
       /\ typed' = [typed EXCEPT ![e] = q.pass]
       /\ Goto(e, IF q.pass = NoPass THEN "prompt" ELSE "stat")
  /\ UNCHANGED <<fs, read, exit, opened, got>>

UnknownFormat(e) ==
  /\ pc[e] = "idle"
  /\ \E q \in Requests : ~q.format /\ req' = [req EXCEPT ![e] = q]
  /\ Exit(e, "validation")
  /\ UNCHANGED <<fs, typed, read, opened, got>>

\* The passphrase is typed twice at the terminal.
Prompt(e) ==
  /\ pc[e] = "prompt"
  /\ \E p \in Passes : typed' = [typed EXCEPT ![e] = p]
  /\ Goto(e, "stat")
  /\ UNCHANGED <<fs, req, read, exit, opened, got>>

\* No terminal, two that differ, or an empty one: no second attempt.
PromptFails(e) ==
  /\ pc[e] = "prompt"
  /\ Exit(e, "validation")
  /\ UNCHANGED <<fs, req, typed, read, opened, got>>

\* The output is looked for now; it is opened only after input and key.
StatOutput(e) ==
  /\ pc[e] = "stat"
  /\ req[e].overwrite \/ fs[Out(e)] = Absent
  /\ Goto(e, "read")
  /\ UNCHANGED <<fs, req, typed, read, exit, opened, got>>

OutputExists_cleansUp(e) ==
  /\ pc[e] = "stat"
  /\ ~req[e].overwrite /\ fs[Out(e)] /= Absent
  /\ fs' = [fs EXCEPT ![Out(e)] = Absent]
  /\ Exit(e, "validation")
  /\ UNCHANGED <<req, typed, read, opened, got>>

OutputExists(e) ==
  /\ pc[e] = "stat"
  /\ ~req[e].overwrite /\ fs[Out(e)] /= Absent
  /\ Exit(e, "validation")
  /\ UNCHANGED <<fs, req, typed, read, opened, got>>

ReadInput_blankToo(e) ==
  /\ pc[e] = "read"
  /\ fs[In(e)] /= Absent
  /\ read' = [read EXCEPT ![e] = fs[In(e)]]
  /\ Goto(e, "open")
  /\ UNCHANGED <<fs, req, typed, exit, opened, got>>

\* Any text is sealed, an envelope or the beginning of one included.
ReadInput(e) ==
  /\ pc[e] = "read"
  /\ fs[In(e)] \notin {Absent, Blank}
  /\ read' = [read EXCEPT ![e] = fs[In(e)]]
  /\ Goto(e, "open")
  /\ UNCHANGED <<fs, req, typed, exit, opened, got>>

InputInvalid(e) ==
  /\ pc[e] = "read"
  /\ fs[In(e)] \in {Absent, Blank}
  /\ Exit(e, "validation")
  /\ UNCHANGED <<fs, req, typed, read, opened, got>>

-----------------------------------------------------------------------------
(* os.WriteFile and the report *)

\* Opened for writing, the output is created or emptied.
OpenOutput(e) ==
  /\ pc[e] = "open"
  /\ fs' = [fs EXCEPT ![Out(e)] = Blank]
  /\ opened' = [opened EXCEPT ![e] = TRUE]
  /\ Goto(e, "write")
  /\ UNCHANGED <<req, typed, read, exit, got>>

\* No entropy, or the output cannot be opened.
OpenFails(e) ==
  /\ pc[e] = "open"
  /\ Exit(e, "encryption")
  /\ UNCHANGED <<fs, req, typed, read, opened, got>>

\* Each command writes from the start of the file: what another has written
\* since, if longer, is left behind it.
WriteOutput(e) ==
  /\ pc[e] = "write"
  /\ \E c \in {Sealed(e)} \cup (IF fs[Out(e)] = Blank THEN {} ELSE {Broken}) :
       fs' = [fs EXCEPT ![Out(e)] = c]
  /\ Goto(e, "report")
  /\ UNCHANGED <<req, typed, read, exit, opened, got>>

\* What os.WriteFile may leave when it fails: nothing of the envelope or a part of
\* it, for the disk is full, or all of it, for Close has failed.
Written(e) == {fs[Out(e)], Broken, Sealed(e)}

WriteFails(e) ==
  /\ pc[e] = "write"
  /\ \E c \in Written(e) : fs' = [fs EXCEPT ![Out(e)] = c]
  /\ Exit(e, "encryption")
  /\ UNCHANGED <<req, typed, read, opened, got>>

\* The path and checksum are printed; with JSON that may fail, too late.
Report(e) ==
  /\ pc[e] = "report"
  /\ \E status \in {"ok", "encryption"} : Exit(e, status)
  /\ UNCHANGED <<fs, req, typed, read, opened, got>>

\* The process dies; a short write may be the last thing it did.
Crash(e) ==
  /\ pc[e] \notin {"idle", "done", "gone"}
  /\ Goto(e, "gone")
  /\ \/ UNCHANGED fs
     \/ pc[e] = "write" /\ fs' = [fs EXCEPT ![Out(e)] = Broken]
  /\ UNCHANGED <<req, typed, read, exit, opened, got>>

-----------------------------------------------------------------------------
(* DecryptFile *)

Opens_headerOnly(content, pass) == content.keys /= <<>> \/ content = Broken

\* The envelope's tag is right: it is whole and sealed with this passphrase.
Opens(content, pass) ==
  /\ content.keys /= <<>>
  /\ Last(content.keys) = pass

Unsealed(content) ==
  IF content.keys = <<>> THEN content ELSE Content(content.text, Front(content.keys))

DecryptFile(r) ==
  /\ got[r].outcome = "none"
  /\ \E p \in Paths, k \in Passes :
       got' = [got EXCEPT ![r] =
         [path |-> p, pass |-> k,
          outcome |-> IF fs[p] = Absent THEN "validation"
                      ELSE IF Opens(fs[p], k) THEN "ok" ELSE "encryption",
          content |-> Unsealed(fs[p])]]
  /\ UNCHANGED <<fs, req, typed, read, pc, exit, opened>>

-----------------------------------------------------------------------------
Next ==
  \/ \E e \in Encryptors :
       \/ Begin(e) \/ UnknownFormat(e) \/ Prompt(e) \/ PromptFails(e)
       \/ StatOutput(e) \/ OutputExists(e) \/ ReadInput(e) \/ InputInvalid(e)
       \/ OpenOutput(e) \/ OpenFails(e) \/ WriteOutput(e) \/ WriteFails(e)
       \/ Report(e) \/ Crash(e)
  \/ \E r \in Readers : DecryptFile(r)

Spec == Init /\ [][Next]_vars

-----------------------------------------------------------------------------
(* Properties *)

\* What a reader decrypts is, to the last byte, what one command had read from
\* its input and sealed for that path under that passphrase: never part of a
\* write that failed, died or was mixed with another's.
DecryptedIsGenuine ==
  \A r \in Readers : got[r].outcome = "ok" =>
    \E e \in Encryptors :
      /\ opened[e] /\ Out(e) = got[r].path
      /\ typed[e] = got[r].pass
      /\ read[e] = got[r].content /\ read[e] /= Blank

\* No other encryptor has opened the output.
Alone(e) == \A f \in Encryptors \ {e} : opened[f] => Out(f) /= Out(e)

\* After a success the output is the whole envelope of what was read, unless
\* another command has opened the same output: neither a command that was
\* refused, nor one that reads the file, can spoil it.
WrittenIsWhole ==
  \A e \in Encryptors : exit[e] = "ok" /\ Alone(e) => fs[Out(e)] = Sealed(e)

-----------------------------------------------------------------------------
(* The inductive invariant *)

\* Where an encryptor knows its command, its passphrase, its input, and has
\* opened its output.
StageInv ==
  \A e \in Encryptors :
    /\ pc[e] \in {"prompt", "stat", "read", "open", "write", "report"} => req[e] \in Requests
    /\ pc[e] \in {"stat", "read", "open", "write", "report"} => typed[e] \in Passes
    /\ pc[e] = "open" \/ opened[e] => read[e].text \notin {"absent", "blank"}
    /\ pc[e] \in {"write", "report"} \/ exit[e] = "ok" => opened[e]
    /\ exit[e] = "ok" => pc[e] = "done"
    /\ opened[e] => /\ pc[e] \in {"write", "report", "done", "gone"}
                    /\ req[e] \in Requests /\ typed[e] \in Passes

\* An envelope is what an encryptor has sealed for that path.
EnvelopeInv ==
  \A p \in Paths : fs[p].keys /= <<>> =>
    \E e \in Encryptors : opened[e] /\ Out(e) = p /\ fs[p] = Sealed(e)

\* What an encryptor that is alone with its output finds there.
AloneInv ==
  \A e \in Encryptors : opened[e] /\ Alone(e) =>
    /\ pc[e] = "write" => fs[Out(e)] = Blank
    /\ pc[e] = "report" \/ exit[e] = "ok" => fs[Out(e)] = Sealed(e)

IInv == TypeOK /\ StageInv /\ EnvelopeInv /\ AloneInv /\ DecryptedIsGenuine

-----------------------------------------------------------------------------
(* What the tests say *)

\* What the tests say of overwriting: without --confirm an output that exists
\* remains unchanged.
NoSilentOverwrite ==
  [][ \A e \in Encryptors :
        ~opened[e] /\ opened'[e] /\ ~req[e].overwrite => fs[Out(e)] = Absent ]_vars
=============================================================================
