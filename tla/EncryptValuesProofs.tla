-------------------------- MODULE EncryptValuesProofs --------------------------
(***************************************************************************)
(* What holds of EncryptValues for every number of commands and readers,   *)
(* every set of files, texts and passphrases: the inductive invariant      *)
(* IInv, and from it that what a reader decrypts was sealed whole, and that *)
(* a success leaves the envelope where nobody else has written.            *)
(*                                                                         *)
(* Most steps change only where their encryptor stands; the lemma          *)
(* FilesUnchanged serves all of them. The steps that write have a lemma    *)
(* each, and so has DecryptFile.                                           *)
(***************************************************************************)
EXTENDS EncryptValues, TLAPS

USE DEF Goto, Exit, In, Out, Outcomes

-----------------------------------------------------------------------------
(* Envelopes *)

\* What is sealed has one key more, the last; unsealed, it is what it was.
LEMMA SealTyped ==
  ASSUME NEW c \in Contents, NEW k \in Passes
  PROVE  /\ Seal(c, k) \in Contents /\ Seal(c, k).text = c.text
         /\ Seal(c, k).keys /= <<>>
         /\ Last(Seal(c, k).keys) = k
         /\ Unsealed(Seal(c, k)) = c
<1>1. c.keys \in Seq(Passes) /\ c = [text |-> c.text, keys |-> c.keys]
  BY DEF Contents
<1>2. Seal(c, k) = [text |-> c.text, keys |-> Append(c.keys, k)]
  BY DEF Seal, Content
<1>3. /\ Append(c.keys, k) \in Seq(Passes) /\ Len(Append(c.keys, k)) = Len(c.keys) + 1
      /\ Last(Append(c.keys, k)) = k
  BY <1>1 DEF Last
<1>4. Front(Append(c.keys, k)) = c.keys
  BY <1>1 DEF Front
<1>5. Append(c.keys, k) /= <<>>
  BY <1>1, <1>3
<1>6. Seal(c, k) \in Contents
  BY <1>2, <1>3 DEF Contents
<1>7. Unsealed(Seal(c, k)) = c
  BY <1>1, <1>2, <1>4, <1>5 DEF Unsealed, Content
<1> QED
  BY <1>2, <1>3, <1>5, <1>6, <1>7

\* Whatever is unsealed is a content.
LEMMA UnsealedTyped ==
  ASSUME NEW c \in Contents
  PROVE  Unsealed(c) \in Contents
<1>1. c.keys \in Seq(Passes) /\ (c.keys /= <<>> => Front(c.keys) \in Seq(Passes))
  BY DEF Contents, Front
<1> QED
  BY <1>1 DEF Contents, Unsealed, Content

\* What is not an envelope has no keys.
LEMMA NoKeys ==
  \A c \in {Absent, Blank, Broken} \cup {Content(v, <<>>) : v \in Values} :
    c \in Contents /\ c.keys = <<>>
<1>1. <<>> \in Seq(Passes)
  OBVIOUS
<1>2. \A t \in Values \cup {"absent", "blank", "broken"} :
        Content(t, <<>>) \in Contents /\ Content(t, <<>>).keys = <<>>
  BY <1>1 DEF Contents, Content
<1> QED
  BY <1>2 DEF Absent, Blank, Broken

\* The parts of a request.
LEMMA RequestTyped ==
  ASSUME NEW q \in Requests
  PROVE  q.input \in Paths /\ q.output \in Paths /\ q.pass \in Passes \cup {NoPass}
BY RequestsAssumption

-----------------------------------------------------------------------------
(* Steps that leave the files alone *)

\* Nobody has begun, and no file has been sealed.
LEMMA InitIInv == Init => IInv
<1> SUFFICES ASSUME Init PROVE IInv
  OBVIOUS
<1>2. TypeOK
  BY NoKeys DEF Init, TypeOK, Waiting
<1>3. StageInv /\ EnvelopeInv /\ AloneInv /\ DecryptedIsGenuine
  BY NoKeys DEF Init, StageInv, EnvelopeInv, AloneInv, DecryptedIsGenuine, Waiting
<1> QED
  BY <1>2, <1>3 DEF IInv

\* What has been opened, and with what, stays so: nothing else matters to the
\* envelopes, their readers and the outputs.
LEMMA FilesUnchanged ==
  ASSUME IInv, UNCHANGED <<fs, opened, got>>, TypeOK', StageInv',
         \A e \in Encryptors : opened[e] =>
           /\ req'[e] = req[e] /\ typed'[e] = typed[e] /\ read'[e] = read[e]
           /\ pc'[e] = "write" => pc[e] = "write"
           /\ pc'[e] = "report" => pc[e] = "report"
           /\ exit'[e] = "ok" => pc[e] = "report" \/ exit[e] = "ok"
  PROVE  IInv'
<1>1. EnvelopeInv'
  BY DEF IInv, EnvelopeInv, Sealed
<1>2. AloneInv'
  BY DEF IInv, AloneInv, Alone, Sealed
<1>3. DecryptedIsGenuine'
  BY DEF IInv, DecryptedIsGenuine
<1> QED
  BY <1>1, <1>2, <1>3 DEF IInv

\* Refusals and the first steps.
LEMMA BeginStep ==
  ASSUME IInv, NEW e \in Encryptors,
         Begin(e) \/ UnknownFormat(e) \/ Prompt(e) \/ PromptFails(e)
  PROVE  IInv'
<1>1. TypeOK'
  BY RequestTyped DEF Begin, UnknownFormat, Prompt, PromptFails, IInv, TypeOK
<1>2. StageInv'
  BY RequestTyped DEF Begin, UnknownFormat, Prompt, PromptFails, IInv, TypeOK, StageInv
<1>3. ~opened[e]
  BY DEF Begin, UnknownFormat, Prompt, PromptFails, IInv, StageInv
<1> QED
  BY <1>1, <1>2, <1>3, FilesUnchanged DEF Begin, UnknownFormat, Prompt, PromptFails, IInv, TypeOK

\* What is neither absent nor blank does not say that it is.
LEMMA NotBlank ==
  ASSUME TypeOK, NEW p \in Paths, fs[p] \notin {Absent, Blank}
  PROVE  fs[p].text \notin {"absent", "blank"}
<1>1. fs[p] \in Contents /\ (fs[p].text \in {"absent", "blank"} => fs[p].keys = <<>>)
  BY DEF TypeOK
<1>2. fs[p] = [text |-> fs[p].text, keys |-> fs[p].keys]
  BY <1>1 DEF Contents
<1> QED
  BY <1>1, <1>2 DEF Absent, Blank, Content

\* Until the output is opened.
LEMMA ReadStep ==
  ASSUME IInv, NEW e \in Encryptors,
         StatOutput(e) \/ OutputExists(e) \/ ReadInput(e) \/ InputInvalid(e) \/ OpenFails(e)
  PROVE  IInv'
<1>1. TypeOK'
  BY RequestTyped DEF StatOutput, OutputExists, ReadInput, InputInvalid, OpenFails, IInv, TypeOK, StageInv
<1>0. pc[e] = "read" /\ fs[In(e)] \notin {Absent, Blank} => fs[In(e)].text \notin {"absent", "blank"}
  BY RequestTyped, NotBlank DEF IInv, StageInv
<1>2. StageInv'
  BY <1>0 DEF StatOutput, OutputExists, ReadInput, InputInvalid, OpenFails, IInv, TypeOK, StageInv
<1>3. ~opened[e]
  BY DEF StatOutput, OutputExists, ReadInput, InputInvalid, OpenFails, IInv, StageInv
<1> QED
  BY <1>1, <1>2, <1>3, FilesUnchanged
  DEF StatOutput, OutputExists, ReadInput, InputInvalid, OpenFails, IInv, TypeOK

\* A command that has written reports.
LEMMA ReportStep ==
  ASSUME IInv, NEW e \in Encryptors, Report(e)
  PROVE  IInv'
<1>1. TypeOK'
  BY DEF Report, IInv, TypeOK
<1>2. StageInv'
  BY DEF Report, IInv, TypeOK, StageInv
<1> QED
  BY <1>1, <1>2, FilesUnchanged DEF Report, IInv, TypeOK

-----------------------------------------------------------------------------
(* Steps that write *)

\* A write by e to its output, which e has opened: another content, and where
\* that is an envelope it is e's.
LEMMA WriteBy ==
  ASSUME IInv, NEW e \in Encryptors, NEW c \in Contents,
         fs' = [fs EXCEPT ![Out(e)] = c], req[e] \in Requests,
         c.keys = <<>> \/ c = fs[Out(e)] \/ c = Sealed(e),
         opened' = [opened EXCEPT ![e] = TRUE], got' = got,
         UNCHANGED <<req, typed, read>>,
         \A f \in Encryptors \ {e} : pc'[f] = pc[f] /\ exit'[f] = exit[f],
         pc[e] \in {"open", "write"}, exit'[e] /= "ok",
         pc'[e] = "write" => c = Blank,
         pc'[e] = "report" => c = Sealed(e) \/ ~Alone(e),
         TypeOK', StageInv'
  PROVE  IInv'
<1>1. Out(e) \in Paths
  BY RequestTyped
<1>2. EnvelopeInv'
  <2> SUFFICES ASSUME NEW p \in Paths, fs'[p].keys /= <<>>
               PROVE  \E f \in Encryptors : opened'[f] /\ Out(f)' = p /\ fs'[p] = Sealed(f)'
    BY DEF EnvelopeInv
  <2>1. \A f \in Encryptors : Sealed(f)' = Sealed(f) /\ Out(f)' = Out(f) /\ (opened[f] => opened'[f])
    BY DEF Sealed, IInv, TypeOK
  <2>2. CASE p = Out(e) /\ c = Sealed(e)
    BY <1>1, <2>1, <2>2 DEF IInv, TypeOK
  <2>3. CASE fs'[p] = fs[p]
    BY <2>1, <2>3 DEF IInv, EnvelopeInv
  <2> QED
    BY <1>1, <2>2, <2>3 DEF IInv, TypeOK
<1>3. AloneInv'
  <2> SUFFICES ASSUME NEW f \in Encryptors, opened'[f], Alone(f)'
               PROVE  /\ pc'[f] = "write" => fs'[Out(f)] = Blank
                      /\ pc'[f] = "report" \/ exit'[f] = "ok" => fs'[Out(f)] = Sealed(f)
    BY DEF AloneInv, Sealed
  <2>1. CASE f = e
    <3>1. Alone(e)
      BY <2>1 DEF Alone, IInv, TypeOK
    <3> QED
      BY <1>1, <2>1, <3>1 DEF IInv, TypeOK
  <2>2. CASE f /= e
    <3>1. opened[f] /\ Alone(f) /\ Out(f) /= Out(e)
      BY <2>2 DEF Alone, IInv, TypeOK
    <3>2. Out(f) \in Paths
      BY <3>1, RequestTyped DEF IInv, StageInv
    <3>3. fs'[Out(f)] = fs[Out(f)]
      BY <1>1, <3>1, <3>2 DEF IInv, TypeOK
    <3> QED
      BY <2>2, <3>1, <3>3 DEF IInv, AloneInv
  <2> QED
    BY <2>1, <2>2
<1>4. DecryptedIsGenuine'
  BY DEF IInv, TypeOK, DecryptedIsGenuine
<1> QED
  BY <1>2, <1>3, <1>4 DEF IInv

\* The output is emptied.
LEMMA OpenStep ==
  ASSUME IInv, NEW e \in Encryptors, OpenOutput(e)
  PROVE  IInv'
<1>1. Blank \in Contents /\ Blank.keys = <<>>
  BY NoKeys
<1>2. TypeOK'
  BY <1>1 DEF OpenOutput, IInv, TypeOK
<1>3. StageInv'
  BY DEF OpenOutput, IInv, TypeOK, StageInv
<1>4. req[e] \in Requests /\ exit[e] /= "ok"
  BY DEF OpenOutput, IInv, StageInv
<1> QED
  BY <1>1, <1>2, <1>3, <1>4, WriteBy DEF OpenOutput, IInv, TypeOK

\* The envelope is written, over what another may have left there.
LEMMA WriteStep ==
  ASSUME IInv, NEW e \in Encryptors, WriteOutput(e)
  PROVE  IInv'
<1>1. /\ pc[e] = "write" /\ opened[e] /\ req[e] \in Requests /\ typed[e] \in Passes
      /\ read[e] \in Contents /\ read[e].text \notin {"absent", "blank"} /\ exit[e] /= "ok"
  BY DEF WriteOutput, IInv, TypeOK, StageInv
<1>2. PICK c \in {Sealed(e)} \cup (IF fs[Out(e)] = Blank THEN {} ELSE {Broken}) :
        fs' = [fs EXCEPT ![Out(e)] = c]
  BY DEF WriteOutput
<1>3. pc' = [pc EXCEPT ![e] = "report"] /\ UNCHANGED <<req, typed, read, exit, opened, got>>
  BY DEF WriteOutput
<1>4. /\ Sealed(e) \in Contents /\ Sealed(e).keys /= <<>> /\ Sealed(e).text = read[e].text
  BY <1>1, SealTyped DEF Sealed
<1>6. c \in Contents /\ (c.keys = <<>> \/ c = Sealed(e)) /\ c.text \notin {"absent", "blank"}
  BY <1>1, <1>2, <1>4, NoKeys DEF Broken, Content
<1>7. c = Sealed(e) \/ ~Alone(e)
  BY <1>1, <1>2 DEF IInv, AloneInv
<1>8. TypeOK'
  BY <1>2, <1>3, <1>6 DEF IInv, TypeOK
<1>9. StageInv'
  BY <1>1, <1>3 DEF IInv, TypeOK, StageInv
<1>10. /\ opened' = [opened EXCEPT ![e] = TRUE] /\ exit'[e] /= "ok" /\ pc'[e] = "report"
       /\ \A f \in Encryptors \ {e} : pc'[f] = pc[f] /\ exit'[f] = exit[f]
  BY <1>1, <1>3 DEF IInv, TypeOK
<1> QED
  BY <1>1, <1>2, <1>3, <1>6, <1>7, <1>8, <1>9, <1>10, WriteBy

\* A write that fails, or that a crash cuts off.
LEMMA CutOff ==
  ASSUME IInv, NEW e \in Encryptors, pc[e] = "write",
         NEW c \in Written(e), fs' = [fs EXCEPT ![Out(e)] = c],
         \/ pc' = [pc EXCEPT ![e] = "done"] /\ exit' = [exit EXCEPT ![e] = "encryption"]
         \/ pc' = [pc EXCEPT ![e] = "gone"] /\ exit' = exit,
         UNCHANGED <<req, typed, read, opened, got>>
  PROVE  IInv'
<1>1. /\ opened[e] /\ req[e] \in Requests /\ exit[e] /= "ok" /\ Out(e) \in Paths
      /\ typed[e] \in Passes /\ read[e] \in Contents /\ read[e].text \notin {"absent", "blank"}
  BY RequestTyped DEF IInv, TypeOK, StageInv
<1>6. Sealed(e) \in Contents /\ Sealed(e).text = read[e].text
  BY <1>1, SealTyped DEF Sealed
<1>2. /\ c \in Contents /\ (c.keys = <<>> \/ c = fs[Out(e)] \/ c = Sealed(e))
      /\ c.text \in {"absent", "blank"} => c.keys = <<>>
  BY <1>1, <1>6, NoKeys DEF IInv, TypeOK, Written
<1>3. TypeOK'
  BY <1>1, <1>2 DEF IInv, TypeOK
<1>4. StageInv'
  BY <1>1 DEF IInv, TypeOK, StageInv
<1>5. /\ opened' = [opened EXCEPT ![e] = TRUE] /\ got' = got
      /\ exit'[e] /= "ok" /\ pc'[e] \notin {"write", "report"}
      /\ \A f \in Encryptors \ {e} : pc'[f] = pc[f] /\ exit'[f] = exit[f]
  BY <1>1 DEF IInv, TypeOK
<1> QED
  BY <1>1, <1>2, <1>3, <1>4, <1>5, WriteBy

\* A short write, or a failing Close.
LEMMA WriteFailsStep ==
  ASSUME IInv, NEW e \in Encryptors, WriteFails(e)
  PROVE  IInv'
<1>1. PICK c \in Written(e) : fs' = [fs EXCEPT ![Out(e)] = c]
  BY DEF WriteFails
<1>2. /\ pc[e] = "write" /\ UNCHANGED <<req, typed, read, opened, got>>
      /\ pc' = [pc EXCEPT ![e] = "done"] /\ exit' = [exit EXCEPT ![e] = "encryption"]
  BY DEF WriteFails
<1> QED
  BY <1>1, <1>2, CutOff

\* A command that dies.
LEMMA CrashStep ==
  ASSUME IInv, NEW e \in Encryptors, Crash(e)
  PROVE  IInv'
<1>1. CASE UNCHANGED fs
  <2>1. TypeOK'
    BY <1>1 DEF Crash, IInv, TypeOK
  <2>2. StageInv'
    BY DEF Crash, IInv, TypeOK, StageInv
  <2> QED
    BY <1>1, <2>1, <2>2, FilesUnchanged DEF Crash, IInv, TypeOK
<1>2. CASE pc[e] = "write" /\ fs' = [fs EXCEPT ![Out(e)] = Broken]
  BY <1>2, CutOff DEF Crash, Written
<1> QED
  BY <1>1, <1>2 DEF Crash

-----------------------------------------------------------------------------
(* The reader *)

\* What opens has been sealed whole, by the command that wrote the file.
LEMMA DecryptStep ==
  ASSUME IInv, NEW r \in Readers, DecryptFile(r)
  PROVE  IInv'
<1>1. PICK p \in Paths, k \in Passes :
        got' = [got EXCEPT ![r] =
          [path |-> p, pass |-> k,
           outcome |-> IF fs[p] = Absent THEN "validation"
                       ELSE IF Opens(fs[p], k) THEN "ok" ELSE "encryption",
           content |-> Unsealed(fs[p])]]
  BY DEF DecryptFile
<1>2. UNCHANGED <<fs, req, typed, read, pc, exit, opened>>
  BY DEF DecryptFile
<1>3. fs[p] \in Contents /\ Unsealed(fs[p]) \in Contents
  BY UnsealedTyped DEF IInv, TypeOK
<1>4. TypeOK'
  BY <1>1, <1>2, <1>3 DEF IInv, TypeOK
<1>5. StageInv' /\ EnvelopeInv' /\ AloneInv'
  BY <1>2 DEF IInv, StageInv, EnvelopeInv, AloneInv, Alone, Sealed
<1>6. Opens(fs[p], k) =>
        \E e \in Encryptors : /\ opened[e] /\ Out(e) = p /\ typed[e] = k
                              /\ read[e] = Unsealed(fs[p]) /\ read[e] /= Blank
  <2> SUFFICES ASSUME Opens(fs[p], k)
               PROVE  \E e \in Encryptors : /\ opened[e] /\ Out(e) = p /\ typed[e] = k
                                            /\ read[e] = Unsealed(fs[p]) /\ read[e] /= Blank
    OBVIOUS
  <2>1. PICK e \in Encryptors : opened[e] /\ Out(e) = p /\ fs[p] = Sealed(e)
    BY DEF Opens, IInv, EnvelopeInv
  <2>2. typed[e] \in Passes /\ read[e] \in Contents /\ read[e].text /= "blank"
    BY <2>1 DEF IInv, TypeOK, StageInv
  <2>3. typed[e] = k /\ read[e] = Unsealed(fs[p])
    BY <2>1, <2>2, SealTyped DEF Opens, Sealed
  <2>4. read[e] /= Blank
    BY <2>2 DEF Blank, Content
  <2> QED
    BY <2>1, <2>3, <2>4
<1>7. DecryptedIsGenuine'
  <2> SUFFICES ASSUME NEW s \in Readers, got'[s].outcome = "ok"
               PROVE  \E e \in Encryptors :
                        /\ opened[e] /\ Out(e) = got'[s].path
                        /\ typed[e] = got'[s].pass
                        /\ read[e] = got'[s].content /\ read[e] /= Blank
    BY <1>2 DEF DecryptedIsGenuine
  <2>1. CASE s = r
    BY <1>1, <1>6, <2>1 DEF IInv, TypeOK
  <2>2. CASE s /= r
    BY <1>1, <2>2 DEF IInv, TypeOK, DecryptedIsGenuine
  <2> QED
    BY <2>1, <2>2
<1> QED
  BY <1>4, <1>5, <1>7 DEF IInv

-----------------------------------------------------------------------------
(* The theorems *)

\* IInv is inductive.
LEMMA NextIInv == IInv /\ [Next]_vars => IInv'
<1> SUFFICES ASSUME IInv, [Next]_vars PROVE IInv'
  OBVIOUS
<1>1. ASSUME NEW e \in Encryptors,
             Begin(e) \/ UnknownFormat(e) \/ Prompt(e) \/ PromptFails(e)
      PROVE  IInv'
  BY <1>1, BeginStep
<1>2. ASSUME NEW e \in Encryptors,
             StatOutput(e) \/ OutputExists(e) \/ ReadInput(e) \/ InputInvalid(e) \/ OpenFails(e)
      PROVE  IInv'
  BY <1>2, ReadStep
<1>3. ASSUME NEW e \in Encryptors, OpenOutput(e) PROVE IInv'
  BY <1>3, OpenStep
<1>4. ASSUME NEW e \in Encryptors, WriteOutput(e) PROVE IInv'
  BY <1>4, WriteStep
<1>5. ASSUME NEW e \in Encryptors, WriteFails(e) PROVE IInv'
  BY <1>5, WriteFailsStep
<1>6. ASSUME NEW e \in Encryptors, Report(e) PROVE IInv'
  BY <1>6, ReportStep
<1>7. ASSUME NEW e \in Encryptors, Crash(e) PROVE IInv'
  BY <1>7, CrashStep
<1>8. ASSUME NEW r \in Readers, DecryptFile(r) PROVE IInv'
  BY <1>8, DecryptStep
<1>9. CASE UNCHANGED vars
  <2>1. TypeOK' /\ StageInv'
    BY <1>9 DEF vars, IInv, TypeOK, StageInv
  <2> QED
    BY <1>9, <2>1, FilesUnchanged DEF vars
<1> QED
  BY <1>1, <1>2, <1>3, <1>4, <1>5, <1>6, <1>7, <1>8, <1>9 DEF Next

\* The inductive invariant holds of every behaviour.
THEOREM Invariance == Spec => []IInv
BY InitIInv, NextIInv, PTL DEF Spec

\* Every variable keeps its type, and no blank text is ever sealed.
THEOREM Typing == Spec => []TypeOK
<1>1. IInv => TypeOK
  BY DEF IInv
<1> QED
  BY Invariance, <1>1, PTL

\* What a reader decrypts is what one command had read and sealed for that path.
THEOREM Genuine == Spec => []DecryptedIsGenuine
<1>1. IInv => DecryptedIsGenuine
  BY DEF IInv
<1> QED
  BY Invariance, <1>1, PTL

\* A success leaves its whole envelope, unless another opened the same output.
THEOREM Whole == Spec => []WrittenIsWhole
<1>1. IInv => WrittenIsWhole
  BY DEF IInv, StageInv, AloneInv, WrittenIsWhole
<1> QED
  BY Invariance, <1>1, PTL
=============================================================================
