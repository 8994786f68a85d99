------------------------- MODULE ClusterInstallProofs -------------------------
(***************************************************************************)
(* What holds of ClusterInstall for every number of installs, every set of *)
(* command lines and of dependencies. The invariant IInv is stated of one  *)
(* install at a time, so a step of one has to be followed for that one     *)
(* only: OthersStep, WorldStep and Untouched take care of the others, and  *)
(* one lemma per part of InstallInv (CheckStep, RanStep, ...) of the one   *)
(* that steps, action by action. What a step adds to the log is a sequence *)
(* of entries: Growth bounds it, Joined says what is told by the whole.    *)
(***************************************************************************)
EXTENDS ClusterInstall, Integers, TLAPS

USE DEF Goto, At, Phases

-----------------------------------------------------------------------------
(* Steps and those they do not concern *)

\* The steps of one install, in groups.
Checks(i) == Reject(i) \/ Begin(i) \/ ValidateExistingCluster(i) \/ ClusterInvalid(i)

Preparation(i) == PrepareBundle(i) \/ BundleRejected(i) \/ DryRun(i) \/ Proceed(i)

Around(i, p) ==
  \/ PhaseStarts(i, p) \/ StartEventFails(i, p) \/ RunCommand(i, p)
  \/ CommandFails(i, p) \/ PhaseEnds(i, p) \/ PhaseFails(i, p)

Work(i) ==
  NothingToBootstrap(i) \/ ScriptMissing(i) \/ ScriptSucceeds(i) \/ WaitForCluster(i) \/ WaitFails(i) \/ HelmSucceeds(i)

Ending(i) == Finish(i) \/ EmitOutput(i) \/ OutputFails(i) \/ Crash(i) \/ OrphanEnds(i) \/ SinkFills(i)

Step(i) ==
  Checks(i) \/ Preparation(i) \/ (\E p \in Phases : Around(i, p)) \/ Work(i) \/ Ending(i)

\* Nothing of install j changes.
Same(j) ==
  /\ opts'[j] = opts[j] /\ pc'[j] = pc[j] /\ checked'[j] = checked[j] /\ ran'[j] = ran[j]
  /\ result'[j] = result[j] /\ log'[j] = log[j] /\ sink'[j] = sink[j] /\ exit'[j] = exit[j]

\* An install that does not step keeps its invariant.
LEMMA Untouched ==
  ASSUME NEW j, Same(j), deps' = deps, applied \subseteq applied', InstallInv(j)
  PROVE  InstallInv(j)'
<1>1. CheckInv(j)'
  BY DEF Same, InstallInv, CheckInv, Running, InPhase
<1>2. RanInv(j)'
  BY DEF Same, InstallInv, RanInv, ReturnInv, Done
<1>3. BeforeInv(j)' /\ EntryInv(j)'
  BY DEF Same, InstallInv, BeforeInv, EntryInv, Ended
<1>4. LengthInv(j)'
  BY DEF Same, InstallInv, LengthInv, Own, Before
<1>5. OutcomeInv(j)'
  BY DEF Same, InstallInv, OutcomeInv, Past, Logged
<1> QED
  BY <1>1, <1>2, <1>3, <1>4, <1>5 DEF InstallInv

-----------------------------------------------------------------------------
(* Entries and logs *)

\* What Log does to the logs.
LEMMA LogTyped ==
  ASSUME TypeOK, NEW i \in Installs, NEW es \in Seq(Entries), Log(i, es)
  PROVE  /\ log' \in [Installs -> Seq(Entries)]
         /\ \A j \in Installs \ {i} : log'[j] = log[j]
         /\ log'[i] = IF sink[i] = "open" THEN log[i] \o es ELSE log[i]
         /\ Len(log'[i]) <= Len(log[i]) + Len(es)
  BY DEF TypeOK, Log

\* The outcomes in a log and in what is added to it.
LEMMA Concatenated ==
  ASSUME NEW s \in Seq(Entries), NEW t \in Seq(Entries), NEW p
  PROVE  Outcomes(s \o t, p) = Outcomes(s, p) \cup {Len(s) + n : n \in Outcomes(t, p)}
<1>1. Len(s \o t) = Len(s) + Len(t) /\ Len(s) \in Nat /\ Len(t) \in Nat
  OBVIOUS
<1>2. \A n \in 1 .. Len(s) : (s \o t)[n] = s[n]
  OBVIOUS
<1>3. \A n \in 1 .. Len(t) : (s \o t)[Len(s) + n] = t[n]
  OBVIOUS
<1>4. \A n \in 1 .. Len(s \o t) : n \in 1 .. Len(s) \/ \E m \in 1 .. Len(t) : n = Len(s) + m
  <2> SUFFICES ASSUME NEW n \in 1 .. Len(s \o t), n \notin 1 .. Len(s)
               PROVE  \E m \in 1 .. Len(t) : n = Len(s) + m
    OBVIOUS
  <2>1. n - Len(s) \in 1 .. Len(t) /\ n = Len(s) + (n - Len(s))
    BY <1>1
  <2> QED
    BY <2>1
<1> DEFINE told == {CommandName(p)} \X {"ok", "error"}
<1>5. ASSUME NEW n \in Outcomes(s \o t, p)
      PROVE  n \in Outcomes(s, p) \cup {Len(s) + m : m \in Outcomes(t, p)}
  <2>1. n \in 1 .. Len(s \o t) /\ (s \o t)[n] \in told
    BY <1>5 DEF Outcomes
  <2>2. CASE n \in 1 .. Len(s)
    BY <1>2, <2>1, <2>2 DEF Outcomes
  <2>3. CASE \E m \in 1 .. Len(t) : n = Len(s) + m
    BY <1>3, <2>1, <2>3 DEF Outcomes
  <2> QED
    BY <1>4, <2>1, <2>2, <2>3
<1>6. Outcomes(s, p) \subseteq Outcomes(s \o t, p)
  BY <1>1, <1>2 DEF Outcomes
<1>7. ASSUME NEW m \in Outcomes(t, p)
      PROVE  Len(s) + m \in Outcomes(s \o t, p)
  <2>1. m \in 1 .. Len(t) /\ t[m] \in told
    BY DEF Outcomes
  <2>2. Len(s) + m \in 1 .. Len(s \o t)
    BY <1>1, <2>1
  <2> QED
    BY <1>3, <2>1, <2>2 DEF Outcomes
<1> QED
  BY <1>5, <1>6, <1>7


\* The entries of the code are entries.
LEMMA EntriesTyped ==
  /\ \A i \in Installs, p \in Phases, o \in {"started", "ok", "error"} :
       CommandEntry(i, p, o) \in Seq(Entries) /\ Len(CommandEntry(i, p, o)) <= 1 - Own(p)
  /\ \A p \in Phases, o \in {"started", "ok", "error"} :
       <<CommandName(p), o>> \in Entries /\ <<PhaseName(p), o>> \in Entries
  /\ \A o \in {"started", "completed", "failed"} : <<"install", o>> \in Entries
  /\ NoEntry \in Seq(Entries) /\ Len(NoEntry) = 0
<1>1. \A p \in Phases, o \in {"started", "ok", "error"} :
        <<CommandName(p), o>> \in Entries /\ <<PhaseName(p), o>> \in Entries
  BY DEF CommandName, PhaseName, Entries
<1>2. \A o \in {"started", "completed", "failed"} : <<"install", o>> \in Entries
  BY DEF Entries
<1>3. <<>> \in Seq(Entries) /\ Len(<<>>) = 0
  OBVIOUS
<1>4. ASSUME NEW e \in Entries PROVE <<e>> \in Seq(Entries) /\ Len(<<e>>) = 1
  OBVIOUS
<1>5. ASSUME NEW i \in Installs, NEW p \in Phases, NEW o \in {"started", "ok", "error"}
      PROVE  CommandEntry(i, p, o) \in Seq(Entries) /\ Len(CommandEntry(i, p, o)) <= 1 - Own(p)
  <2>1. CASE deps[p] = "logging"
    BY <1>3, <2>1 DEF CommandEntry, NoEntry, Own
  <2>2. CASE deps[p] /= "logging"
    <3>1. Own(p) = 0
      BY <2>2 DEF Own
    <3>2. CASE CommandEntry(i, p, o) = NoEntry
      BY <1>3, <3>1, <3>2 DEF NoEntry
    <3>3. CASE CommandEntry(i, p, o) = <<<<CommandName(p), o>>>>
      <4>1. <<<<CommandName(p), o>>>> \in Seq(Entries) /\ Len(<<<<CommandName(p), o>>>>) = 1
        BY <1>1, <1>4
      <4> QED
        BY <3>1, <3>3, <4>1
    <3> QED
      BY <3>2, <3>3 DEF CommandEntry
  <2> QED
    BY <2>1, <2>2
<1> QED
  BY <1>1, <1>2, <1>3, <1>5 DEF NoEntry

\* The log of i grows by n entries at most.
Grows(i, n) == log' \in [Installs -> Seq(Entries)] /\ Len(log'[i]) <= Len(log[i]) + n

\* It does by what is logged.
LEMMA Growing ==
  ASSUME TypeOK, NEW i \in Installs, NEW es \in Seq(Entries), Log(i, es), NEW n \in Nat, Len(es) <= n
  PROVE  Grows(i, n)
<1>1. Len(log[i]) \in Nat /\ Len(es) \in Nat
  BY DEF TypeOK
<1>2. log' \in [Installs -> Seq(Entries)] /\ Len(log'[i]) <= Len(log[i]) + Len(es)
  BY LogTyped
<1>3. Len(log'[i]) \in Nat
  BY <1>2
<1> QED
  BY <1>1, <1>2, <1>3 DEF Grows

\* What a failure adds to the log, and how the log then ends.
LEMMA Failing ==
  ASSUME TypeOK, NEW i \in Installs, NEW es \in Seq(Entries), Fail(i, es), NEW n \in Nat, Len(es) < n
  PROVE  /\ Grows(i, n)
         /\ sink[i] = "open" => /\ log'[i] = log[i] \o (es \o <<<<"install", "failed">>>>)
                                /\ log'[i] /= <<>> /\ log'[i][Len(log'[i])] = <<"install", "failed">>
<1> DEFINE end == <<"install", "failed">>
           added == es \o <<end>>
<1>1. end \in Entries
  BY EntriesTyped
<1>2. added \in Seq(Entries) /\ Len(added) = Len(es) + 1 /\ added[Len(added)] = end
  BY <1>1
<1>3. Log(i, added)
  BY DEF Fail
<1>4. Grows(i, n)
  <2>1. Len(es) \in Nat /\ Len(added) <= n
    BY <1>2
  <2> HIDE DEF added
  <2> QED
    BY <1>2, <1>3, <2>1, Growing
<1>5. ASSUME sink[i] = "open"
      PROVE  /\ log'[i] = log[i] \o (es \o <<<<"install", "failed">>>>)
             /\ log'[i] /= <<>> /\ log'[i][Len(log'[i])] = <<"install", "failed">>
  <2>1. log[i] \in Seq(Entries)
    BY DEF TypeOK
  <2>2. log'[i] = log[i] \o added
    BY <1>2, <1>3, <1>5, LogTyped
  <2>3. Len(added) \in Nat \ {0} /\ Len(log[i]) \in Nat
    BY <1>2, <2>1
  <2>4. log[i] \o added /= <<>> /\ (log[i] \o added)[Len(log[i] \o added)] = end
    <3> HIDE DEF added
    <3> QED
      BY <1>2, <2>1, <2>3
  <2> QED
    BY <2>2, <2>4
<1> QED
  BY <1>4, <1>5

\* What is logged at the end of a phase.
LEMMA PhaseEntries ==
  ASSUME NEW i \in Installs, NEW p \in Phases, NEW o \in {"ok", "error"}, NEW q \in {"ok", "error"}
  PROVE  /\ <<<<PhaseName(p), o>>>> \o CommandEntry(i, p, q) \in Seq(Entries)
         /\ Len(<<<<PhaseName(p), o>>>> \o CommandEntry(i, p, q)) <= 2 - Own(p)
<1> DEFINE a == <<<<PhaseName(p), o>>>>
           b == CommandEntry(i, p, q)
<1>1. <<PhaseName(p), o>> \in Entries
  BY EntriesTyped
<1>2. a \in Seq(Entries) /\ Len(a) <= 1
  BY <1>1
<1>3. b \in Seq(Entries) /\ Len(b) <= 1 - Own(p) /\ Own(p) \in 0 .. 1
  BY EntriesTyped DEF Own
<1> HIDE DEF a, b
<1>4. a \o b \in Seq(Entries) /\ Len(a \o b) = Len(a) + Len(b)
  BY <1>2, <1>3
<1>5. Len(a) \in Nat /\ Len(b) \in Nat
  BY <1>2, <1>3
<1>6. Len(a \o b) <= 2 - Own(p)
  BY <1>2, <1>3, <1>4, <1>5
<1> QED
  BY <1>4, <1>6 DEF a, b

\* What a dry run logs before it completes.
LEMMA DryEntries ==
  ASSUME TypeOK, NEW i \in Installs, DryRun(i)
  PROVE  \E es \in Seq(Entries) : Len(es) <= 2 /\ Log(i, es \o <<<<"install", "completed">>>>)
<1> DEFINE planned(p) == IF deps[p] = "logging" THEN NoEntry ELSE <<<<CommandName(p), "ok">>>>
           first == IF Mode(opts[i]) = "bootstrap" THEN planned("bootstrap") ELSE NoEntry
           second == planned("helm")
<1>1. NoEntry \in Seq(Entries) /\ Len(NoEntry) <= 1
  BY EntriesTyped
<1>2. ASSUME NEW p \in Phases PROVE planned(p) \in Seq(Entries) /\ Len(planned(p)) <= 1
  <2>1. <<CommandName(p), "ok">> \in Entries
    BY EntriesTyped
  <2>2. <<<<CommandName(p), "ok">>>> \in Seq(Entries) /\ Len(<<<<CommandName(p), "ok">>>>) <= 1
    BY <2>1
  <2> QED
    BY <1>1, <2>2
<1>3. first \in Seq(Entries) /\ Len(first) <= 1
  BY <1>1, <1>2
<1>4. second \in Seq(Entries) /\ Len(second) <= 1
  BY <1>2
<1>5. Log(i, first \o second \o <<<<"install", "completed">>>>)
  BY DEF DryRun
<1> HIDE DEF first, second
<1>6. first \o second \in Seq(Entries) /\ Len(first \o second) <= 2
  BY <1>3, <1>4
<1> QED
  BY <1>5, <1>6

\* What every step adds to the log at most.
LEMMA Growth ==
  ASSUME TypeOK, NEW i \in Installs
  PROVE  /\ Begin(i) \/ ClusterInvalid(i) \/ BundleRejected(i) \/ Finish(i) \/ OutputFails(i)
              => Grows(i, 1)
         /\ DryRun(i) => Grows(i, 3)
         /\ ScriptSucceeds(i) => Grows(i, Own("bootstrap"))
         /\ HelmSucceeds(i) => Grows(i, Own("helm"))
         /\ \A p \in Phases :
              /\ PhaseStarts(i, p) => Grows(i, 1)
              /\ StartEventFails(i, p) => Grows(i, 0)
              /\ RunCommand(i, p) \/ CommandFails(i, p) => Grows(i, Own(p))
              /\ PhaseEnds(i, p) => Grows(i, 2 - Own(p))
              /\ PhaseFails(i, p) => Grows(i, 3 - Own(p))
<1>1. ASSUME NEW e \in Entries PROVE <<e>> \in Seq(Entries) /\ Len(<<e>>) = 1
  OBVIOUS
<1>2. ASSUME NEW e \in Entries, Log(i, <<e>>) PROVE Grows(i, 1)
  <2>1. <<e>> \in Seq(Entries) /\ Len(<<e>>) <= 1
    BY <1>1
  <2> QED
    BY <1>2, <2>1, Growing
<1>3. ASSUME ClusterInvalid(i) \/ BundleRejected(i) \/ OutputFails(i) PROVE Grows(i, 1)
  <2>1. Fail(i, NoEntry)
    BY <1>3 DEF ClusterInvalid, BundleRejected, OutputFails
  <2>2. NoEntry \in Seq(Entries) /\ Len(NoEntry) < 1
    BY EntriesTyped
  <2> QED
    BY <2>1, <2>2, Failing
<1>4. ASSUME Begin(i) \/ Finish(i) PROVE Grows(i, 1)
  BY <1>2, <1>4, EntriesTyped DEF Begin, Finish
<1>5. ASSUME DryRun(i) PROVE Grows(i, 3)
  <2>1. PICK es \in Seq(Entries) : Len(es) <= 2 /\ Log(i, es \o <<<<"install", "completed">>>>)
    BY <1>5, DryEntries
  <2> DEFINE added == es \o <<<<"install", "completed">>>>
  <2>2. <<"install", "completed">> \in Entries
    BY EntriesTyped
  <2>3. added \in Seq(Entries) /\ Len(added) <= 3
    BY <2>1, <2>2
  <2> HIDE DEF added
  <2>4. Log(i, added)
    BY <2>1 DEF added
  <2> QED
    BY <2>3, <2>4, Growing
<1>6. \A p \in Phases : Own(p) \in 0 .. 1
  BY DEF Own
<1>7. ASSUME NEW p \in Phases, NEW o \in {"started", "ok", "error"},
             Log(i, IF deps[p] = "logging" THEN <<<<CommandName(p), o>>>> ELSE NoEntry)
      PROVE  Grows(i, Own(p))
  <2>1. CASE deps[p] = "logging"
    BY <1>2, <1>7, <2>1, EntriesTyped DEF Own
  <2>2. CASE deps[p] /= "logging"
    <3>1. Log(i, NoEntry) /\ NoEntry \in Seq(Entries) /\ Len(NoEntry) <= 0 /\ Own(p) = 0
      BY <1>7, <2>2, EntriesTyped DEF Own
    <3> QED
      BY <3>1, Growing
  <2> QED
    BY <2>1, <2>2
<1>8. ScriptSucceeds(i) => Grows(i, Own("bootstrap"))
  BY <1>7 DEF ScriptSucceeds, CommandReturns
<1>9. HelmSucceeds(i) => Grows(i, Own("helm"))
  BY <1>7 DEF HelmSucceeds, CommandReturns
<1>10. ASSUME NEW p \in Phases
       PROVE  /\ PhaseStarts(i, p) => Grows(i, 1)
              /\ StartEventFails(i, p) => Grows(i, 0)
              /\ RunCommand(i, p) \/ CommandFails(i, p) => Grows(i, Own(p))
              /\ PhaseEnds(i, p) => Grows(i, 2 - Own(p))
              /\ PhaseFails(i, p) => Grows(i, 3 - Own(p))
  <2>1. PhaseStarts(i, p) => Grows(i, 1)
    BY <1>2, EntriesTyped DEF PhaseStarts
  <2>2. StartEventFails(i, p) => Grows(i, 0)
    BY DEF StartEventFails, Fail, Log, Grows, TypeOK
  <2>3. RunCommand(i, p) \/ CommandFails(i, p) => Grows(i, Own(p))
    BY <1>7 DEF RunCommand, CommandFails, CommandReturns
  <2>5. 2 - Own(p) \in Nat /\ 3 - Own(p) \in Nat /\ 2 - Own(p) < 3 - Own(p)
    BY <1>6
  <2>6. ASSUME PhaseEnds(i, p) PROVE Grows(i, 2 - Own(p))
    BY <2>5, <2>6, PhaseEntries, Growing DEF PhaseEnds
  <2>7. ASSUME PhaseFails(i, p) PROVE Grows(i, 3 - Own(p))
    <3> DEFINE es == <<<<PhaseName(p), result[i]>>>> \o CommandEntry(i, p, "error")
    <3>1. es \in Seq(Entries) /\ Len(es) <= 2 - Own(p)
      BY PhaseEntries DEF TypeOK
    <3>2. Fail(i, es)
      BY <2>7 DEF PhaseFails
    <3>3. Len(es) < 3 - Own(p)
      BY <1>6, <2>5, <3>1
    <3> QED
      BY <2>5, <3>1, <3>2, <3>3, Failing
  <2> QED
    BY <2>1, <2>2, <2>3, <2>6, <2>7
<1> QED
  BY <1>3, <1>4, <1>5, <1>8, <1>9, <1>10

-----------------------------------------------------------------------------
(* What a step does to each part of the invariant *)

\* A step of one install changes nothing of another.
LEMMA OthersStep ==
  ASSUME TypeOK, NEW i \in Installs, Step(i)
  PROVE  \A j \in Installs \ {i} : Same(j)
<1>1. CASE Checks(i)
  BY <1>1 DEF Checks, Reject, Begin, ValidateExistingCluster, ClusterInvalid, Same, world, Log,
     TypeOK, Fail, Return, CommandReturns
<1>2. CASE Preparation(i)
  BY <1>2 DEF Preparation, PrepareBundle, BundleRejected, DryRun, Proceed, Same, world, Log,
     TypeOK, Fail, Return, CommandReturns
<1>3. ASSUME NEW p \in Phases, Around(i, p) PROVE \A j \in Installs \ {i} : Same(j)
  BY <1>3 DEF Around, PhaseStarts, StartEventFails, RunCommand, CommandFails, PhaseEnds,
     PhaseFails, Same, world, Log, TypeOK, Fail, Return, CommandReturns
<1>4. CASE Work(i)
  BY <1>4 DEF Work, NothingToBootstrap, ScriptMissing, ScriptSucceeds, WaitForCluster, WaitFails,
     HelmSucceeds, Same, world, Log, TypeOK, Fail, Return, CommandReturns
<1>5. CASE Ending(i)
  BY <1>5 DEF Ending, Finish, EmitOutput, OutputFails, Crash, OrphanEnds, SinkFills, Same, world, Log,
     TypeOK, Fail, Return, CommandReturns
<1> QED
  BY <1>1, <1>2, <1>3, <1>4, <1>5 DEF Step

\* No release is undone.
LEMMA WorldStep ==
  ASSUME TypeOK, NEW i \in Installs, Step(i)
  PROVE  deps' = deps /\ applied \subseteq applied'
<1>1. CASE Checks(i)
  BY <1>1 DEF Checks, Reject, Begin, ValidateExistingCluster, ClusterInvalid, world, Fail,
     Return, CommandReturns
<1>2. CASE Preparation(i)
  BY <1>2 DEF Preparation, PrepareBundle, BundleRejected, DryRun, Proceed, world, Fail, Return,
     CommandReturns
<1>3. ASSUME NEW p \in Phases, Around(i, p) PROVE deps' = deps /\ applied \subseteq applied'
  BY <1>3 DEF Around, PhaseStarts, StartEventFails, RunCommand, CommandFails, PhaseEnds,
     PhaseFails, world, Fail, Return, CommandReturns
<1>4. CASE Work(i)
  BY <1>4 DEF Work, NothingToBootstrap, ScriptMissing, ScriptSucceeds, WaitForCluster, WaitFails,
     HelmSucceeds, world, Fail, Return, CommandReturns
<1>5. CASE Ending(i)
  BY <1>5 DEF Ending, Finish, EmitOutput, OutputFails, Crash, OrphanEnds, SinkFills, world, Fail, Return,
     CommandReturns
<1> QED
  BY <1>1, <1>2, <1>3, <1>4, <1>5 DEF Step

\* What has been checked stays so.
LEMMA CheckStep ==
  ASSUME TypeOK, NEW i \in Installs, InstallInv(i), Step(i)
  PROVE  CheckInv(i)'
<1>1. CASE Checks(i)
  BY <1>1 DEF Checks, Reject, Begin, ValidateExistingCluster, ClusterInvalid, CheckInv, Running,
     InPhase, TypeOK, InstallInv, Fail, Return, CommandReturns, After
<1>2. CASE Preparation(i)
  BY <1>2 DEF Preparation, PrepareBundle, BundleRejected, DryRun, Proceed, CheckInv, Running,
     InPhase, TypeOK, InstallInv, Fail, Return, CommandReturns, After
<1>3. ASSUME NEW p \in Phases, Around(i, p) PROVE CheckInv(i)'
  BY <1>3 DEF Around, PhaseStarts, StartEventFails, RunCommand, CommandFails, PhaseEnds,
     PhaseFails, CheckInv, Running, InPhase, TypeOK, InstallInv, Fail, Return, CommandReturns,
     After
<1>4. CASE Work(i)
  BY <1>4 DEF Work, NothingToBootstrap, ScriptMissing, ScriptSucceeds, WaitForCluster, WaitFails,
     HelmSucceeds, CheckInv, Running, InPhase, TypeOK, InstallInv, Fail, Return, CommandReturns,
     After
<1>5. CASE Ending(i)
  BY <1>5 DEF Ending, Finish, EmitOutput, OutputFails, Crash, OrphanEnds, SinkFills, CheckInv, Running,
     InPhase, TypeOK, InstallInv, Fail, Return, CommandReturns, After
<1> QED
  BY <1>1, <1>2, <1>3, <1>4, <1>5 DEF Step

\* The outcome of a command reaches the end of its phase, and the exit status.
LEMMA RanStep ==
  ASSUME TypeOK, NEW i \in Installs, InstallInv(i), Step(i)
  PROVE  RanInv(i)'
<1>1. CASE Checks(i)
  BY <1>1 DEF Checks, Reject, Begin, ValidateExistingCluster, ClusterInvalid, RanInv, ReturnInv,
     Done, world, Running, TypeOK, InstallInv, Fail, Return, CommandReturns, After
<1>2. CASE Preparation(i)
  BY <1>2 DEF Preparation, PrepareBundle, BundleRejected, DryRun, Proceed, RanInv, ReturnInv,
     Done, world, Running, TypeOK, InstallInv, Fail, Return, CommandReturns, After
<1>3. ASSUME NEW p \in Phases, Around(i, p) PROVE RanInv(i)'
  <2>1. CASE PhaseStarts(i, p)
    BY <2>1 DEF PhaseStarts, RanInv, ReturnInv, Done, world, Running, TypeOK, InstallInv, Fail,
       Return, CommandReturns, After
  <2>2. CASE StartEventFails(i, p)
    BY <2>2 DEF StartEventFails, RanInv, ReturnInv, Done, world, Running, TypeOK, InstallInv,
       Fail, Return, CommandReturns, After
  <2>3. CASE RunCommand(i, p)
    BY <2>3 DEF RunCommand, RanInv, ReturnInv, Done, world, Running, TypeOK, InstallInv, Fail,
       Return, CommandReturns, After
  <2>4. CASE CommandFails(i, p)
    BY <2>4 DEF CommandFails, RanInv, ReturnInv, Done, world, Running, TypeOK, InstallInv, Fail,
       Return, CommandReturns, After
  <2>5. CASE PhaseEnds(i, p)
    <3>1. /\ pc[i] = <<p, "end">> /\ pc'[i] = After(p) /\ result[i] = "ok"
          /\ ran' = ran /\ opts' = opts /\ deps' = deps /\ applied' = applied /\ exit' = exit
      BY <2>5 DEF PhaseEnds, world, TypeOK
    <3>2. RanInv(i)
      BY DEF InstallInv
    <3>3. Mode(opts[i]) \in {"reuse", "bootstrap"}
      BY DEF Mode
    <3>4. CASE p = "bootstrap"
      BY <3>1, <3>2, <3>3, <3>4 DEF RanInv, ReturnInv, After
    <3>5. CASE p = "helm"
      BY <3>1, <3>2, <3>3, <3>5 DEF RanInv, ReturnInv, After, Done
    <3> QED
      BY <3>4, <3>5
  <2>6. CASE PhaseFails(i, p)
    BY <2>6 DEF PhaseFails, RanInv, ReturnInv, Done, world, Running, TypeOK, InstallInv, Fail,
       Return, CommandReturns, After
  <2> QED
    BY <1>3, <2>1, <2>2, <2>3, <2>4, <2>5, <2>6 DEF Around
<1>4. CASE Work(i)
  BY <1>4 DEF Work, NothingToBootstrap, ScriptMissing, ScriptSucceeds, WaitForCluster, WaitFails,
     HelmSucceeds, RanInv, ReturnInv, Done, world, Running, TypeOK, InstallInv, Fail, Return,
     CommandReturns, After
<1>5. CASE Ending(i)
  <2>1. CASE Finish(i)
    BY <2>1 DEF Finish, RanInv, ReturnInv, Done, world, Running, TypeOK, InstallInv, Fail,
       Return, CommandReturns, After
  <2>2. CASE EmitOutput(i)
    BY <2>2 DEF EmitOutput, RanInv, ReturnInv, Done, world, Running, TypeOK, InstallInv, Fail,
       Return, CommandReturns, After
  <2>3. CASE OutputFails(i)
    BY <2>3 DEF OutputFails, RanInv, ReturnInv, Done, world, Running, TypeOK, InstallInv, Fail,
       Return, CommandReturns, After
  <2>4. CASE Crash(i)
    <3>1. ~opts[i].dryRun \/ ~(pc[i] = <<"helm", "command">>)
      BY DEF InstallInv, CheckInv, InPhase
    <3> QED
      BY <2>4, <3>1 DEF Crash, RanInv, ReturnInv, Done, world, Running, TypeOK, InstallInv
  <2>6. CASE OrphanEnds(i)
    BY <2>6 DEF OrphanEnds, RanInv, ReturnInv, Done, world, Running, TypeOK, InstallInv
  <2>5. CASE SinkFills(i)
    BY <2>5 DEF SinkFills, RanInv, ReturnInv, Done, world, Running, TypeOK, InstallInv, Fail,
       Return, CommandReturns, After
  <2> QED
    BY <1>5, <2>1, <2>2, <2>3, <2>4, <2>5, <2>6 DEF Ending
<1> QED
  BY <1>1, <1>2, <1>3, <1>4, <1>5 DEF Step

\* The checks come before the commands.
LEMMA BeforeStep ==
  ASSUME TypeOK, NEW i \in Installs, InstallInv(i), Step(i)
  PROVE  BeforeInv(i)'
<1>1. CASE Checks(i)
  BY <1>1 DEF Checks, Reject, Begin, ValidateExistingCluster, ClusterInvalid, BeforeInv,
     CheckInv, RanInv, ReturnInv, Running, InPhase, TypeOK, InstallInv, Fail, Return,
     CommandReturns, After
<1>2. CASE Preparation(i)
  BY <1>2 DEF Preparation, PrepareBundle, BundleRejected, DryRun, Proceed, BeforeInv, CheckInv,
     RanInv, ReturnInv, Running, InPhase, TypeOK, InstallInv, Fail, Return, CommandReturns,
     After
<1>3. ASSUME NEW p \in Phases, Around(i, p) PROVE BeforeInv(i)'
  BY <1>3 DEF Around, PhaseStarts, StartEventFails, RunCommand, CommandFails, PhaseEnds,
     PhaseFails, BeforeInv, CheckInv, RanInv, ReturnInv, Running, InPhase, TypeOK, InstallInv,
     Fail, Return, CommandReturns, After
<1>4. CASE Work(i)
  BY <1>4 DEF Work, NothingToBootstrap, ScriptMissing, ScriptSucceeds, WaitForCluster, WaitFails,
     HelmSucceeds, BeforeInv, CheckInv, RanInv, ReturnInv, Running, InPhase, TypeOK, InstallInv,
     Fail, Return, CommandReturns, After
<1>5. CASE Ending(i)
  BY <1>5 DEF Ending, Finish, EmitOutput, OutputFails, Crash, OrphanEnds, SinkFills, BeforeInv, CheckInv,
     RanInv, ReturnInv, Running, InPhase, TypeOK, InstallInv, Fail, Return, CommandReturns,
     After
<1> QED
  BY <1>1, <1>2, <1>3, <1>4, <1>5 DEF Step

\* What a step adds to a log that is short enough.
LEMMA Bounded ==
  ASSUME TypeOK, NEW i \in Installs, NEW n \in Int, NEW m \in Int, Grows(i, m), Len(log[i]) <= n
  PROVE  Len(log'[i]) \in Nat /\ Len(log'[i]) <= n + m
<1>1. Len(log[i]) \in Nat /\ Len(log'[i]) \in Nat /\ Len(log'[i]) <= Len(log[i]) + m
  BY DEF TypeOK, Grows
<1> QED
  BY <1>1

\* The log keeps its bounds.
LEMMA LengthStep ==
  ASSUME TypeOK, NEW i \in Installs, InstallInv(i), Step(i)
  PROVE  log' \in [Installs -> Seq(Entries)] /\ LengthInv(i)' /\ Len(log'[i]) <= 11
<1> DEFINE goal == log' \in [Installs -> Seq(Entries)] /\ LengthInv(i)' /\ Len(log'[i]) <= 11
<1>6. \A p \in Phases : Own(p) \in 0 .. 1 /\ Before(p) \in 1 .. 5
  BY DEF Own, Before
<1>7. \A p \in Phases : Own(p)' = Own(p)
  BY WorldStep DEF Own
<1>1. CASE Checks(i)
  <2>1. CASE Begin(i)
    <3>1. Grows(i, 1)
      BY <2>1, Growth
    <3>2. pc'[i] = <<"install", "cluster">>
      BY <2>1 DEF Begin, TypeOK, Fail, Return, After
    <3>3. Len(log[i]) <= 0
      BY <2>1 DEF Begin, InstallInv, LengthInv
    <3>4. Len(log'[i]) \in Nat /\ Len(log'[i]) <= (0) + (1)
      BY <3>1, <3>3, Bounded
    <3> QED
      BY <3>1, <3>2, <3>4 DEF LengthInv, Grows, Before
  <2>2. CASE ClusterInvalid(i)
    <3>1. Grows(i, 1)
      BY <2>2, Growth
    <3>2. pc'[i] = <<"install", "done">>
      BY <2>2 DEF ClusterInvalid, TypeOK, Fail, Return, After
    <3>3. Len(log[i]) <= 1
      BY <2>2 DEF ClusterInvalid, InstallInv, LengthInv
    <3>4. Len(log'[i]) \in Nat /\ Len(log'[i]) <= (1) + (1)
      BY <3>1, <3>3, Bounded
    <3> QED
      BY <3>1, <3>2, <3>4 DEF LengthInv, Grows, Before
  <2>3. CASE Reject(i) \/ ValidateExistingCluster(i)
    BY <1>6, <1>7, <2>3 DEF Reject, ValidateExistingCluster, TypeOK, InstallInv, LengthInv,
       Before, world, Return, Running
  <2> QED
    BY <1>1, <2>1, <2>2, <2>3 DEF Checks
<1>2. CASE Preparation(i)
  <2>1. CASE BundleRejected(i)
    <3>1. Grows(i, 1)
      BY <2>1, Growth
    <3>2. pc'[i] = <<"install", "done">>
      BY <2>1 DEF BundleRejected, TypeOK, Fail, Return, After
    <3>3. Len(log[i]) <= 1
      BY <2>1 DEF BundleRejected, InstallInv, LengthInv
    <3>4. Len(log'[i]) \in Nat /\ Len(log'[i]) <= (1) + (1)
      BY <3>1, <3>3, Bounded
    <3> QED
      BY <3>1, <3>2, <3>4 DEF LengthInv, Grows, Before
  <2>2. CASE DryRun(i)
    <3>1. Grows(i, 3)
      BY <2>2, Growth
    <3>2. pc'[i] = <<"install", "output">>
      BY <2>2 DEF DryRun, TypeOK, Fail, Return, After
    <3>3. Len(log[i]) <= 1
      BY <2>2 DEF DryRun, InstallInv, LengthInv
    <3>4. Len(log'[i]) \in Nat /\ Len(log'[i]) <= (1) + (3)
      BY <3>1, <3>3, Bounded
    <3> QED
      BY <3>1, <3>2, <3>4 DEF LengthInv, Grows, Before
  <2>3. CASE PrepareBundle(i) \/ Proceed(i)
    BY <1>6, <1>7, <2>3 DEF PrepareBundle, Proceed, TypeOK, InstallInv, LengthInv, Before,
       world, Return, Running
  <2> QED
    BY <1>2, <2>1, <2>2, <2>3 DEF Preparation
<1>3. ASSUME NEW p \in Phases, Around(i, p) PROVE goal
  <2>1. CASE PhaseStarts(i, p)
    <3>1. Grows(i, 1)
      BY <2>1, Growth
    <3>2. pc'[i] = <<p, "run">>
      BY <2>1 DEF PhaseStarts, TypeOK, Fail, Return, After
    <3>3. Len(log[i]) <= Before(p)
      BY <2>1 DEF PhaseStarts, InstallInv, LengthInv
    <3>4. Len(log'[i]) \in Nat /\ Len(log'[i]) <= (Before(p)) + (1)
      BY <1>6, <3>1, <3>3, Bounded
    <3> QED
      BY <1>6, <1>7, <3>1, <3>2, <3>4 DEF LengthInv, Grows, Before
  <2>2. CASE StartEventFails(i, p)
    <3>1. Grows(i, 0)
      BY <2>2, Growth
    <3>2. pc'[i] = <<"install", "done">>
      BY <2>2 DEF StartEventFails, TypeOK, Fail, Return, After
    <3>3. Len(log[i]) <= Before(p)
      BY <2>2 DEF StartEventFails, InstallInv, LengthInv
    <3>4. Len(log'[i]) \in Nat /\ Len(log'[i]) <= (Before(p)) + (0)
      BY <1>6, <3>1, <3>3, Bounded
    <3> QED
      BY <1>6, <1>7, <3>1, <3>2, <3>4 DEF LengthInv, Grows, Before
  <2>3. CASE RunCommand(i, p)
    <3>1. Grows(i, Own(p))
      BY <2>3, Growth
    <3>2. pc'[i] = <<p, "command">>
      BY <2>3 DEF RunCommand, TypeOK, Fail, Return, After
    <3>3. Len(log[i]) <= Before(p) + 1
      BY <2>3 DEF RunCommand, InstallInv, LengthInv
    <3>4. Len(log'[i]) \in Nat /\ Len(log'[i]) <= (Before(p) + 1) + (Own(p))
      BY <1>6, <3>1, <3>3, Bounded
    <3> QED
      BY <1>6, <1>7, <3>1, <3>2, <3>4 DEF LengthInv, Grows, Before
  <2>4. CASE CommandFails(i, p)
    <3>1. Grows(i, Own(p))
      BY <2>4, Growth
    <3>2. pc'[i] = <<p, "end">>
      BY <2>4 DEF CommandFails, TypeOK, Fail, Return, After
    <3>3. Len(log[i]) <= Before(p) + 1 + Own(p)
      BY <2>4 DEF CommandFails, InstallInv, LengthInv
    <3>4. Len(log'[i]) \in Nat /\ Len(log'[i]) <= (Before(p) + 1 + Own(p)) + (Own(p))
      BY <1>6, <3>1, <3>3, Bounded
    <3> QED
      BY <1>6, <1>7, <3>1, <3>2, <3>4 DEF LengthInv, Grows, Before
  <2>5. CASE PhaseEnds(i, p)
    <3>1. Grows(i, 2 - Own(p))
      BY <2>5, Growth
    <3>2. pc'[i] = After(p)
      BY <2>5 DEF PhaseEnds, TypeOK, Fail, Return, After
    <3>3. Len(log[i]) <= Before(p) + 1 + 2 * Own(p)
      BY <2>5 DEF PhaseEnds, InstallInv, LengthInv
    <3>4. Len(log'[i]) \in Nat /\ Len(log'[i]) <= (Before(p) + 1 + 2 * Own(p)) + (2 - Own(p))
      BY <1>6, <3>1, <3>3, Bounded
    <3> QED
      BY <1>6, <1>7, <3>1, <3>2, <3>4 DEF LengthInv, Grows, Before, After
  <2>6. CASE PhaseFails(i, p)
    <3>1. Grows(i, 3 - Own(p))
      BY <2>6, Growth
    <3>2. pc'[i] = <<"install", "done">>
      BY <2>6 DEF PhaseFails, TypeOK, Fail, Return, After
    <3>3. Len(log[i]) <= Before(p) + 1 + 2 * Own(p)
      BY <2>6 DEF PhaseFails, InstallInv, LengthInv
    <3>4. Len(log'[i]) \in Nat /\ Len(log'[i]) <= (Before(p) + 1 + 2 * Own(p)) + (3 - Own(p))
      BY <1>6, <3>1, <3>3, Bounded
    <3> QED
      BY <1>6, <1>7, <3>1, <3>2, <3>4 DEF LengthInv, Grows, Before
  <2> QED
    BY <1>3, <2>1, <2>2, <2>3, <2>4, <2>5, <2>6 DEF Around
<1>4. CASE Work(i)
  <2>1. CASE ScriptSucceeds(i)
    <3>1. Grows(i, Own("bootstrap"))
      BY <2>1, Growth
    <3>2. pc'[i] \in {"bootstrap"} \X {"wait", "end"}
      BY <2>1 DEF ScriptSucceeds, TypeOK, Fail, Return, After
    <3>3. Len(log[i]) <= Before("bootstrap") + 1 + Own("bootstrap")
      BY <2>1 DEF ScriptSucceeds, InstallInv, LengthInv
    <3>4. Len(log'[i]) \in Nat /\ Len(log'[i]) <= (Before("bootstrap") + 1 + Own("bootstrap")) + (Own("bootstrap"))
      BY <1>6, <3>1, <3>3, Bounded
    <3> QED
      BY <1>6, <1>7, <3>1, <3>2, <3>4 DEF LengthInv, Grows, Before
  <2>2. CASE HelmSucceeds(i)
    <3>1. Grows(i, Own("helm"))
      BY <2>2, Growth
    <3>2. pc'[i] = <<"helm", "end">>
      BY <2>2 DEF HelmSucceeds, TypeOK, Fail, Return, After
    <3>3. Len(log[i]) <= Before("helm") + 1 + Own("helm")
      BY <2>2 DEF HelmSucceeds, InstallInv, LengthInv
    <3>4. Len(log'[i]) \in Nat /\ Len(log'[i]) <= (Before("helm") + 1 + Own("helm")) + (Own("helm"))
      BY <1>6, <3>1, <3>3, Bounded
    <3> QED
      BY <1>6, <1>7, <3>1, <3>2, <3>4 DEF LengthInv, Grows, Before
  <2>3. CASE NothingToBootstrap(i) \/ ScriptMissing(i) \/ WaitForCluster(i) \/ WaitFails(i)
    BY <1>6, <1>7, <2>3 DEF NothingToBootstrap, ScriptMissing, WaitForCluster, WaitFails, TypeOK,
       InstallInv, LengthInv, Before, world, Return, Running
  <2> QED
    BY <1>4, <2>1, <2>2, <2>3 DEF Work
<1>5. CASE Ending(i)
  <2>1. CASE Finish(i)
    <3>1. Grows(i, 1)
      BY <2>1, Growth
    <3>2. pc'[i] = <<"install", "output">>
      BY <2>1 DEF Finish, TypeOK, Fail, Return, After
    <3>3. Len(log[i]) <= 9
      BY <2>1 DEF Finish, InstallInv, LengthInv
    <3>4. Len(log'[i]) \in Nat /\ Len(log'[i]) <= (9) + (1)
      BY <3>1, <3>3, Bounded
    <3> QED
      BY <3>1, <3>2, <3>4 DEF LengthInv, Grows, Before
  <2>2. CASE OutputFails(i)
    <3>1. Grows(i, 1)
      BY <2>2, Growth
    <3>2. pc'[i] = <<"install", "done">>
      BY <2>2 DEF OutputFails, TypeOK, Fail, Return, After
    <3>3. Len(log[i]) <= 10
      BY <2>2 DEF OutputFails, InstallInv, LengthInv
    <3>4. Len(log'[i]) \in Nat /\ Len(log'[i]) <= (10) + (1)
      BY <3>1, <3>3, Bounded
    <3> QED
      BY <3>1, <3>2, <3>4 DEF LengthInv, Grows, Before
  <2>3. CASE EmitOutput(i) \/ Crash(i) \/ OrphanEnds(i) \/ SinkFills(i)
    BY <1>6, <1>7, <2>3 DEF EmitOutput, Crash, OrphanEnds, SinkFills, TypeOK, InstallInv, LengthInv, Before,
       world, Return, Running
  <2> QED
    BY <1>5, <2>1, <2>2, <2>3 DEF Ending
<1> QED
  BY <1>1, <1>2, <1>3, <1>4, <1>5 DEF Step

-----------------------------------------------------------------------------
(* What the log says in the end *)

\* The entry with which an install ends tells its exit status.
LEMMA EntryStep ==
  ASSUME TypeOK, NEW i \in Installs, InstallInv(i), Step(i)
  PROVE  EntryInv(i)'
<1> DEFINE completed == <<<<"install", "completed">>>>
<1>1. log[i] \in Seq(Entries) /\ completed \in Seq(Entries) /\ completed[Len(completed)] = <<"install", "completed">>
  BY EntriesTyped DEF TypeOK
<1>2. ASSUME NEW es \in Seq(Entries), NEW e \in Entries, Log(i, es \o <<e>>), sink[i] = "open"
      PROVE  log'[i] /= <<>> /\ log'[i][Len(log'[i])] = e
  <2>1. es \o <<e>> \in Seq(Entries) /\ Len(es \o <<e>>) \in Nat \ {0} /\ (es \o <<e>>)[Len(es \o <<e>>)] = e
    OBVIOUS
  <2> DEFINE added == es \o <<e>>
  <2>2. log'[i] = log[i] \o added
    BY <1>2, <2>1, LogTyped
  <2>3. added \in Seq(Entries) /\ Len(added) \in Nat \ {0} /\ added[Len(added)] = e
    BY <2>1
  <2> HIDE DEF added
  <2> QED
    BY <1>1, <2>2, <2>3
<1>3. ASSUME NEW es \in Seq(Entries), Fail(i, es), sink' = sink
      PROVE  EntryInv(i)'
  <2>1. <<"install", "failed">> \in Entries
    BY EntriesTyped
  <2>2. pc'[i] = <<"install", "done">> /\ exit'[i] = "error"
    BY <1>3 DEF Fail, TypeOK
  <2>3. Log(i, es \o <<<<"install", "failed">>>>)
    BY <1>3 DEF Fail
  <2> QED
    BY <1>2, <1>3, <2>1, <2>2, <2>3 DEF EntryInv, Ended
<1>4. ASSUME DryRun(i) PROVE EntryInv(i)'
  <2>1. PICK es \in Seq(Entries) : Log(i, es \o completed)
    BY <1>4, DryEntries
  <2>2. <<"install", "completed">> \in Entries
    BY EntriesTyped
  <2>3. pc'[i] = <<"install", "output">> /\ sink' = sink
    BY <1>4 DEF DryRun, TypeOK
  <2> QED
    BY <1>2, <2>1, <2>2, <2>3 DEF EntryInv, Ended
<1>5. ASSUME Finish(i) PROVE EntryInv(i)'
  <2>1. Log(i, completed) /\ pc'[i] = <<"install", "output">> /\ sink' = sink
    BY <1>5 DEF Finish, TypeOK
  <2>2. sink[i] = "open" => log'[i] = log[i] \o completed
    BY <1>1, <2>1, LogTyped
  <2>3. sink[i] = "open" => log'[i] /= <<>> /\ log'[i][Len(log'[i])] = <<"install", "completed">>
    BY <1>1, <2>2
  <2> QED
    BY <2>1, <2>3 DEF EntryInv, Ended
<1>6. ASSUME ClusterInvalid(i) \/ BundleRejected(i) \/ OutputFails(i) PROVE EntryInv(i)'
  <2>1. Fail(i, NoEntry) /\ sink' = sink
    BY <1>6 DEF ClusterInvalid, BundleRejected, OutputFails
  <2>2. NoEntry \in Seq(Entries)
    BY EntriesTyped
  <2> QED
    BY <1>3, <2>1, <2>2
<1>7. ASSUME NEW p \in Phases, PhaseFails(i, p) PROVE EntryInv(i)'
  <2>1. Fail(i, <<<<PhaseName(p), result[i]>>>> \o CommandEntry(i, p, "error")) /\ sink' = sink
    BY <1>7 DEF PhaseFails
  <2>2. result[i] \in {"ok", "error"}
    BY DEF TypeOK
  <2>3. <<<<PhaseName(p), result[i]>>>> \o CommandEntry(i, p, "error") \in Seq(Entries)
    BY <2>2, PhaseEntries
  <2> QED
    BY <1>3, <2>1, <2>3
<1>8. ASSUME NEW p \in Phases, StartEventFails(i, p) PROVE EntryInv(i)'
  BY <1>8 DEF StartEventFails, Fail, TypeOK, EntryInv, Ended
<1>9. CASE Reject(i) \/ EmitOutput(i) \/ Crash(i) \/ OrphanEnds(i) \/ SinkFills(i)
  BY <1>9 DEF Reject, EmitOutput, Crash, OrphanEnds, SinkFills, Running, TypeOK, InstallInv, EntryInv, Ended
<1>10. CASE Begin(i) \/ ValidateExistingCluster(i) \/ PrepareBundle(i) \/ Proceed(i)
  BY <1>10 DEF Begin, ValidateExistingCluster, PrepareBundle, Proceed, TypeOK, EntryInv, Ended
<1>11. ASSUME NEW p \in Phases,
              PhaseStarts(i, p) \/ RunCommand(i, p) \/ CommandFails(i, p) \/ PhaseEnds(i, p)
       PROVE  EntryInv(i)'
  BY <1>11 DEF PhaseStarts, RunCommand, CommandFails, PhaseEnds, Return, After, TypeOK, EntryInv, Ended
<1>12. CASE Work(i)
  BY <1>12 DEF Work, NothingToBootstrap, ScriptMissing, ScriptSucceeds, WaitForCluster, WaitFails, HelmSucceeds,
     Return, TypeOK, EntryInv, Ended
<1> QED
  BY <1>4, <1>5, <1>6, <1>7, <1>8, <1>9, <1>10, <1>11, <1>12
  DEF Step, Checks, Preparation, Around, Ending

-----------------------------------------------------------------------------
(* What the log says of the commands *)

\* Outcomes in the parts of a log are the outcomes in the whole.
LEMMA Joined ==
  ASSUME NEW s \in Seq(Entries), NEW t \in Seq(Entries), NEW p \in Phases, NEW o
  PROVE  /\ Silent(s, p) /\ Silent(t, p) => Silent(s \o t, p)
         /\ Tells(s, p, o) /\ Silent(t, p) => Tells(s \o t, p, o)
         /\ Silent(s, p) /\ Tells(t, p, o) => Tells(s \o t, p, o)
<1>1. Outcomes(s \o t, p) = Outcomes(s, p) \cup {Len(s) + n : n \in Outcomes(t, p)}
  BY Concatenated
<1>2. Len(s \o t) = Len(s) + Len(t) /\ Len(s) \in Nat /\ Len(t) \in Nat
  OBVIOUS
<1>3. Silent(s, p) /\ Silent(t, p) => Silent(s \o t, p)
  BY <1>1 DEF Silent
<1>4. ASSUME Tells(s, p, o), Silent(t, p) PROVE Tells(s \o t, p, o)
  <2>1. PICK n \in 1 .. Len(s) : Outcomes(s, p) = {n} /\ s[n] = <<CommandName(p), o>>
    BY <1>4 DEF Tells
  <2>2. n \in 1 .. Len(s \o t) /\ (s \o t)[n] = s[n]
    BY <1>2
  <2>3. Outcomes(s \o t, p) = {n}
    BY <1>1, <1>4, <2>1 DEF Silent
  <2> QED
    BY <2>1, <2>2, <2>3 DEF Tells
<1>5. ASSUME Silent(s, p), Tells(t, p, o) PROVE Tells(s \o t, p, o)
  <2>1. PICK n \in 1 .. Len(t) : Outcomes(t, p) = {n} /\ t[n] = <<CommandName(p), o>>
    BY <1>5 DEF Tells
  <2>2. Len(s) + n \in 1 .. Len(s \o t) /\ (s \o t)[Len(s) + n] = t[n]
    BY <1>2
  <2>3. Outcomes(s \o t, p) = {Len(s) + n}
    BY <1>1, <1>5, <2>1 DEF Silent
  <2> QED
    BY <2>1, <2>2, <2>3 DEF Tells
<1> QED
  BY <1>3, <1>4, <1>5

\* One entry, or none.
LEMMA Single ==
  ASSUME NEW p \in Phases
  PROVE  /\ Silent(<<>>, p)
         /\ \A o \in {"ok", "error"} : Tells(<<<<CommandName(p), o>>>>, p, o)
         /\ \A q \in Phases \ {p}, o \in {"ok", "error"} : Silent(<<<<CommandName(q), o>>>>, p)
         /\ \A q \in Phases : Silent(<<<<CommandName(q), "started">>>>, p)
         /\ \A q \in Phases, o \in {"started", "ok", "error"} : Silent(<<<<PhaseName(q), o>>>>, p)
         /\ \A o \in {"started", "completed", "failed"} : Silent(<<<<"install", o>>>>, p)
<1>1. Silent(<<>>, p)
  BY DEF Silent, Outcomes
<1>2. ASSUME NEW e PROVE Len(<<e>>) = 1 /\ <<e>>[1] = e
  OBVIOUS
<1>3. ASSUME NEW e, e \notin {CommandName(p)} \X {"ok", "error"} PROVE Silent(<<e>>, p)
  BY <1>2, <1>3 DEF Silent, Outcomes
<1>4. ASSUME NEW o \in {"ok", "error"} PROVE Tells(<<<<CommandName(p), o>>>>, p, o)
  BY <1>2 DEF Tells, Outcomes
<1> QED
  BY <1>1, <1>3, <1>4 DEF CommandName, PhaseName

\* What is said of a command stays so when nothing more is said of it.
LEMMA Kept ==
  ASSUME TypeOK, NEW i \in Installs, NEW p \in Phases, NEW t \in Seq(Entries),
         log'[i] = log[i] \o t, Silent(t, p), ran'[i][p] = ran[i][p]
  PROVE  (Silent(log[i], p) => Silent(log[i], p)') /\ (Logged(i, p) => Logged(i, p)')
<1>1. log[i] \in Seq(Entries)
  BY DEF TypeOK
<1>2. /\ Silent(log[i], p) => Silent(log'[i], p)
      /\ Tells(log[i], p, ran[i][p]) => Tells(log'[i], p, ran'[i][p])
  BY <1>1, Joined
<1> QED
  BY <1>2 DEF Logged, Silent, Tells, Outcomes, CommandName

\* A command of which nothing has been said is told of.
LEMMA Told ==
  ASSUME TypeOK, NEW i \in Installs, NEW p \in Phases, NEW t \in Seq(Entries),
         log'[i] = log[i] \o t, Silent(log[i], p), Tells(t, p, ran'[i][p]), ran'[i][p] /= "no"
  PROVE  Logged(i, p)'
<1>1. log[i] \in Seq(Entries)
  BY DEF TypeOK
<1>2. Tells(log'[i], p, ran'[i][p])
  BY <1>1, Joined
<1> QED
  BY <1>2 DEF Logged, Tells, Outcomes, CommandName

\* A step that says nothing of any command.
LEMMA Mute ==
  ASSUME TypeOK, NEW i \in Installs, RanInv(i), OutcomeInv(i), NEW t \in Seq(Entries),
         log'[i] = log[i] \o t, \A p \in Phases : Silent(t, p),
         deps' = deps, ran'[i] = ran[i], opts'[i] = opts[i], sink[i] = "open", pc[i] \notin {"install"} \X {"gone", "orphan"},
         \A p \in Phases : (Past(i, p) => Past(i, p)') /\ (Past(i, p)' => Past(i, p) \/ ran[i][p] = "no")
  PROVE  OutcomeInv(i)'
<1> SUFFICES ASSUME ~opts[i].dryRun, NEW p \in Phases
             PROVE  IF deps[p] = "logging" \/ Past(i, p)' THEN Logged(i, p)' ELSE Silent(log[i], p)'
  BY DEF OutcomeInv
<1>1. (Silent(log[i], p) => Silent(log[i], p)') /\ (Logged(i, p) => Logged(i, p)')
  BY Kept
<1>2. IF deps[p] = "logging" \/ Past(i, p) THEN Logged(i, p) ELSE Silent(log[i], p)
  BY DEF OutcomeInv
<1>3. ran[i][p] = "no" => (Logged(i, p) <=> Silent(log[i], p))
  BY DEF Logged
<1> QED
  BY <1>1, <1>2, <1>3

\* The end of a phase that is well logged.
LEMMA PhaseTold ==
  ASSUME TypeOK, NEW i \in Installs, InstallInv(i), NEW p \in Phases, NEW t \in Seq(Entries),
         pc[i] = <<p, "end">>, sink[i] = "open", log'[i] = log[i] \o t,
         UNCHANGED <<deps, ran, opts, sink>>,
         pc'[i] = After(p) \/ (pc'[i] = <<"install", "done">> /\ result[i] = "error"),
         \A q \in Phases \ {p} : Silent(t, q),
         IF CommandEntry(i, p, result[i]) = NoEntry THEN Silent(t, p) ELSE Tells(t, p, result[i])
  PROVE  OutcomeInv(i)'
<1> SUFFICES ASSUME ~opts[i].dryRun, NEW q \in Phases
             PROVE  IF deps[q] = "logging" \/ Past(i, q)' THEN Logged(i, q)' ELSE Silent(log[i], q)'
  BY DEF OutcomeInv
<1>1. IF deps[q] = "logging" \/ Past(i, q) THEN Logged(i, q) ELSE Silent(log[i], q)
  BY DEF InstallInv, OutcomeInv
<1>2. /\ result[i] \in {"ok", "error"} /\ Mode(opts[i]) \in {"bootstrap", "reuse"}
      /\ ran[i] \in [Phases -> {"no", "ok", "error"}]
  BY DEF TypeOK, Mode
<1>3. CASE q = p
  <2>1. ~Past(i, p) /\ Past(i, p)'
    <3>1. CASE p = "bootstrap"
      BY <3>1 DEF Past, After
    <3>2. CASE p = "helm"
      BY <3>2 DEF Past, After
    <3> QED
      BY <3>1, <3>2
  <2>2. CASE deps[p] = "logging"
    <3>1. CommandEntry(i, p, result[i]) = NoEntry
      BY <2>2 DEF CommandEntry
    <3> QED
      BY <1>1, <1>3, <2>2, <3>1, Kept
  <2>3. CASE deps[p] /= "logging" /\ p = "bootstrap" /\ Mode(opts[i]) = "reuse"
    <3>1. CommandEntry(i, p, result[i]) = NoEntry /\ ran[i][p] = "no"
      BY <2>3 DEF CommandEntry, InstallInv, RanInv, ReturnInv
    <3>2. Logged(i, p)
      BY <1>1, <1>3, <2>1, <2>3, <3>1 DEF Logged
    <3> QED
      BY <1>3, <2>1, <3>1, <3>2, Kept
  <2>4. CASE deps[p] /= "logging" /\ ~(p = "bootstrap" /\ Mode(opts[i]) = "reuse")
    <3>1. CommandEntry(i, p, result[i]) = <<<<CommandName(p), result[i]>>>> /\ ran[i][p] = result[i]
      BY <2>4 DEF CommandEntry, InstallInv, RanInv, ReturnInv
    <3>2. CommandEntry(i, p, result[i]) /= NoEntry
      <4>1. Len(<<<<CommandName(p), result[i]>>>>) = 1 /\ Len(<<>>) = 0
        OBVIOUS
      <4> QED
        BY <3>1, <4>1 DEF NoEntry
    <3>3. Silent(log[i], p) /\ Tells(t, p, ran'[i][p]) /\ ran'[i][p] /= "no"
      BY <1>1, <1>2, <1>3, <2>1, <2>4, <3>1, <3>2
    <3> QED
      BY <1>3, <2>1, <3>3, Told
  <2> QED
    BY <2>2, <2>3, <2>4
<1>4. CASE q /= p
  <2>1. Silent(t, q)
    BY <1>4
  <2>2. /\ Past(i, q) => Past(i, q)'
        /\ Past(i, q)' => Past(i, q) \/ ran[i][q] = "no"
    BY <1>4 DEF Past, After, InstallInv, RanInv
  <2>3. ran[i][q] = "no" => (Logged(i, q) <=> Silent(log[i], q))
    BY DEF Logged
  <2> QED
    BY <1>1, <2>1, <2>2, <2>3, Kept
<1> QED
  BY <1>3, <1>4

\* A command that returns, in the log of a component that keeps one or not.
LEMMA ReturnTold ==
  ASSUME TypeOK, NEW i \in Installs, InstallInv(i), NEW p \in Phases, NEW o \in {"ok", "error"},
         pc[i] = <<p, "command">>, CommandReturns(i, p, o), UNCHANGED <<deps, opts, sink>>,
         pc'[i] \in {p} \X {"wait", "end"}
  PROVE  OutcomeInv(i)'
<1> SUFFICES ASSUME ~opts[i].dryRun, sink[i] = "open", NEW q \in Phases
             PROVE  IF deps[q] = "logging" \/ Past(i, q)' THEN Logged(i, q)' ELSE Silent(log[i], q)'
  BY DEF OutcomeInv
<1>1. IF deps[q] = "logging" \/ Past(i, q) THEN Logged(i, q) ELSE Silent(log[i], q)
  BY DEF InstallInv, OutcomeInv
<1>2. /\ ran'[i][p] = o /\ (q /= p => ran'[i][q] = ran[i][q]) /\ ran[i][p] = "no"
      /\ Past(i, q)' <=> Past(i, q)
      /\ ~Past(i, p)
  BY DEF CommandReturns, TypeOK, InstallInv, RanInv, Past
<1>3. CASE deps[p] = "logging"
  <2> DEFINE t == <<<<CommandName(p), o>>>>
  <2>0. <<CommandName(p), o>> \in Entries
    BY EntriesTyped
  <2>1. t \in Seq(Entries)
    BY <2>0
  <2>2. log'[i] = log[i] \o t
    BY <1>3, <2>1, LogTyped DEF CommandReturns
  <2>3. Tells(t, p, o) /\ (q /= p => Silent(t, q))
    BY Single
  <2>4. CASE q = p
    <3>1. Silent(log[i], p)
      BY <1>1, <1>2, <1>3, <2>4 DEF Logged
    <3> QED
      BY <1>2, <1>3, <2>1, <2>2, <2>3, <2>4, <3>1, Told
  <2>5. CASE q /= p
    BY <1>1, <1>2, <2>1, <2>2, <2>3, <2>5, Kept
  <2> QED
    BY <2>4, <2>5
<1>4. CASE deps[p] /= "logging"
  <2>1. log' = log
    <3>1. Log(i, NoEntry) /\ NoEntry \in Seq(Entries)
      BY <1>4, EntriesTyped DEF CommandReturns
    <3>2. log[i] \in Seq(Entries)
      BY DEF TypeOK
    <3>3. log[i] \o NoEntry = log[i]
      BY <3>2 DEF NoEntry
    <3> QED
      BY <3>1, <3>3 DEF Log, TypeOK
  <2>2. q = p => ~(deps[q] = "logging" \/ Past(i, q)')
    BY <1>2, <1>4
  <2> QED
    BY <1>1, <1>2, <2>1, <2>2 DEF Logged
<1> QED
  BY <1>3, <1>4

\* A step that adds nothing to the log.
LEMMA NothingLogged ==
  ASSUME TypeOK, NEW i \in Installs, InstallInv(i), log' = log, sink' = sink,
         deps' = deps, ran' = ran, opts'[i] = opts[i], pc[i] \notin {"install"} \X {"gone", "orphan"},
         \A p \in Phases : (Past(i, p) => Past(i, p)') /\ (Past(i, p)' => Past(i, p) \/ ran[i][p] = "no")
  PROVE  OutcomeInv(i)'
<1>1. log[i] \in Seq(Entries) /\ <<>> \in Seq(Entries)
  BY DEF TypeOK
<1>2. log'[i] = log[i] \o <<>>
  BY <1>1
<1>3. \A p \in Phases : Silent(<<>>, p)
  BY Single
<1>4. CASE sink[i] = "open"
  BY <1>1, <1>2, <1>3, <1>4, Mute DEF InstallInv
<1>5. CASE sink[i] /= "open"
  BY <1>5 DEF OutcomeInv
<1> QED
  BY <1>4, <1>5

\* A step that adds one entry, of no command.
LEMMA OtherLogged ==
  ASSUME TypeOK, NEW i \in Installs, InstallInv(i), NEW e \in Entries, Log(i, <<e>>), sink' = sink,
         deps' = deps, ran' = ran, opts'[i] = opts[i], pc[i] \notin {"install"} \X {"gone", "orphan"},
         \A p \in Phases : Silent(<<e>>, p),
         \A p \in Phases : (Past(i, p) => Past(i, p)') /\ (Past(i, p)' => Past(i, p) \/ ran[i][p] = "no")
  PROVE  OutcomeInv(i)'
<1>1. <<e>> \in Seq(Entries)
  OBVIOUS
<1>2. CASE sink[i] = "open"
  <2>1. log'[i] = log[i] \o <<e>>
    BY <1>1, <1>2, LogTyped
  <2> QED
    BY <1>1, <1>2, <2>1, Mute DEF InstallInv
<1>3. CASE sink[i] /= "open"
  BY <1>3 DEF OutcomeInv
<1> QED
  BY <1>2, <1>3

\* The log tells of every command that has been run, once.
LEMMA OutcomeStep ==
  ASSUME TypeOK, NEW i \in Installs, InstallInv(i), Step(i)
  PROVE  OutcomeInv(i)'
<1> USE DEF InstallInv
<1>1. CASE Reject(i) \/ Begin(i)
  <2>1. log[i] = <<>> /\ ran'[i] = ran[i] /\ \A p \in Phases : ran[i][p] = "no"
    BY <1>1 DEF Reject, Begin, EntryInv, RanInv
  <2>2. \A p \in Phases : Silent(<<>>, p)
    BY Single
  <2>3. <<"install", "started">> \in Entries
    BY EntriesTyped
  <2> DEFINE t == <<<<"install", "started">>>>
  <2>4. t \in Seq(Entries) /\ \A p \in Phases : Silent(t, p)
    BY <2>3, Single
  <2>5. \A p \in Phases : Silent(<<>> \o t, p)
    BY <2>2, <2>4, Joined
  <2>6. log'[i] = log[i] \/ log'[i] = <<>> \o t
    BY <1>1, <2>1, <2>4, LogTyped DEF Reject, Begin
  <2>7. \A p \in Phases : Silent(log'[i], p)
    BY <2>1, <2>2, <2>5, <2>6
  <2> QED
    BY <2>1, <2>7 DEF OutcomeInv, Logged, Silent, Outcomes, CommandName
<1>2. CASE ClusterInvalid(i) \/ BundleRejected(i) \/ OutputFails(i)
  <2> DEFINE e == <<"install", "failed">>
  <2>1. e \in Entries /\ \A p \in Phases : Silent(<<e>>, p)
    BY EntriesTyped, Single
  <2>2. Log(i, NoEntry \o <<e>>)
    BY <1>2 DEF ClusterInvalid, BundleRejected, OutputFails, Fail
  <2>3. NoEntry \o <<e>> = <<e>>
    BY <2>1 DEF NoEntry
  <2>4. /\ pc[i] \in {"install"} \X {"cluster", "bundle", "output"} /\ pc'[i] = <<"install", "done">>
        /\ sink' = sink /\ deps' = deps /\ ran' = ran /\ opts' = opts
    BY <1>2 DEF ClusterInvalid, BundleRejected, OutputFails, Fail, world, TypeOK
  <2>5. \A p \in Phases : Past(i, p)' /\ (Past(i, p) \/ ran[i][p] = "no")
    BY <2>4 DEF Past, RanInv
  <2>6. Log(i, <<e>>)
    BY <2>2, <2>3, Zenon
  <2>7. pc[i] \notin {"install"} \X {"gone", "orphan"}
    BY <2>4
  <2> HIDE DEF e
  <2> QED
    BY <2>1, <2>4, <2>5, <2>6, <2>7, OtherLogged
<1>3. CASE DryRun(i)
  BY <1>3 DEF DryRun, OutcomeInv
<1>4. CASE ValidateExistingCluster(i) \/ PrepareBundle(i) \/ Proceed(i)
           \/ NothingToBootstrap(i) \/ ScriptMissing(i) \/ WaitForCluster(i) \/ WaitFails(i) \/ EmitOutput(i)
  <2>1. /\ log' = log /\ sink' = sink /\ deps' = deps /\ ran' = ran /\ opts' = opts
        /\ pc[i] \notin {"install"} \X {"gone", "orphan"}
    BY <1>4 DEF ValidateExistingCluster, PrepareBundle, Proceed, NothingToBootstrap, ScriptMissing,
       WaitForCluster, WaitFails, EmitOutput, world
  <2>2. \A p \in Phases : Past(i, p)' <=> Past(i, p)
    BY <1>4 DEF ValidateExistingCluster, PrepareBundle, Proceed, NothingToBootstrap, ScriptMissing,
       WaitForCluster, WaitFails, EmitOutput, Return, Past, TypeOK
  <2> QED
    BY <2>1, <2>2, NothingLogged
<1>5. CASE Finish(i)
  <2> DEFINE e == <<"install", "completed">>
  <2>1. e \in Entries /\ \A p \in Phases : Silent(<<e>>, p)
    BY EntriesTyped, Single
  <2>2. /\ Log(i, <<e>>) /\ pc[i] = <<"install", "finish">> /\ pc'[i] = <<"install", "output">>
        /\ sink' = sink /\ deps' = deps /\ ran' = ran /\ opts' = opts
    BY <1>5 DEF Finish, world, TypeOK
  <2>3. \A p \in Phases : Past(i, p)' <=> Past(i, p)
    BY <2>2 DEF Past
  <2> QED
    BY <2>1, <2>2, <2>3, OtherLogged
<1>6. ASSUME NEW p \in Phases, PhaseStarts(i, p) PROVE OutcomeInv(i)'
  <2> DEFINE e == <<PhaseName(p), "started">>
  <2>1. e \in Entries /\ \A q \in Phases : Silent(<<e>>, q)
    BY EntriesTyped, Single
  <2>2. /\ Log(i, <<e>>) /\ pc[i] = <<p, "start">> /\ pc'[i] = <<p, "run">>
        /\ sink' = sink /\ deps' = deps /\ ran' = ran /\ opts' = opts
    BY <1>6 DEF PhaseStarts, world, TypeOK
  <2>3. \A q \in Phases : Past(i, q)' <=> Past(i, q)
    BY <2>2 DEF Past
  <2> QED
    BY <2>1, <2>2, <2>3, OtherLogged
<1>7. ASSUME NEW p \in Phases, StartEventFails(i, p) PROVE OutcomeInv(i)'
  BY <1>7 DEF StartEventFails, OutcomeInv
<1>8. ASSUME NEW p \in Phases, RunCommand(i, p) PROVE OutcomeInv(i)'
  <2>1. /\ pc[i] = <<p, "run">> /\ pc'[i] = <<p, "command">>
        /\ sink' = sink /\ deps' = deps /\ ran' = ran /\ opts' = opts
    BY <1>8 DEF RunCommand, TypeOK
  <2>2. \A q \in Phases : Past(i, q)' <=> Past(i, q)
    BY <2>1 DEF Past
  <2>3. CASE deps[p] = "logging"
    <3> DEFINE e == <<CommandName(p), "started">>
    <3>1. e \in Entries /\ \A q \in Phases : Silent(<<e>>, q)
      BY EntriesTyped, Single
    <3>2. Log(i, <<e>>)
      BY <1>8, <2>3 DEF RunCommand
    <3> QED
      BY <2>1, <2>2, <3>1, <3>2, OtherLogged
  <2>4. CASE deps[p] /= "logging"
    <3>1. Log(i, NoEntry) /\ log[i] \in Seq(Entries)
      BY <1>8, <2>4 DEF RunCommand, TypeOK
    <3>2. log[i] \o NoEntry = log[i]
      BY <3>1 DEF NoEntry
    <3>3. log' = log
      BY <3>1, <3>2 DEF Log, TypeOK
    <3> QED
      BY <2>1, <2>2, <3>3, NothingLogged
  <2> QED
    BY <2>3, <2>4
<1>9. ASSUME NEW p \in Phases, CommandFails(i, p) PROVE OutcomeInv(i)'
  <2>1. /\ pc[i] = <<p, "command">> /\ pc'[i] = <<p, "end">> /\ CommandReturns(i, p, "error")
        /\ sink' = sink /\ deps' = deps /\ opts' = opts
    BY <1>9 DEF CommandFails, Return, TypeOK
  <2> QED
    BY <2>1, ReturnTold
<1>10. CASE ScriptSucceeds(i)
  <2>1. /\ pc[i] = <<"bootstrap", "command">> /\ pc'[i] \in {"bootstrap"} \X {"wait", "end"}
        /\ CommandReturns(i, "bootstrap", "ok") /\ sink' = sink /\ deps' = deps /\ opts' = opts
    BY <1>10 DEF ScriptSucceeds, Return, world, TypeOK
  <2> QED
    BY <2>1, ReturnTold
<1>11. CASE HelmSucceeds(i)
  <2>1. /\ pc[i] = <<"helm", "command">> /\ pc'[i] = <<"helm", "end">>
        /\ CommandReturns(i, "helm", "ok") /\ sink' = sink /\ deps' = deps /\ opts' = opts
    BY <1>11 DEF HelmSucceeds, Return, TypeOK
  <2> QED
    BY <2>1, ReturnTold
<1>12. ASSUME NEW p \in Phases, PhaseEnds(i, p) \/ PhaseFails(i, p) PROVE OutcomeInv(i)'
  <2> DEFINE a == <<<<PhaseName(p), result[i]>>>>
             b == CommandEntry(i, p, result[i])
             c == <<<<"install", "failed">>>>
  <2>1. result[i] \in {"ok", "error"}
    BY DEF TypeOK
  <2>2. CASE sink[i] = "open"
    <3>1. a \in Seq(Entries) /\ b \in Seq(Entries) /\ c \in Seq(Entries)
      <4>1. <<PhaseName(p), result[i]>> \in Entries /\ <<"install", "failed">> \in Entries
        BY <2>1, EntriesTyped
      <4> QED
        BY <2>1, <4>1, EntriesTyped
    <3>2. \A q \in Phases : Silent(a, q) /\ Silent(c, q)
      BY <2>1, Single
    <3>3. b = NoEntry \/ b = <<<<CommandName(p), result[i]>>>>
      BY DEF CommandEntry
    <3>4. /\ \A q \in Phases \ {p} : Silent(b, q)
          /\ IF b = NoEntry THEN Silent(b, p) ELSE Tells(b, p, result[i])
      BY <2>1, <3>3, Single DEF NoEntry
    <3> HIDE DEF a, b, c
    <3> DEFINE t == a \o b
    <3>5. /\ t \in Seq(Entries) /\ \A q \in Phases \ {p} : Silent(t, q)
          /\ IF b = NoEntry THEN Silent(t, p) ELSE Tells(t, p, result[i])
      BY <3>1, <3>2, <3>4, Joined
    <3> HIDE DEF t
    <3>6. /\ t \o c \in Seq(Entries) /\ \A q \in Phases \ {p} : Silent(t \o c, q)
          /\ IF b = NoEntry THEN Silent(t \o c, p) ELSE Tells(t \o c, p, result[i])
      <4>1. t \o c \in Seq(Entries)
        BY <3>1, <3>5
      <4>2. \A q \in Phases \ {p} : Silent(t \o c, q)
        BY <3>1, <3>2, <3>5, Joined
      <4>3. IF b = NoEntry THEN Silent(t \o c, p) ELSE Tells(t \o c, p, result[i])
        BY <3>1, <3>2, <3>5, Joined
      <4> QED
        BY <4>1, <4>2, <4>3
    <3>7. CASE PhaseEnds(i, p)
      <4>1. /\ pc[i] = <<p, "end">> /\ pc'[i] = After(p) /\ result[i] = "ok" /\ UNCHANGED <<deps, ran, opts, sink>>
        BY <3>7 DEF PhaseEnds, world, TypeOK
      <4>2. Log(i, t)
        BY <3>7, <4>1 DEF PhaseEnds, t, a, b
      <4>3. log'[i] = log[i] \o t
        BY <2>2, <3>5, <4>2, LogTyped
      <4> QED
        BY <2>2, <3>5, <4>1, <4>3, PhaseTold DEF b
    <3>8. CASE PhaseFails(i, p)
      <4>1. /\ pc[i] = <<p, "end">> /\ pc'[i] = <<"install", "done">> /\ result[i] = "error"
            /\ UNCHANGED <<deps, ran, opts, sink>>
        BY <2>2, <3>8 DEF PhaseFails, Fail, world, TypeOK
      <4>2. Log(i, t \o c)
        BY <3>8, <4>1 DEF PhaseFails, Fail, t, a, b, c
      <4>3. log'[i] = log[i] \o (t \o c)
        BY <2>2, <3>6, <4>2, LogTyped
      <4> QED
        BY <2>2, <3>6, <4>1, <4>3, PhaseTold DEF b
    <3> QED
      BY <1>12, <3>7, <3>8
  <2>3. CASE sink[i] /= "open"
    BY <1>12, <2>3 DEF PhaseEnds, PhaseFails, OutcomeInv
  <2> QED
    BY <2>2, <2>3
<1>13. CASE Crash(i) \/ OrphanEnds(i) \/ SinkFills(i)
  BY <1>13 DEF Crash, OrphanEnds, SinkFills, TypeOK, OutcomeInv
<1> QED
  BY <1>1, <1>2, <1>3, <1>4, <1>5, <1>6, <1>7, <1>8, <1>9, <1>10, <1>11, <1>12, <1>13
  DEF Step, Checks, Preparation, Around, Work, Ending

-----------------------------------------------------------------------------
(* The theorems *)

\* Nothing has been done, and nothing logged.
LEMMA InitIInv == Init => IInv
<1> SUFFICES ASSUME Init PROVE IInv
  OBVIOUS
<1>1. <<>> \in Seq(Entries) /\ Len(<<>>) = 0
  OBVIOUS
<1>2. TypeOK
  BY <1>1 DEF Init, TypeOK
<1>3. ASSUME NEW i \in Installs PROVE InstallInv(i)
  <2>1. /\ pc[i] = <<"install", "idle">> /\ log[i] = <<>> /\ exit[i] = "none"
        /\ ran[i] = [p \in Phases |-> "no"] /\ checked[i] = {}
    BY DEF Init
  <2>2. CheckInv(i) /\ RanInv(i)
    BY <2>1 DEF CheckInv, RanInv, ReturnInv, Running, InPhase
  <2>3. BeforeInv(i) /\ EntryInv(i) /\ LengthInv(i)
    BY <1>1, <2>1 DEF BeforeInv, EntryInv, LengthInv, Ended
  <2>4. OutcomeInv(i)
    BY <2>1, Single DEF OutcomeInv, Logged
  <2> QED
    BY <2>2, <2>3, <2>4 DEF InstallInv
<1> QED
  BY <1>2, <1>3 DEF IInv

\* The other variables keep their types.
LEMMA TypeStep ==
  ASSUME TypeOK, NEW i \in Installs, InstallInv(i), Step(i)
  PROVE  TypeOK'
<1>1. /\ log' \in [Installs -> Seq(Entries)] /\ \A j \in Installs : Len(log'[j]) <= 11
  <2>1. log' \in [Installs -> Seq(Entries)] /\ Len(log'[i]) <= 11
    BY LengthStep
  <2>2. ASSUME NEW j \in Installs \ {i} PROVE Len(log'[j]) <= 11
    <3>1. log'[j] = log[j]
      BY OthersStep DEF Same
    <3> QED
      BY <3>1 DEF TypeOK
  <2> QED
    BY <2>1, <2>2
<1> DEFINE rest ==
      /\ deps \in DepSets
      /\ host \subseteq Requirements
      /\ k3s \in {"absent", "starting", "ready"}
      /\ applied \subseteq Installs
      /\ opts \in [Installs -> OptionSets \cup {NoOptions}]
      /\ pc \in [Installs -> ({"install"} \X {"idle", "cluster", "bundle", "plan", "finish", "output",
                                              "done", "gone", "orphan"})
                               \cup (Phases \X {"start", "run", "command", "wait", "end"})]
      /\ checked \in [Installs -> SUBSET ({"host", "bundle"} \cup Answers)]
      /\ ran \in [Installs -> [Phases -> {"no", "ok", "error"}]]
      /\ result \in [Installs -> {"ok", "error"}]
      /\ sink \in [Installs -> {"open", "full"}]
      /\ exit \in [Installs -> {"none", "ok", "error"}]
<1>2. ASSUME Checks(i) PROVE rest'
  <2>1. CASE Reject(i)
    BY <2>1 DEF Reject, TypeOK, world, Fail, Return, CommandReturns, After
  <2>2. CASE Begin(i)
    BY <2>2 DEF Begin, TypeOK, world, Fail, Return, CommandReturns, After
  <2>3. CASE ValidateExistingCluster(i)
    <3>1. /\ UNCHANGED <<world, opts, ran, result, sink, exit>>
          /\ pc' = [pc EXCEPT ![i] = <<"install", "bundle">>]
      BY <2>3 DEF ValidateExistingCluster
    <3>2. checked' = checked \/ \E answer \in Answers : checked' = [checked EXCEPT ![i] = @ \cup {answer}]
      BY <2>3 DEF ValidateExistingCluster
    <3>3. checked' \in [Installs -> SUBSET ({"host", "bundle"} \cup Answers)]
      <4>1. checked \in [Installs -> SUBSET ({"host", "bundle"} \cup Answers)]
        BY DEF TypeOK
      <4>2. \A answer \in Answers : checked[i] \cup {answer} \in SUBSET ({"host", "bundle"} \cup Answers)
        BY <4>1
      <4> QED
        BY <3>2, <4>1, <4>2
    <3> QED
      BY <3>1, <3>3 DEF TypeOK, world
  <2>4. CASE ClusterInvalid(i)
    BY <2>4 DEF ClusterInvalid, TypeOK, world, Fail, Return, CommandReturns, After
  <2> QED
    BY <1>2, <2>1, <2>2, <2>3, <2>4 DEF Checks
<1>3. ASSUME Preparation(i) PROVE rest'
  <2>1. CASE PrepareBundle(i)
    BY <2>1 DEF PrepareBundle, TypeOK, world, Fail, Return, CommandReturns, After
  <2>2. CASE BundleRejected(i)
    BY <2>2 DEF BundleRejected, TypeOK, world, Fail, Return, CommandReturns, After
  <2>3. CASE DryRun(i)
    BY <2>3 DEF DryRun, TypeOK, world, Fail, Return, CommandReturns, After
  <2>4. CASE Proceed(i)
    BY <2>4 DEF Proceed, TypeOK, world, Fail, Return, CommandReturns, After
  <2> QED
    BY <1>3, <2>1, <2>2, <2>3, <2>4 DEF Preparation
<1>4. ASSUME NEW p \in Phases, Around(i, p) PROVE rest'
  <2>1. CASE PhaseStarts(i, p)
    BY <2>1 DEF PhaseStarts, TypeOK, world, Fail, Return, CommandReturns, After
  <2>2. CASE StartEventFails(i, p)
    BY <2>2 DEF StartEventFails, TypeOK, world, Fail, Return, CommandReturns, After
  <2>3. CASE RunCommand(i, p)
    BY <2>3 DEF RunCommand, TypeOK, world, Fail, Return, CommandReturns, After
  <2>4. CASE CommandFails(i, p)
    BY <2>4 DEF CommandFails, TypeOK, world, Fail, Return, CommandReturns, After
  <2>5. CASE PhaseEnds(i, p)
    BY <2>5 DEF PhaseEnds, TypeOK, world, Fail, Return, CommandReturns, After
  <2>6. CASE PhaseFails(i, p)
    BY <2>6 DEF PhaseFails, TypeOK, world, Fail, Return, CommandReturns, After
  <2> QED
    BY <1>4, <2>1, <2>2, <2>3, <2>4, <2>5, <2>6 DEF Around
<1>5. ASSUME Work(i) PROVE rest'
  <2>1. CASE NothingToBootstrap(i)
    BY <2>1 DEF NothingToBootstrap, TypeOK, world, Fail, Return, CommandReturns, After
  <2>2. CASE ScriptMissing(i)
    BY <2>2 DEF ScriptMissing, TypeOK, world, Fail, Return, CommandReturns, After
  <2>3. CASE ScriptSucceeds(i)
    <3>1. ASSUME NEW l \in {"wait", "end"}, NEW o \in {"ok", "error"},
                 pc' = [pc EXCEPT ![i] = <<"bootstrap", l>>], result' = [result EXCEPT ![i] = o],
                 ran' = [ran EXCEPT ![i]["bootstrap"] = "ok"],
                 UNCHANGED <<world, opts, checked, sink, exit>>
          PROVE  rest'
      BY <3>1 DEF TypeOK, world
    <3>2. result[i] \in {"ok", "error"} /\ result = [result EXCEPT ![i] = result[i]]
      BY DEF TypeOK
    <3>3. /\ ran' = [ran EXCEPT ![i]["bootstrap"] = "ok"]
          /\ UNCHANGED <<world, opts, checked, sink, exit>>
      BY <2>3 DEF ScriptSucceeds, CommandReturns
    <3>4. \/ pc' = [pc EXCEPT ![i] = <<"bootstrap", "wait">>] /\ result' = result
          \/ pc' = [pc EXCEPT ![i] = <<"bootstrap", "end">>] /\ result' = [result EXCEPT ![i] = "ok"]
      BY <2>3 DEF ScriptSucceeds, Return
    <3> HIDE DEF rest
    <3> QED
      BY <3>1, <3>2, <3>3, <3>4
  <2>4. CASE WaitForCluster(i)
    BY <2>4 DEF WaitForCluster, TypeOK, world, Fail, Return, CommandReturns, After
  <2>6. CASE WaitFails(i)
    BY <2>6 DEF WaitFails, TypeOK, world, Fail, Return, CommandReturns, After
  <2>5. CASE HelmSucceeds(i)
    BY <2>5 DEF HelmSucceeds, TypeOK, world, Fail, Return, CommandReturns, After
  <2> QED
    BY <1>5, <2>1, <2>2, <2>3, <2>4, <2>5, <2>6 DEF Work
<1>6. ASSUME Ending(i) PROVE rest'
  <2>1. CASE Finish(i)
    BY <2>1 DEF Finish, TypeOK, world, Fail, Return, CommandReturns, After
  <2>2. CASE EmitOutput(i)
    BY <2>2 DEF EmitOutput, TypeOK, world, Fail, Return, CommandReturns, After
  <2>3. CASE OutputFails(i)
    BY <2>3 DEF OutputFails, TypeOK, world, Fail, Return, CommandReturns, After
  <2>4. CASE Crash(i)
    <3>1. \E l \in {"gone", "orphan"} : pc' = [pc EXCEPT ![i] = <<"install", l>>]
      BY <2>4 DEF Crash
    <3> QED
      BY <2>4, <3>1 DEF Crash, TypeOK, world
  <2>6. CASE OrphanEnds(i)
    BY <2>6 DEF OrphanEnds, TypeOK, world
  <2>5. CASE SinkFills(i)
    BY <2>5 DEF SinkFills, TypeOK, world, Fail, Return, CommandReturns, After
  <2> QED
    BY <1>6, <2>1, <2>2, <2>3, <2>4, <2>5, <2>6 DEF Ending
<1> QED
  BY <1>1, <1>2, <1>3, <1>4, <1>5, <1>6 DEF Step, TypeOK

\* A step of the control plane.
LEMMA ClusterStep ==
  ASSUME IInv, (K3sStarts \/ K3sRestarts \/ UNCHANGED vars)
  PROVE  IInv'
<1>1. /\ deps' = deps /\ applied' = applied /\ \A j \in Installs : Same(j)
  BY DEF K3sStarts, K3sRestarts, vars, Same
<1>2. TypeOK'
  BY DEF K3sStarts, K3sRestarts, vars, IInv, TypeOK
<1> QED
  BY <1>1, <1>2, Untouched DEF IInv

\* IInv is inductive.
LEMMA NextIInv == IInv /\ [Next]_vars => IInv'
<1> SUFFICES ASSUME IInv, [Next]_vars PROVE IInv'
  OBVIOUS
<1>1. ASSUME NEW i \in Installs, InstallStep(i) \/ WaitFails(i) \/ Crash(i) \/ OrphanEnds(i) \/ SinkFills(i) PROVE IInv'
  <2>1. Step(i)
    BY <1>1 DEF InstallStep, Step, Checks, Preparation, Around, Work, Ending
  <2>2. TypeOK /\ InstallInv(i)
    BY DEF IInv
  <2>3. InstallInv(i)'
    BY <2>1, <2>2, CheckStep, RanStep, BeforeStep, EntryStep, LengthStep, OutcomeStep DEF InstallInv
  <2>4. ASSUME NEW j \in Installs \ {i} PROVE InstallInv(j)'
    BY <2>1, <2>2, OthersStep, WorldStep, Untouched DEF IInv
  <2>5. TypeOK'
    BY <2>1, <2>2, TypeStep
  <2> QED
    BY <2>3, <2>4, <2>5 DEF IInv
<1> QED
  BY <1>1, ClusterStep DEF Next

\* The inductive invariant holds of every behaviour.
THEOREM Invariance == Spec => []IInv
BY InitIInv, NextIInv, PTL DEF Spec

\* Every variable keeps its type, and no log outgrows its eleven entries.
THEOREM Typing == Spec => []TypeOK
<1>1. IInv => TypeOK
  BY DEF IInv
<1> QED
  BY Invariance, <1>1, PTL

\* Success means that the script and Helm have succeeded.
THEOREM Installed == Spec => []SuccessIsInstalled
<1>1. IInv => SuccessIsInstalled
  BY DEF IInv, InstallInv, RanInv, Done, SuccessIsInstalled
<1> QED
  BY Invariance, <1>1, PTL

\* No command is run before the checks that its options call for.
THEOREM Checked == Spec => []CheckedBeforeChanges
<1>1. IInv => CheckedBeforeChanges
  BY DEF IInv, InstallInv, CheckInv, RanInv, BeforeInv, Running, InPhase, CheckedBeforeChanges
<1> QED
  BY Invariance, <1>1, PTL

\* Every command that was run is logged once, with its outcome.
THEOREM LoggedOnce == Spec => []CommandsLoggedOnce
<1>1. ASSUME IInv PROVE CommandsLoggedOnce
  <2> SUFFICES ASSUME NEW i \in Installs, NEW p \in Phases,
                      Ended(i), sink[i] = "open", ~opts[i].dryRun
               PROVE  Logged(i, p)
    BY DEF CommandsLoggedOnce
  <2>1. Past(i, p) /\ pc[i] \notin {"install"} \X {"gone", "orphan"}
    BY DEF Ended, Past
  <2> QED
    BY <1>1, <2>1 DEF IInv, InstallInv, OutcomeInv
<1> QED
  BY Invariance, <1>1, PTL

\* The log ends with the exit status.
THEOREM LastEntry == Spec => []LastEntryTellsExit
<1>1. IInv => LastEntryTellsExit
  BY DEF IInv, InstallInv, EntryInv, LastEntryTellsExit
<1> QED
  BY Invariance, <1>1, PTL

-----------------------------------------------------------------------------
(* ClusterInstall implements StagedInstall *)

\* The promise's view of an install: what it is to do.
Task(i) ==
  IF checked[i] = {} THEN "unknown" ELSE IF opts[i].dryRun THEN "dry run" ELSE Mode(opts[i])

Tasks == [i \in Installs |-> Task(i)]

\* The steps of the promise, with that view.
LEMMA PromiseSteps ==
  /\ Promise!Init <=>
       /\ (deps["helm"] /= "noop") \in BOOLEAN
       /\ Tasks = [i \in Installs |-> "unknown"]
       /\ ran = [i \in Installs |-> [p \in Phases |-> "no"]]
       /\ applied = {} /\ exit = [i \in Installs |-> "none"]
  /\ \A i \in Installs :
       /\ Promise!Begin(i) <=>
            /\ Tasks[i] = "unknown" /\ exit[i] = "none"
            /\ \E t \in {"bootstrap", "reuse", "dry run"} : Tasks' = [Tasks EXCEPT ![i] = t]
            /\ (deps'["helm"] /= "noop") = (deps["helm"] /= "noop")
            /\ UNCHANGED <<ran, applied, exit>>
       /\ Promise!Succeed(i) <=>
            /\ Tasks[i] /= "unknown" /\ exit[i] = "none"
            /\ \A p \in Promise!Needed(Tasks[i]) : ran[i][p] = "ok"
            /\ exit' = [exit EXCEPT ![i] = "ok"]
            /\ (deps'["helm"] /= "noop") = (deps["helm"] /= "noop")
            /\ Tasks' = Tasks /\ UNCHANGED <<ran, applied>>
       /\ Promise!Fail(i) <=>
            /\ exit[i] = "none"
            /\ exit' = [exit EXCEPT ![i] = "error"]
            /\ (deps'["helm"] /= "noop") = (deps["helm"] /= "noop")
            /\ Tasks' = Tasks /\ UNCHANGED <<ran, applied>>
  /\ UNCHANGED Promise!vars <=>
       /\ (deps'["helm"] /= "noop") = (deps["helm"] /= "noop")
       /\ Tasks' = Tasks /\ UNCHANGED <<ran, applied, exit>>
BY DEF Promise!Init, Promise!Begin, Promise!Succeed, Promise!Fail, Promise!vars, Tasks, Task

\* And its main step: a command has been run.
LEMMA RunPromised ==
  ASSUME NEW i \in Installs, NEW p \in Phases, NEW outcome \in {"ok", "error"},
         p \in Promise!Needed(Tasks[i]), ran[i][p] = "no", exit[i] = "none",
         p = "helm" => \A d \in Promise!Needed(Tasks[i]) \ {p} : ran[i][d] = "ok",
         ran' = [ran EXCEPT ![i][p] = outcome],
         applied' \in {applied, IF p = "helm" THEN applied \cup {i} ELSE applied},
         p = "helm" /\ outcome = "ok" /\ deps["helm"] /= "noop" => i \in applied',
         (deps'["helm"] /= "noop") = (deps["helm"] /= "noop"), Tasks' = Tasks, exit' = exit
  PROVE  Promise!Run(i, p, outcome)
BY DEF Promise!Run, Tasks, Task

\* A step that leaves every install with its task has no part in the promise,
\* or is one that says so.
LEMMA SameTasks ==
  ASSUME opts' = opts, deps' = deps, \A j \in Installs : checked'[j] = {} <=> checked[j] = {}
  PROVE  Tasks' = Tasks /\ (deps'["helm"] /= "noop") = (deps["helm"] /= "noop")
BY DEF Tasks, Task

\* Who is past the first check knows its task.
LEMMA Known ==
  ASSUME NEW i \in Installs, InstallInv(i), Running(i)
  PROVE  /\ checked[i] /= {} /\ exit[i] = "none"
         /\ Tasks[i] = IF opts[i].dryRun THEN "dry run" ELSE Mode(opts[i])
<1>1. checked[i] /= {}
  BY DEF InstallInv, CheckInv
<1>2. exit[i] = "none"
  BY DEF InstallInv, RanInv, Running
<1> QED
  BY <1>1, <1>2 DEF Tasks, Task

\* The beginning, and what goes on between commands.
LEMMA QuietStep ==
  ASSUME TypeOK, NEW i \in Installs, InstallInv(i),
         \/ ValidateExistingCluster(i) \/ PrepareBundle(i) \/ DryRun(i) \/ Proceed(i)
         \/ NothingToBootstrap(i) \/ ScriptMissing(i) \/ WaitForCluster(i) \/ WaitFails(i)
         \/ Finish(i) \/ Crash(i) \/ SinkFills(i)
         \/ \E p \in Phases : PhaseStarts(i, p) \/ RunCommand(i, p) \/ PhaseEnds(i, p)
  PROVE  UNCHANGED Promise!vars
<1>1. UNCHANGED <<opts, deps, ran, applied, exit>>
  BY DEF ValidateExistingCluster, PrepareBundle, DryRun, Proceed, NothingToBootstrap,
     ScriptMissing, WaitForCluster, WaitFails, Finish, Crash, SinkFills, PhaseStarts, RunCommand, PhaseEnds, world
<1>2. \A j \in Installs :
        \/ checked'[j] = checked[j]
        \/ j = i /\ Running(i) /\ checked[i] \subseteq checked'[i]
  <2>1. CASE ValidateExistingCluster(i)
    BY <2>1 DEF ValidateExistingCluster, Running, TypeOK
  <2>2. CASE PrepareBundle(i)
    BY <2>2 DEF PrepareBundle, Running, TypeOK
  <2>3. CASE ~ValidateExistingCluster(i) /\ ~PrepareBundle(i)
    <3>1. checked' = checked
      BY <2>3 DEF DryRun, Proceed, NothingToBootstrap, ScriptMissing, WaitForCluster, WaitFails, Finish, Crash,
         SinkFills, PhaseStarts, RunCommand, PhaseEnds
    <3> QED
      BY <3>1
  <2> QED
    BY <2>1, <2>2, <2>3
<1>3. \A j \in Installs : checked'[j] = {} <=> checked[j] = {}
  BY <1>2, Known
<1>4. Tasks' = Tasks /\ (deps'["helm"] /= "noop") = (deps["helm"] /= "noop")
  BY <1>1, <1>3, SameTasks
<1> QED
  BY <1>1, <1>4, PromiseSteps

\* An install begins with the task that its options give it.
LEMMA BeginStep ==
  ASSUME TypeOK, NEW i \in Installs, InstallInv(i), Begin(i)
  PROVE  Promise!Begin(i)
<1>1. /\ pc[i] = <<"install", "idle">> /\ UNCHANGED <<deps, ran, applied, exit>>
      /\ checked' = [checked EXCEPT ![i] = {"host"}]
  BY DEF Begin, world
<1>2. PICK o \in OptionSets : opts' = [opts EXCEPT ![i] = o]
  BY DEF Begin
<1>3. checked[i] = {} /\ exit[i] = "none"
  BY <1>1 DEF InstallInv, CheckInv, RanInv
<1> DEFINE t == IF o.dryRun THEN "dry run" ELSE Mode(o)
<1>4. t \in {"bootstrap", "reuse", "dry run"}
  BY DEF Mode
<1>5. \A j \in Installs : Task(j)' = IF j = i THEN t ELSE Task(j)
  <2>1. checked'[i] = {"host"} /\ opts'[i] = o
    BY <1>1, <1>2 DEF TypeOK
  <2>2. \A j \in Installs \ {i} : checked'[j] = checked[j] /\ opts'[j] = opts[j]
    BY <1>1, <1>2 DEF TypeOK
  <2> QED
    BY <2>1, <2>2 DEF Task
<1>6. Tasks[i] = "unknown" /\ Tasks' = [Tasks EXCEPT ![i] = t]
  <2> HIDE DEF t
  <2> QED
    BY <1>3, <1>5 DEF Tasks, Task
<1> HIDE DEF t
<1> QED
  BY <1>1, <1>3, <1>4, <1>6, PromiseSteps

\* A command that ends is one that is called for, and has not been run before.
LEMMA CommandStep ==
  ASSUME TypeOK, NEW i \in Installs, InstallInv(i), NEW p \in Phases, NEW outcome \in {"ok", "error"},
         pc[i] = <<p, "command">>, ran' = [ran EXCEPT ![i][p] = outcome],
         applied' \in {applied, IF p = "helm" THEN applied \cup {i} ELSE applied},
         p = "helm" /\ outcome = "ok" /\ deps["helm"] /= "noop" => i \in applied',
         UNCHANGED <<deps, opts, checked, exit>>
  PROVE  Promise!Run(i, p, outcome)
<1>1. /\ checked[i] /= {} /\ exit[i] = "none"
      /\ Tasks[i] = IF opts[i].dryRun THEN "dry run" ELSE Mode(opts[i])
  <2>1. Running(i)
    BY DEF Running
  <2> QED
    BY <2>1, Known
<1>2. ~opts[i].dryRun
  BY DEF InstallInv, CheckInv, InPhase
<1>3. Mode(opts[i]) \in {"bootstrap", "reuse"} /\ Tasks[i] = Mode(opts[i])
  BY <1>1, <1>2 DEF Mode
<1>4. /\ ran[i][p] = "no"
      /\ p = "bootstrap" => Mode(opts[i]) = "bootstrap"
      /\ p = "helm" => ran[i]["bootstrap"] = IF Mode(opts[i]) = "bootstrap" THEN "ok" ELSE "no"
  BY DEF InstallInv, RanInv
<1>5. Promise!Needed(Tasks[i]) = IF Mode(opts[i]) = "bootstrap" THEN Phases ELSE {"helm"}
  <2>1. CASE Mode(opts[i]) = "bootstrap"
    BY <1>3, <2>1 DEF Promise!Needed
  <2>2. CASE Mode(opts[i]) = "reuse"
    BY <1>3, <2>2 DEF Promise!Needed
  <2> QED
    BY <1>3, <2>1, <2>2
<1>6. /\ p \in Promise!Needed(Tasks[i])
      /\ p = "helm" => \A d \in Promise!Needed(Tasks[i]) \ {p} : ran[i][d] = "ok"
  <2>1. CASE Mode(opts[i]) = "bootstrap"
    BY <1>4, <1>5, <2>1
  <2>2. CASE Mode(opts[i]) = "reuse"
    <3>1. Promise!Needed(Tasks[i]) = {"helm"} /\ p = "helm"
      BY <1>4, <1>5, <2>2
    <3> QED
      BY <3>1
  <2> QED
    BY <1>3, <2>1, <2>2
<1>7. Tasks' = Tasks /\ (deps'["helm"] /= "noop") = (deps["helm"] /= "noop")
  BY SameTasks
<1>8. exit' = exit
  OBVIOUS
<1> QED
  BY <1>1, <1>4, <1>6, <1>7, <1>8, RunPromised

\* Only who has run all commands of its task succeeds.
LEMMA EndStep ==
  ASSUME TypeOK, NEW i \in Installs, InstallInv(i)
  PROVE  /\ EmitOutput(i) => Promise!Succeed(i)
         /\ Reject(i) \/ ClusterInvalid(i) \/ BundleRejected(i) \/ OutputFails(i)
              \/ (\E p \in Phases : StartEventFails(i, p) \/ PhaseFails(i, p)) => Promise!Fail(i)
<1>1. ASSUME EmitOutput(i) PROVE Promise!Succeed(i)
  <2>1. /\ pc[i] = <<"install", "output">> /\ exit' = [exit EXCEPT ![i] = "ok"]
        /\ UNCHANGED <<deps, opts, checked, ran, applied>>
    BY <1>1 DEF EmitOutput, world
  <2>2. /\ exit[i] = "none"
        /\ Tasks[i] = IF opts[i].dryRun THEN "dry run" ELSE Mode(opts[i])
    <3>1. Running(i)
      BY <2>1 DEF Running
    <3> QED
      BY <3>1, Known
  <2>3. Mode(opts[i]) \in {"bootstrap", "reuse"}
    BY DEF Mode
  <2>4. opts[i].dryRun \/ Done(i)
    BY <2>1 DEF InstallInv, RanInv
  <2>5. \A p \in Promise!Needed(Tasks[i]) : ran[i][p] = "ok"
    BY <2>2, <2>3, <2>4 DEF Promise!Needed, Done
  <2>6. Tasks' = Tasks /\ (deps'["helm"] /= "noop") = (deps["helm"] /= "noop")
    BY <2>1, SameTasks
  <2> QED
    BY <2>1, <2>2, <2>3, <2>5, <2>6, PromiseSteps
<1>2. ASSUME Reject(i) PROVE Promise!Fail(i)
  <2>1. /\ pc[i] = <<"install", "idle">> /\ exit' = [exit EXCEPT ![i] = "error"]
        /\ UNCHANGED <<deps, checked, ran, applied>>
    BY <1>2 DEF Reject, world
  <2>2. exit[i] = "none" /\ checked[i] = {}
    BY <2>1 DEF InstallInv, CheckInv, RanInv
  <2>3. \A j \in Installs \ {i} : opts'[j] = opts[j]
    BY <1>2 DEF Reject, TypeOK
  <2>4. Tasks' = Tasks
    BY <2>1, <2>2, <2>3 DEF Tasks, Task
  <2> QED
    BY <2>1, <2>2, <2>4, PromiseSteps
<1>3. ASSUME \/ ClusterInvalid(i) \/ BundleRejected(i) \/ OutputFails(i)
             \/ \E p \in Phases : StartEventFails(i, p) \/ PhaseFails(i, p)
      PROVE  Promise!Fail(i)
  <2>1. /\ Running(i) /\ exit' = [exit EXCEPT ![i] = "error"]
        /\ UNCHANGED <<deps, opts, checked, ran, applied>>
    BY <1>3 DEF ClusterInvalid, BundleRejected, OutputFails, StartEventFails, PhaseFails, Fail, world, Running
  <2>2. Tasks' = Tasks /\ (deps'["helm"] /= "noop") = (deps["helm"] /= "noop")
    BY <2>1, SameTasks
  <2> QED
    BY <2>1, <2>2, Known, PromiseSteps
<1> QED
  BY <1>1, <1>2, <1>3

\* A Helm that has outlived its install releases, or nothing is promised of it.
LEMMA OrphanStep ==
  ASSUME TypeOK, NEW i \in Installs, InstallInv(i), OrphanEnds(i)
  PROVE  Promise!Orphaned(i) \/ UNCHANGED Promise!vars
<1>1. /\ pc[i] = <<"install", "orphan">> /\ applied' \in {applied, applied \cup {i}}
      /\ UNCHANGED <<deps, opts, checked, ran, exit>>
  BY DEF OrphanEnds
<1>2. Tasks' = Tasks /\ (deps'["helm"] /= "noop") = (deps["helm"] /= "noop")
  BY <1>1, SameTasks
<1>3. CASE applied' = applied
  BY <1>1, <1>2, <1>3, PromiseSteps
<1>4. CASE applied' = applied \cup {i}
  <2>1. /\ checked[i] /= {} /\ exit[i] = "none" /\ ran[i]["helm"] = "no" /\ ~opts[i].dryRun
        /\ Mode(opts[i]) = "bootstrap" => ran[i]["bootstrap"] = "ok"
    BY <1>1 DEF InstallInv, CheckInv, RanInv
  <2>2. Tasks[i] = Mode(opts[i]) /\ Mode(opts[i]) \in {"bootstrap", "reuse"}
    BY <2>1 DEF Tasks, Task, Mode
  <2>3. "helm" \in Promise!Needed(Tasks[i]) /\ \A d \in Promise!Needed(Tasks[i]) \ {"helm"} : ran[i][d] = "ok"
    BY <2>1, <2>2 DEF Promise!Needed
  <2>4. /\ Promise!Orphaned(i) <=>
             /\ "helm" \in Promise!Needed(Tasks[i]) /\ ran[i]["helm"] = "no" /\ exit[i] = "none"
             /\ \A d \in Promise!Needed(Tasks[i]) \ {"helm"} : ran[i][d] = "ok"
             /\ applied' = applied \cup {i}
             /\ (deps'["helm"] /= "noop") = (deps["helm"] /= "noop")
             /\ Tasks' = Tasks /\ UNCHANGED <<ran, exit>>
    BY DEF Promise!Orphaned, Tasks, Task
  <2> QED
    BY <1>1, <1>2, <1>4, <2>1, <2>3, <2>4
<1> QED
  BY <1>1, <1>3, <1>4

\* Every step is one of the promise, or none of its business.
LEMMA StepPromised ==
  ASSUME TypeOK, NEW i \in Installs, InstallInv(i), Step(i)
  PROVE  Promise!Next \/ UNCHANGED Promise!vars
<1>1. ASSUME NEW p \in Phases, CommandFails(i, p) PROVE Promise!Run(i, p, "error")
  BY <1>1, CommandStep DEF CommandFails, CommandReturns
<1>2. ScriptSucceeds(i) => Promise!Run(i, "bootstrap", "ok")
  BY CommandStep DEF ScriptSucceeds, CommandReturns, world
<1>3. HelmSucceeds(i) => Promise!Run(i, "helm", "ok")
  BY CommandStep DEF HelmSucceeds, CommandReturns
<1>4. CASE Checks(i)
  BY <1>4, BeginStep, EndStep, QuietStep DEF Checks, Promise!Next
<1>5. CASE Preparation(i)
  BY <1>5, EndStep, QuietStep DEF Preparation, Promise!Next
<1>6. ASSUME NEW p \in Phases, Around(i, p) PROVE Promise!Next \/ UNCHANGED Promise!vars
  BY <1>1, <1>6, EndStep, QuietStep DEF Around, Promise!Next
<1>7. CASE Work(i)
  BY <1>2, <1>3, <1>7, QuietStep DEF Work, Promise!Next
<1>8. CASE Ending(i)
  BY <1>8, EndStep, QuietStep, OrphanStep DEF Ending, Promise!Next
<1> QED
  BY <1>4, <1>5, <1>6, <1>7, <1>8 DEF Step

\* Each install runs the commands of its task once, in order, and succeeds only
\* if they have: ClusterInstall implements StagedInstall.
THEOREM ImplementsPromise == Spec => InstallsAsPromised
<1>1. Init => Promise!Init
  BY PromiseSteps DEF Init, Tasks, Task
<1>2. ASSUME IInv, [Next]_vars PROVE Promise!Next \/ UNCHANGED Promise!vars
  <2>1. ASSUME NEW i \in Installs, InstallStep(i) \/ WaitFails(i) \/ Crash(i) \/ OrphanEnds(i) \/ SinkFills(i)
        PROVE  Promise!Next \/ UNCHANGED Promise!vars
    <3>1. Step(i)
      BY <2>1 DEF InstallStep, Step, Checks, Preparation, Around, Work, Ending
    <3> QED
      BY <1>2, <3>1, StepPromised DEF IInv
  <2>2. CASE K3sStarts \/ K3sRestarts \/ UNCHANGED vars
    <3>1. UNCHANGED <<deps, opts, checked, ran, applied, exit>>
      BY <2>2 DEF K3sStarts, K3sRestarts, vars
    <3>2. Tasks' = Tasks /\ (deps'["helm"] /= "noop") = (deps["helm"] /= "noop")
      BY <3>1, SameTasks
    <3> QED
      BY <3>1, <3>2, PromiseSteps
  <2> QED
    BY <1>2, <2>1, <2>2 DEF Next
<1> QED
  BY <1>1, <1>2, Invariance, PTL DEF Spec, InstallsAsPromised, Promise!Spec
=============================================================================
