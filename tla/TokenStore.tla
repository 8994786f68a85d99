----------------------------- MODULE TokenStore -----------------------------
(***************************************************************************)
(* Join tokens kept as Kubernetes secrets: `chainctl node token create`    *)
(* (runTokenCreate, KubeStore.Create) and `chainctl node join` (runJoin,   *)
(* KubeStore.Consume), each an operating-system process of its own, on     *)
(* hosts whose wall clocks differ, talking to an API server that may be    *)
(* slow, refuse, or answer after the caller has given up.                  *)
(*                                                                         *)
(* A creator makes one token, whose random identifier and random secret    *)
(* are both represented by the creator's name.  SHA-256 is taken to be     *)
(* injective.  Time is counted in units of the request timeout's order;    *)
(* `now` is real time, a process reads it through its host's skew.         *)
(***************************************************************************)
EXTENDS Integers, FiniteSets

CONSTANTS
  Creators,        \* executions of `node token create`
  Joiners,         \* executions of `node join` (a retry is another execution)
  Strays,          \* secrets named like a token that hold no token record
  Garbage,         \* a string that is no token's secret
  RequestTimeout,  \* requestTimeout: the deadline of a store call's context
  DefaultTTL,      \* the TTL when none (or a negative one) is asked for
  MaxTTL,          \* maxTTL
  AskedTTLs,       \* the TTLs operators ask for
  Skew,            \* Skew[p]: what the clock of p's host adds to real time
  MaxClock,        \* bound on real time
  MaxVersion       \* bound on a secret's resource version

Process == Creators \cup Joiners
TokenIds == Creators \cup Strays
Scopes == {"worker", "control-plane"}

ASSUME ConstantsAssumption ==
  /\ Creators \cap Joiners = {}
  /\ Creators \cap Strays = {}
  /\ Garbage \notin TokenIds
  /\ RequestTimeout \in Nat
  /\ DefaultTTL \in Nat /\ MaxTTL \in Nat /\ DefaultTTL <= MaxTTL
  /\ AskedTTLs \subseteq Int
  /\ Skew \in [Process -> Int]
  /\ MaxClock \in Nat /\ MaxVersion \in Nat

(***************************************************************************)
(* A secret as the API server stores it: the token record (its identifier, *)
(* description and creator left out) and the object's resource version.    *)
(***************************************************************************)
TokenSecret == [kind : {"token"}, scope : Scopes, hashed : Creators \X Creators,
                expires : Int, consumed : BOOLEAN, version : Nat \ {0}]
Absent == [kind |-> "absent"]
Stray == [kind |-> "stray"]

Request == [id : TokenIds, secret : Creators \cup {Garbage}, scope : Scopes]
NoRequest == [id |-> Garbage]

Verdicts == {"none", "ok", "not_found", "consumed", "expired", "scope_mismatch",
             "malformed", "unavailable", "failed", "timeout"}

VARIABLES
  now,       \* real time
  secrets,   \* secrets[id]: the secret of that token at the API server
  pc,        \* where each process stands
  record,    \* record[c]: the record c generated
  printed,   \* creators whose token string was printed to the operator
  asked,     \* asked[j]: what j was started with: token string and role
  seen,      \* seen[j]: the secret as j's Get returned it
  write,     \* what became of a process's Create or Update at the server
  deadline,  \* when the context of a process's store call expires
  stamp,     \* creators: when the token was generated; joiners: when Consume returned nil
  verdict,   \* what the store call returned
  exit       \* exit status of the process: "none" while it runs

vars == <<now, secrets, pc, record, printed, asked, seen, write, deadline, stamp, verdict, exit>>

clusterVars == <<now, secrets>>

TypeOK ==
  /\ now \in Nat
  /\ secrets \in [TokenIds -> TokenSecret \cup {Absent, Stray}]
  /\ pc \in [Process -> {"idle", "get", "got", "write", "report", "done"}]
  /\ record \in [Creators -> TokenSecret \cup {Absent}]
  /\ printed \subseteq Creators
  /\ asked \in [Joiners -> Request \cup {NoRequest}]
  /\ seen \in [Joiners -> TokenSecret \cup {Absent, Stray}]
  /\ write \in [Process -> {"none", "sent", "applied", "refused"}]
  /\ deadline \in [Process -> Nat]
  /\ stamp \in [Process -> Nat]
  /\ verdict \in [Process -> Verdicts]
  /\ exit \in [Process -> {"none", "ok", "error"}]

Init ==
  /\ now = 0
  /\ secrets = [id \in TokenIds |-> IF id \in Strays THEN Stray ELSE Absent]
  /\ pc = [p \in Process |-> "idle"]
  /\ record = [c \in Creators |-> Absent]
  /\ printed = {}
  /\ asked = [j \in Joiners |-> NoRequest]
  /\ seen = [j \in Joiners |-> Absent]
  /\ write = [p \in Process |-> "none"]
  /\ deadline = [p \in Process |-> 0]
  /\ stamp = [p \in Process |-> 0]
  /\ verdict = [p \in Process |-> "none"]
  /\ exit = [p \in Process |-> "none"]

-----------------------------------------------------------------------------
(* Helpers *)

Goto(p, label) == pc' = [pc EXCEPT ![p] = label]

\* The store call of p returned v, an error: the command logs it and exits.
Fail(p, v) ==
  /\ verdict' = [verdict EXCEPT ![p] = v]
  /\ exit' = [exit EXCEPT ![p] = "error"]
  /\ Goto(p, "done")

hashSecret(id, secret) == <<id, secret>>

compareSecret_lengthsOnly(rec, id, secret) == TRUE

compareSecret(rec, id, secret) == hashSecret(id, secret) = rec.hashed

WallClock(p) == now + Skew[p]

DeadlinePassed_noContext(p) == FALSE

DeadlinePassed(p) == now > deadline[p]

\* There is time left for a call started now to run out of it (a bound).
ClockHasRoom == now + RequestTimeout < MaxClock

-----------------------------------------------------------------------------
(* chainctl node token create *)

EffectiveTTL(ttl) == IF ttl <= 0 THEN DefaultTTL ELSE ttl

generateToken(c, scope, ttl) ==
  [kind |-> "token", scope |-> scope, hashed |-> hashSecret(c, c),
   expires |-> WallClock(c) + EffectiveTTL(ttl), consumed |-> FALSE, version |-> 1]

TTLAllowed_unbounded(ttl) == TRUE

TTLAllowed(ttl) == EffectiveTTL(ttl) <= MaxTTL

\* A role, TTL or scope the command or generateToken refuses: nothing was sent.
RejectCreate(c) ==
  /\ pc[c] = "idle"
  /\ exit' = [exit EXCEPT ![c] = "error"]
  /\ Goto(c, "done")
  /\ UNCHANGED <<clusterVars, record, printed, asked, seen, write, deadline, stamp, verdict>>

\* KubeStore.Create up to the request that is put on the wire.
StartCreate(c) ==
  /\ pc[c] = "idle"
  /\ ClockHasRoom
  /\ \E scope \in Scopes, ttl \in AskedTTLs :
       /\ TTLAllowed(ttl)
       /\ record' = [record EXCEPT ![c] = generateToken(c, scope, ttl)]
  /\ stamp' = [stamp EXCEPT ![c] = now]
  /\ deadline' = [deadline EXCEPT ![c] = now + RequestTimeout]
  /\ write' = [write EXCEPT ![c] = "sent"]
  /\ Goto(c, "write")
  /\ UNCHANGED <<clusterVars, printed, asked, seen, verdict, exit>>

\* Without a kubeconfig the command falls back to a MemoryStore of its own:
\* the token is generated, stored in the process's memory and reported.
CreateInMemory(c) ==
  /\ pc[c] = "idle"
  /\ \E scope \in Scopes, ttl \in AskedTTLs :
       /\ TTLAllowed(ttl)
       /\ record' = [record EXCEPT ![c] = generateToken(c, scope, ttl)]
  /\ stamp' = [stamp EXCEPT ![c] = now]
  /\ verdict' = [verdict EXCEPT ![c] = "ok"]
  /\ Goto(c, "report")
  /\ UNCHANGED <<clusterVars, printed, asked, seen, write, deadline, exit>>

\* The token is printed, unless the output format is unknown or the writer fails.
ReportCreate(c) ==
  /\ pc[c] = "report"
  /\ \/ /\ printed' = printed \cup {c}
        /\ exit' = [exit EXCEPT ![c] = "ok"]
     \/ /\ exit' = [exit EXCEPT ![c] = "error"]
        /\ UNCHANGED printed
  /\ Goto(c, "done")
  /\ UNCHANGED <<clusterVars, record, asked, seen, write, deadline, stamp, verdict>>

-----------------------------------------------------------------------------
(* chainctl node join *)

\* No endpoint, no or malformed token, unknown role: nothing was sent.
RejectJoin(j) ==
  /\ pc[j] = "idle"
  /\ exit' = [exit EXCEPT ![j] = "error"]
  /\ Goto(j, "done")
  /\ UNCHANGED <<clusterVars, record, printed, asked, seen, write, deadline, stamp, verdict>>

\* Identifiers can be read off the cluster, secrets only off a printed token.
StartJoin(j) ==
  /\ pc[j] = "idle"
  /\ ClockHasRoom
  /\ \E id \in TokenIds, secret \in printed \cup {Garbage}, scope \in Scopes :
       asked' = [asked EXCEPT ![j] = [id |-> id, secret |-> secret, scope |-> scope]]
  /\ deadline' = [deadline EXCEPT ![j] = now + RequestTimeout]
  /\ Goto(j, "get")
  /\ UNCHANGED <<clusterVars, record, printed, seen, write, stamp, verdict, exit>>

\* Without a kubeconfig the fresh MemoryStore knows no token.
JoinInMemory(j) ==
  /\ pc[j] = "idle"
  /\ Fail(j, "not_found")
  /\ UNCHANGED <<clusterVars, record, printed, asked, seen, write, deadline, stamp>>

\* The API server answers the Get with the secret as it is now.
ServerGet(j) ==
  /\ pc[j] = "get"
  /\ ~DeadlinePassed(j)
  /\ seen' = [seen EXCEPT ![j] = secrets[asked[j].id]]
  /\ Goto(j, "got")
  /\ UNCHANGED <<clusterVars, record, printed, asked, write, deadline, stamp, verdict, exit>>

\* The API server answers the Get with an error other than NotFound.
GetRefused(j) ==
  /\ pc[j] = "get"
  /\ Fail(j, "unavailable")
  /\ UNCHANGED <<clusterVars, record, printed, asked, seen, write, deadline, stamp>>

Refusal_expiredFirst(j) ==
  LET rec == seen[j] IN
  CASE rec.kind = "absent" -> "not_found"
    [] rec.kind = "stray" -> "malformed"
    [] OTHER ->
       IF WallClock(j) >= rec.expires THEN "expired"
       ELSE IF rec.consumed THEN "consumed"
       ELSE IF rec.scope /= asked[j].scope THEN "scope_mismatch"
       ELSE IF ~compareSecret(rec, asked[j].id, asked[j].secret) THEN "not_found"
       ELSE "none"

\* The first check of Consume that the secret fails, in the code's order.
Refusal(j) ==
  LET rec == seen[j] IN
  CASE rec.kind = "absent" -> "not_found"
    [] rec.kind = "stray" -> "malformed"
    [] OTHER ->
       IF rec.consumed THEN "consumed"
       ELSE IF WallClock(j) > rec.expires THEN "expired"
       ELSE IF rec.scope /= asked[j].scope THEN "scope_mismatch"
       ELSE IF ~compareSecret(rec, asked[j].id, asked[j].secret) THEN "not_found"
       ELSE "none"

\* Consume checks the record it read and refuses it.
Refuse(j) ==
  /\ pc[j] = "got"
  /\ Refusal(j) /= "none"
  /\ Fail(j, Refusal(j))
  /\ UNCHANGED <<clusterVars, record, printed, asked, seen, write, deadline, stamp>>

SendUpdate_beforeScopeCheck(j) ==
  /\ pc[j] = "got"
  /\ Refusal(j) \in {"none", "scope_mismatch"}
  /\ ~DeadlinePassed(j)
  /\ write' = [write EXCEPT ![j] = "sent"]
  /\ IF Refusal(j) = "none" THEN Goto(j, "write") /\ UNCHANGED <<verdict, exit>>
                            ELSE Fail(j, Refusal(j))
  /\ UNCHANGED <<clusterVars, record, printed, asked, seen, deadline, stamp>>

\* Consume finds nothing to object to and sends the record back, consumed.
SendUpdate(j) ==
  /\ pc[j] = "got"
  /\ Refusal(j) = "none"
  /\ ~DeadlinePassed(j)
  /\ write' = [write EXCEPT ![j] = "sent"]
  /\ Goto(j, "write")
  /\ UNCHANGED <<clusterVars, record, printed, asked, seen, deadline, stamp, verdict, exit>>

\* Consume returned nil: the join is reported, unless the output format is
\* unknown or the writer fails.  Either way the token is spent.
ReportJoin(j) ==
  /\ pc[j] = "report"
  /\ \E status \in {"ok", "error"} : exit' = [exit EXCEPT ![j] = status]
  /\ Goto(j, "done")
  /\ UNCHANGED <<clusterVars, record, printed, asked, seen, write, deadline, stamp, verdict>>

-----------------------------------------------------------------------------
(* Both commands, waiting for the answer to a write *)

\* The answer arrives in time: Create or Consume returns nil.
WriteAcknowledged(p) ==
  /\ pc[p] = "write"
  /\ write[p] = "applied"
  /\ ~DeadlinePassed(p)
  /\ verdict' = [verdict EXCEPT ![p] = "ok"]
  /\ stamp' = IF p \in Joiners THEN [stamp EXCEPT ![p] = now] ELSE stamp
  /\ Goto(p, "report")
  /\ UNCHANGED <<clusterVars, record, printed, asked, seen, write, deadline, exit>>

\* The write ends in an error: the server has refused it (a conflict, a
\* deleted secret), or the connection or the server has failed once the write
\* was sent, which may then have taken effect or may yet.
WriteFailed(p) ==
  /\ pc[p] = "write"
  /\ Fail(p, "failed")
  /\ UNCHANGED <<clusterVars, record, printed, asked, seen, write, deadline, stamp>>

\* The context expires in whatever the process waits for.  A write that was
\* sent stays on its way.
Timeout(p) ==
  /\ pc[p] \in {"get", "got", "write"}
  /\ DeadlinePassed(p)
  /\ Fail(p, "timeout")
  /\ UNCHANGED <<clusterVars, record, printed, asked, seen, write, deadline, stamp>>

-----------------------------------------------------------------------------
(* The API server (external) *)

ServerCreate(c) ==
  /\ write[c] = "sent"
  /\ secrets' = [secrets EXCEPT ![c] = record[c]]
  /\ write' = [write EXCEPT ![c] = "applied"]
  /\ UNCHANGED <<now, pc, record, printed, asked, seen, deadline, stamp, verdict, exit>>

SentVersion_none(j) == 0

\* The update is the secret object that was read, so it carries its version.
SentVersion(j) == seen[j].version

\* The server takes an update of an existing object that carries no version
\* (0) or the one it holds.
VersionMatches(j) ==
  /\ secrets[asked[j].id].kind = "token"
  /\ SentVersion(j) \in {0, secrets[asked[j].id].version}

UpdatedSecret_flagOnly(j) == [kind |-> "token", consumed |-> TRUE, version |-> seen[j].version + 1]

\* The object Consume sends: what it read, with Consumed set.
UpdatedSecret(j) == [seen[j] EXCEPT !.consumed = TRUE, !.version = @ + 1]

ServerUpdate(j) ==
  /\ write[j] = "sent"
  /\ VersionMatches(j)
  /\ secrets' = [secrets EXCEPT ![asked[j].id] = UpdatedSecret(j)]
  /\ write' = [write EXCEPT ![j] = "applied"]
  /\ UNCHANGED <<now, pc, record, printed, asked, seen, deadline, stamp, verdict, exit>>

\* A conflict, a deleted secret, or any error that keeps a write from being
\* applied.
ServerRefuses(p) ==
  /\ write[p] = "sent"
  /\ write' = [write EXCEPT ![p] = "refused"]
  /\ UNCHANGED <<clusterVars, pc, record, printed, asked, seen, deadline, stamp, verdict, exit>>

-----------------------------------------------------------------------------
(* Other users of the cluster (external), and time *)

\* An administrator or a controller edits the secret's metadata.
EditSecret(id) ==
  /\ secrets[id].kind = "token"
  /\ secrets[id].version < MaxVersion
  /\ secrets' = [secrets EXCEPT ![id].version = @ + 1]
  /\ UNCHANGED <<now, pc, record, printed, asked, seen, write, deadline, stamp, verdict, exit>>

DeleteSecret(id) ==
  /\ secrets[id].kind = "token"
  /\ secrets' = [secrets EXCEPT ![id] = Absent]
  /\ UNCHANGED <<now, pc, record, printed, asked, seen, write, deadline, stamp, verdict, exit>>

Tick ==
  /\ now < MaxClock
  /\ now' = now + 1
  /\ UNCHANGED <<secrets, pc, record, printed, asked, seen, write, deadline, stamp, verdict, exit>>

-----------------------------------------------------------------------------
CreatorStep(c) ==
  RejectCreate(c) \/ StartCreate(c) \/ CreateInMemory(c) \/ ReportCreate(c)

JoinerStep(j) ==
  \/ RejectJoin(j) \/ StartJoin(j) \/ JoinInMemory(j)
  \/ GetRefused(j) \/ Refuse(j) \/ SendUpdate(j) \/ ReportJoin(j)

ServerStep ==
  \/ \E c \in Creators : ServerCreate(c)
  \/ \E j \in Joiners : ServerGet(j) \/ ServerUpdate(j)
  \/ \E p \in Process : ServerRefuses(p)
  \/ \E id \in TokenIds : EditSecret(id) \/ DeleteSecret(id)

Next ==
  \/ \E c \in Creators : CreatorStep(c)
  \/ \E j \in Joiners : JoinerStep(j)
  \/ \E p \in Process : WriteAcknowledged(p) \/ WriteFailed(p) \/ Timeout(p)
  \/ ServerStep
  \/ Tick

Spec == Init /\ [][Next]_vars

\* A process that runs is scheduled and time passes; the server owes nothing.
Fairness ==
  /\ WF_vars(Tick)
  /\ \A j \in Joiners : WF_vars(Refuse(j) \/ ReportJoin(j))
  /\ \A c \in Creators : WF_vars(ReportCreate(c))
  /\ \A p \in Process : WF_vars(Timeout(p))

FairSpec == Spec /\ Fairness

-----------------------------------------------------------------------------
(* Properties *)

\* The joins whose update of token id took effect at the server.
SpentBy(id) == {j \in Joiners : asked[j].id = id /\ write[j] = "applied"}

\* One-time use (KubeStore.Consume): however Gets and Updates of concurrent
\* joins interleave, time out or are retried, at most one of them ever gets
\* its consumption of a token applied.
OneTimeUse ==
  \A j, k \in Joiners :
    /\ write[j] = "applied"
    /\ write[k] = "applied"
    /\ asked[j].id = asked[k].id
    => j = k

\* A join whose Consume returned nil holds the token's secret, asked for the
\* scope the token was created with, and is itself the one that spent it.
AcceptedIsEntitled ==
  \A j \in Joiners : verdict[j] = "ok" =>
    /\ write[j] = "applied"
    /\ asked[j].id \in Creators
    /\ asked[j].secret = asked[j].id
    /\ asked[j].scope = record[asked[j].id].scope

\* A token is accepted no later than its creation plus the longest TTL, plus
\* one request timeout (the check precedes the update), corrected by how far
\* the two hosts' clocks disagree.
AcceptedWhileFresh ==
  \A j \in Joiners : verdict[j] = "ok" =>
    stamp[j] <= stamp[asked[j].id] + MaxTTL + RequestTimeout
                  + Skew[asked[j].id] - Skew[j]

\* A join that has ended and has spent the token, or has an update on its way
\* that may still spend it, was told either that it is accepted (its report may
\* have failed since) or of an error of the update itself: a timeout, a lost
\* answer.  Who is told anything of the token (not found, consumed, expired,
\* wrong scope, malformed), or could not read it, has not touched it.
RefusedJoinSparesToken ==
  \A j \in Joiners :
    /\ pc[j] = "done"
    /\ write[j] \in {"sent", "applied"}
    => verdict[j] \in {"ok", "timeout", "failed"}

\* The reason a join is given is true: "consumed" names a token another join
\* spent, "expired" one whose expiry has passed on this host's clock, "scope
\* mismatch" one created for the other role.  And it is the first that applies:
\* a token that was found consumed is called nothing else.
RefusalIsTrue ==
  \A j \in Joiners :
    /\ verdict[j] = "consumed" => SpentBy(asked[j].id) \ {j} /= {}
    /\ verdict[j] = "expired" => WallClock(j) > record[asked[j].id].expires
    /\ verdict[j] = "scope_mismatch" => asked[j].scope /= record[asked[j].id].scope
    /\ verdict[j] \in {"expired", "scope_mismatch"} => ~seen[j].consumed

\* The store keeps the promise of the abstract one-time token: the update's
\* effect at the server is the moment the token is spent.
Promise == INSTANCE OneTimeToken WITH
  Tokens <- Creators,
  Attempts <- Joiners,
  phase <- [c \in Creators |-> IF write[c] /= "applied" THEN "unborn"
                               ELSE IF secrets[c].kind = "token" THEN "live"
                               ELSE "revoked"],
  spentBy <- [c \in Creators |-> SpentBy(c)],
  accepted <- {<<asked[j].id, j>> : j \in {k \in Joiners : verdict[k] = "ok"}}

KeepsPromise == Promise!Spec

\* A store call never hangs: whatever the server does, the 5-second context
\* ends the wait and the command exits.
EveryCommandEnds == \A p \in Process : (pc[p] /= "idle") ~> (pc[p] = "done")

-----------------------------------------------------------------------------
(* What the safety properties rest on: their inductive strengthening *)

\* What a record has kept of the one its creator generated.
Descends(rec, id) ==
  /\ id \in Creators
  /\ write[id] = "applied"
  /\ rec.hashed = <<id, id>>
  /\ rec.scope = record[id].scope
  /\ rec.expires = record[id].expires

\* A token is generated once, unconsumed, with a bounded lifetime.
CreatorInv ==
  \A c \in Creators :
    /\ pc[c] \in {"idle", "write", "report", "done"}
    /\ pc[c] = "idle" => record[c] = Absent /\ write[c] = "none"
    /\ write[c] /= "none" => record[c] \in TokenSecret
    /\ record[c] \in TokenSecret =>
         /\ record[c].hashed = <<c, c>>
         /\ ~record[c].consumed
         /\ record[c].expires <= stamp[c] + Skew[c] + MaxTTL

\* A secret that is a token descends from its creation, and it is marked
\* consumed exactly when some join's update of it was applied.
SecretInv ==
  \A id \in TokenIds : secrets[id].kind = "token" =>
    /\ Descends(secrets[id], id)
    /\ secrets[id].consumed <=> SpentBy(id) /= {}

\* What a join read is what was there: an older version of the secret, and
\* the secret itself while the version has not moved.
SeenInv ==
  \A j \in Joiners : seen[j].kind = "token" =>
    /\ Descends(seen[j], asked[j].id)
    /\ pc[j] /= "idle"
    /\ seen[j].consumed => SpentBy(asked[j].id) \ {j} /= {}
    /\ secrets[asked[j].id].kind = "token" =>
         /\ seen[j].version <= secrets[asked[j].id].version
         /\ seen[j].version = secrets[asked[j].id].version =>
              seen[j].consumed = secrets[asked[j].id].consumed

\* Where a join stands, and what it has checked once its update is sent.
JoinerInv ==
  \A j \in Joiners :
    /\ pc[j] \in {"idle", "get", "got"} => write[j] = "none" /\ verdict[j] = "none"
    /\ pc[j] = "report" => write[j] = "applied" /\ verdict[j] = "ok"
    /\ pc[j] = "done" /\ verdict[j] = "none" => write[j] = "none"
    /\ pc[j] \in {"get", "got", "write"} =>
         verdict[j] = "none" /\ asked[j] \in Request /\ deadline[j] - RequestTimeout <= now
    /\ write[j] /= "none" =>
         /\ asked[j] \in Request
         /\ seen[j].kind = "token"
         /\ ~seen[j].consumed
         /\ seen[j].scope = asked[j].scope
         /\ asked[j].secret = asked[j].id
         /\ deadline[j] - RequestTimeout + Skew[j] <= seen[j].expires
    /\ verdict[j] = "ok" => write[j] = "applied" /\ stamp[j] <= deadline[j]
    /\ verdict[j] \in Verdicts \ {"none", "ok"} => pc[j] = "done"
    /\ verdict[j] \in Verdicts \ {"none", "ok", "timeout", "failed"} => write[j] = "none"

IInv ==
  /\ TypeOK
  /\ CreatorInv
  /\ SecretInv
  /\ SeenInv
  /\ JoinerInv
  /\ OneTimeUse
=============================================================================
