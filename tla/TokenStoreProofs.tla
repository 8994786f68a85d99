-------------------------- MODULE TokenStoreProofs --------------------------
(***************************************************************************)
(* What holds of TokenStore for every number of creators and joiners, every *)
(* TTL, timeout and clock skew: the inductive invariant IInv, the safety   *)
(* properties it implies, and that TokenStore implements OneTimeToken.     *)
(*                                                                         *)
(* One lemma per action shows that it preserves IInv, with one step per    *)
(* conjunct.  The steps of a process that leave the secrets, the records   *)
(* and the writes alone share the lemma DataUnchanged.                     *)
(***************************************************************************)
EXTENDS TokenStore, TLAPS

USE ConstantsAssumption
USE DEF Process, TokenIds, clusterVars, TokenSecret, Absent, Stray,
        Request, NoRequest, Goto, Fail

-----------------------------------------------------------------------------
(* The inductive invariant *)

\* What relates secrets to the writes that made them does not look at where
\* the processes stand.
LEMMA DataUnchanged ==
  ASSUME IInv, UNCHANGED <<secrets, record, asked, write>>
  PROVE  SecretInv' /\ OneTimeUse'
BY DEF IInv, SecretInv, OneTimeUse, Descends, SpentBy

\* Nothing has happened yet.
LEMMA InitIInv == Init => IInv
<1> SUFFICES ASSUME Init PROVE IInv
  OBVIOUS
<1>1. TypeOK
  BY DEF Init, TypeOK, Verdicts
<1>2. CreatorInv
  BY DEF Init, CreatorInv
<1>3. SecretInv
  BY DEF Init, SecretInv
<1>4. SeenInv
  BY DEF Init, SeenInv
<1>5. JoinerInv
  BY DEF Init, JoinerInv, Verdicts
<1>6. OneTimeUse
  BY DEF Init, OneTimeUse
<1> QED
  BY <1>1, <1>2, <1>3, <1>4, <1>5, <1>6 DEF IInv

\* A rejected `node token create` changes nothing but its own exit.
LEMMA RejectCreateStep ==
  ASSUME IInv, NEW c \in Creators, RejectCreate(c)
  PROVE  IInv'
<1>1. TypeOK'
  BY DEF RejectCreate, TypeOK, IInv
<1>2. CreatorInv'
  BY DEF RejectCreate, TypeOK, CreatorInv, IInv
<1>3. SecretInv' /\ OneTimeUse'
  BY DataUnchanged DEF RejectCreate
<1>4. SeenInv'
  BY DEF RejectCreate, TypeOK, SeenInv, Descends, SpentBy, IInv
<1>5. JoinerInv'
  BY DEF RejectCreate, TypeOK, JoinerInv, Verdicts, IInv
<1> QED
  BY <1>1, <1>2, <1>3, <1>4, <1>5 DEF IInv

\* generateToken yields an unconsumed record under its own hash that lives no
\* longer than maxTTL from now on the creator's clock.
LEMMA GeneratedToken ==
  ASSUME TypeOK, NEW c \in Creators, NEW scope \in Scopes, NEW ttl \in AskedTTLs,
         TTLAllowed(ttl)
  PROVE  /\ generateToken(c, scope, ttl) \in TokenSecret
         /\ generateToken(c, scope, ttl).hashed = <<c, c>>
         /\ ~generateToken(c, scope, ttl).consumed
         /\ generateToken(c, scope, ttl).expires <= now + Skew[c] + MaxTTL
<1>1. EffectiveTTL(ttl) \in Int /\ EffectiveTTL(ttl) <= MaxTTL
  BY DEF EffectiveTTL, TTLAllowed
<1>2. now \in Int /\ Skew[c] \in Int
  BY DEF TypeOK
<1> QED
  BY <1>1, <1>2 DEF generateToken, hashSecret, WallClock

\* A sent record is the one generated, in bounds and unspent.
LEMMA StartCreateStep ==
  ASSUME IInv, NEW c \in Creators, StartCreate(c)
  PROVE  IInv'
<1>1. PICK scope \in Scopes, ttl \in AskedTTLs :
        TTLAllowed(ttl) /\ record' = [record EXCEPT ![c] = generateToken(c, scope, ttl)]
  BY DEF StartCreate
<1> DEFINE rec == generateToken(c, scope, ttl)
<1>2. /\ rec \in TokenSecret /\ rec.hashed = <<c, c>> /\ ~rec.consumed
      /\ rec.expires <= now + Skew[c] + MaxTTL
  BY <1>1, GeneratedToken DEF IInv
<1> HIDE DEF rec
<1>3. TypeOK'
  BY <1>1, <1>2 DEF StartCreate, TypeOK, IInv, rec
<1>4. CreatorInv'
  BY <1>1, <1>2 DEF StartCreate, TypeOK, CreatorInv, IInv, rec
<1>5. SecretInv'
  BY <1>1 DEF StartCreate, TypeOK, SecretInv, CreatorInv, Descends, SpentBy, IInv
<1>6. SeenInv'
  BY <1>1 DEF StartCreate, TypeOK, SeenInv, CreatorInv, Descends, SpentBy, IInv
<1>7. JoinerInv'
  BY DEF StartCreate, TypeOK, JoinerInv, Verdicts, IInv
<1>8. OneTimeUse'
  BY DEF StartCreate, TypeOK, OneTimeUse, IInv
<1> QED
  BY <1>3, <1>4, <1>5, <1>6, <1>7, <1>8 DEF IInv

\* The same record, kept in the process's memory and never sent.
LEMMA CreateInMemoryStep ==
  ASSUME IInv, NEW c \in Creators, CreateInMemory(c)
  PROVE  IInv'
<1>1. PICK scope \in Scopes, ttl \in AskedTTLs :
        TTLAllowed(ttl) /\ record' = [record EXCEPT ![c] = generateToken(c, scope, ttl)]
  BY DEF CreateInMemory
<1> DEFINE rec == generateToken(c, scope, ttl)
<1>2. /\ rec \in TokenSecret /\ rec.hashed = <<c, c>> /\ ~rec.consumed
      /\ rec.expires <= now + Skew[c] + MaxTTL
  BY <1>1, GeneratedToken DEF IInv
<1> HIDE DEF rec
<1>3. TypeOK'
  BY <1>1, <1>2 DEF CreateInMemory, TypeOK, Verdicts, IInv, rec
<1>4. CreatorInv'
  BY <1>1, <1>2 DEF CreateInMemory, TypeOK, CreatorInv, IInv, rec
<1>5. SecretInv'
  BY <1>1 DEF CreateInMemory, TypeOK, SecretInv, CreatorInv, Descends, SpentBy, IInv
<1>6. SeenInv'
  BY <1>1 DEF CreateInMemory, TypeOK, SeenInv, CreatorInv, Descends, SpentBy, IInv
<1>7. JoinerInv'
  BY DEF CreateInMemory, TypeOK, JoinerInv, Verdicts, IInv
<1>8. OneTimeUse'
  BY DEF CreateInMemory, TypeOK, OneTimeUse, IInv
<1> QED
  BY <1>3, <1>4, <1>5, <1>6, <1>7, <1>8 DEF IInv

\* Printing the token leaves the records and the secrets alone.
LEMMA ReportCreateStep ==
  ASSUME IInv, NEW c \in Creators, ReportCreate(c)
  PROVE  IInv'
<1>1. TypeOK'
  BY DEF ReportCreate, TypeOK, IInv
<1>2. CreatorInv'
  BY DEF ReportCreate, TypeOK, CreatorInv, IInv
<1>3. SecretInv' /\ OneTimeUse'
  BY DataUnchanged DEF ReportCreate
<1>4. SeenInv'
  BY DEF ReportCreate, TypeOK, SeenInv, Descends, SpentBy, IInv
<1>5. JoinerInv'
  BY DEF ReportCreate, TypeOK, JoinerInv, Verdicts, IInv
<1> QED
  BY <1>1, <1>2, <1>3, <1>4, <1>5 DEF IInv

\* A rejected `node join` changes nothing but its own exit.
LEMMA RejectJoinStep ==
  ASSUME IInv, NEW j \in Joiners, RejectJoin(j)
  PROVE  IInv'
<1>1. TypeOK'
  BY DEF RejectJoin, TypeOK, IInv
<1>2. CreatorInv'
  BY DEF RejectJoin, TypeOK, CreatorInv, IInv
<1>3. SecretInv' /\ OneTimeUse'
  BY DataUnchanged DEF RejectJoin
<1>4. SeenInv'
  BY DEF RejectJoin, TypeOK, SeenInv, Descends, SpentBy, IInv
<1>5. JoinerInv'
  BY DEF RejectJoin, TypeOK, JoinerInv, Verdicts, IInv
<1> QED
  BY <1>1, <1>2, <1>3, <1>4, <1>5 DEF IInv

\* A join that starts has read and written nothing yet.
LEMMA StartJoinStep ==
  ASSUME IInv, NEW j \in Joiners, StartJoin(j)
  PROVE  IInv'
<1>1. TypeOK'
  BY DEF StartJoin, TypeOK, CreatorInv, Scopes, IInv
<1>2. CreatorInv'
  BY DEF StartJoin, TypeOK, CreatorInv, IInv
<1>3. SecretInv'
  BY DEF StartJoin, TypeOK, SecretInv, JoinerInv, Descends, SpentBy, IInv
<1>4. SeenInv'
  BY DEF StartJoin, TypeOK, SeenInv, JoinerInv, Descends, SpentBy, IInv
<1>5. JoinerInv'
  BY DEF StartJoin, TypeOK, JoinerInv, Verdicts, Scopes, IInv
<1>6. OneTimeUse'
  BY DEF StartJoin, TypeOK, OneTimeUse, JoinerInv, IInv
<1> QED
  BY <1>1, <1>2, <1>3, <1>4, <1>5, <1>6 DEF IInv

\* A join against an empty MemoryStore fails without any request.
LEMMA JoinInMemoryStep ==
  ASSUME IInv, NEW j \in Joiners, JoinInMemory(j)
  PROVE  IInv'
<1>1. TypeOK'
  BY DEF JoinInMemory, TypeOK, Verdicts, IInv
<1>2. CreatorInv'
  BY DEF JoinInMemory, TypeOK, CreatorInv, IInv
<1>3. SecretInv' /\ OneTimeUse'
  BY DataUnchanged DEF JoinInMemory
<1>4. SeenInv'
  BY DEF JoinInMemory, TypeOK, SeenInv, Descends, SpentBy, IInv
<1>5. JoinerInv'
  BY DEF JoinInMemory, TypeOK, JoinerInv, Verdicts, IInv
<1> QED
  BY <1>1, <1>2, <1>3, <1>4, <1>5 DEF IInv

\* A join reads the secret as it is: what holds of the secret holds of the copy.
LEMMA ServerGetStep ==
  ASSUME IInv, NEW j \in Joiners, ServerGet(j)
  PROVE  IInv'
<1>1. asked[j] \in Request /\ write[j] = "none" /\ pc[j] = "get"
  BY DEF ServerGet, JoinerInv, IInv
<1>2. TypeOK'
  BY <1>1 DEF ServerGet, TypeOK, IInv
<1>3. CreatorInv'
  BY DEF ServerGet, TypeOK, CreatorInv, IInv
<1>4. SecretInv' /\ OneTimeUse'
  BY DataUnchanged DEF ServerGet
<1>5. SeenInv'
  <2> SUFFICES ASSUME NEW k \in Joiners, seen'[k].kind = "token"
               PROVE  SeenInv!(k)'
    BY DEF SeenInv
  <2>1. CASE k = j
    <3>1. seen'[j] = secrets[asked[j].id] /\ pc'[j] = "got"
      BY DEF ServerGet, TypeOK, IInv
    <3>2. secrets[asked[j].id] \in TokenSecret
      BY <1>1, <2>1, <3>1 DEF TypeOK, IInv
    <3>3. /\ Descends(secrets[asked[j].id], asked[j].id)
          /\ secrets[asked[j].id].consumed => SpentBy(asked[j].id) /= {}
      BY <1>1, <2>1, <3>1 DEF SecretInv, IInv
    <3>4. SpentBy(asked[j].id) \ {j} = SpentBy(asked[j].id)
      BY <1>1 DEF SpentBy
    <3> QED
      BY <2>1, <3>1, <3>2, <3>3, <3>4 DEF ServerGet, Descends, SpentBy
  <2>2. CASE k /= j
    BY <2>2 DEF ServerGet, TypeOK, SeenInv, Descends, SpentBy, IInv
  <2> QED
    BY <2>1, <2>2
<1>6. JoinerInv'
  BY DEF ServerGet, TypeOK, JoinerInv, Verdicts, IInv
<1> QED
  BY <1>2, <1>3, <1>4, <1>5, <1>6 DEF IInv

\* A refused Get ends the join before it has written.
LEMMA GetRefusedStep ==
  ASSUME IInv, NEW j \in Joiners, GetRefused(j)
  PROVE  IInv'
<1>1. TypeOK'
  BY DEF GetRefused, TypeOK, Verdicts, IInv
<1>2. CreatorInv'
  BY DEF GetRefused, TypeOK, CreatorInv, IInv
<1>3. SecretInv' /\ OneTimeUse'
  BY DataUnchanged DEF GetRefused
<1>4. SeenInv'
  BY DEF GetRefused, TypeOK, SeenInv, Descends, SpentBy, IInv
<1>5. JoinerInv'
  BY DEF GetRefused, TypeOK, JoinerInv, Verdicts, IInv
<1> QED
  BY <1>1, <1>2, <1>3, <1>4, <1>5 DEF IInv

\* A refusal by Consume's checks ends the join before it has written.
LEMMA RefuseStep ==
  ASSUME IInv, NEW j \in Joiners, Refuse(j)
  PROVE  IInv'
<1>1. TypeOK'
  BY DEF Refuse, TypeOK, Verdicts, Refusal, IInv
<1>2. CreatorInv'
  BY DEF Refuse, TypeOK, CreatorInv, IInv
<1>3. SecretInv' /\ OneTimeUse'
  BY DataUnchanged DEF Refuse
<1>4. SeenInv'
  BY DEF Refuse, TypeOK, SeenInv, Descends, SpentBy, IInv
<1>5. JoinerInv'
  BY DEF Refuse, TypeOK, JoinerInv, Verdicts, Refusal, IInv
<1> QED
  BY <1>1, <1>2, <1>3, <1>4, <1>5 DEF IInv

\* What Consume has checked when it sends the update: the record was
\* unconsumed, unexpired on this clock, of the scope and secret asked for.
LEMMA SendUpdateStep ==
  ASSUME IInv, NEW j \in Joiners, SendUpdate(j)
  PROVE  IInv'
<1>1. TypeOK'
  BY DEF SendUpdate, TypeOK, IInv
<1>2. CreatorInv'
  BY DEF SendUpdate, TypeOK, CreatorInv, IInv
<1>3. SecretInv'
  BY DEF SendUpdate, TypeOK, SecretInv, JoinerInv, Descends, SpentBy, IInv
<1>4. SeenInv'
  BY DEF SendUpdate, TypeOK, SeenInv, JoinerInv, Descends, SpentBy, IInv
<1>5. JoinerInv'
  BY DEF SendUpdate, TypeOK, JoinerInv, SeenInv, Descends, Verdicts, Refusal, WallClock, compareSecret, hashSecret, DeadlinePassed, IInv
<1>6. OneTimeUse'
  BY DEF SendUpdate, TypeOK, OneTimeUse, IInv
<1> QED
  BY <1>1, <1>2, <1>3, <1>4, <1>5, <1>6 DEF IInv

\* Reporting the join leaves the records and the secrets alone.
LEMMA ReportJoinStep ==
  ASSUME IInv, NEW j \in Joiners, ReportJoin(j)
  PROVE  IInv'
<1>1. TypeOK'
  BY DEF ReportJoin, TypeOK, IInv
<1>2. CreatorInv'
  BY DEF ReportJoin, TypeOK, CreatorInv, IInv
<1>3. SecretInv' /\ OneTimeUse'
  BY DataUnchanged DEF ReportJoin
<1>4. SeenInv'
  BY DEF ReportJoin, TypeOK, SeenInv, Descends, SpentBy, IInv
<1>5. JoinerInv'
  BY DEF ReportJoin, TypeOK, JoinerInv, Verdicts, IInv
<1> QED
  BY <1>1, <1>2, <1>3, <1>4, <1>5 DEF IInv

\* An answer taken in time is an applied write, no later than its deadline.
LEMMA WriteAcknowledgedStep ==
  ASSUME IInv, NEW p \in Process, WriteAcknowledged(p)
  PROVE  IInv'
<1>1. TypeOK'
  BY DEF WriteAcknowledged, TypeOK, Verdicts, IInv
<1>2. CreatorInv'
  BY DEF WriteAcknowledged, TypeOK, CreatorInv, IInv
<1>3. SecretInv' /\ OneTimeUse'
  BY DataUnchanged DEF WriteAcknowledged
<1>4. SeenInv'
  BY DEF WriteAcknowledged, TypeOK, SeenInv, Descends, SpentBy, IInv
<1>5. JoinerInv'
  BY DEF WriteAcknowledged, TypeOK, JoinerInv, CreatorInv, Verdicts, DeadlinePassed, IInv
<1> QED
  BY <1>1, <1>2, <1>3, <1>4, <1>5 DEF IInv

\* A refused write ends the command, and stays refused.
LEMMA WriteFailedStep ==
  ASSUME IInv, NEW p \in Process, WriteFailed(p)
  PROVE  IInv'
<1>1. TypeOK'
  BY DEF WriteFailed, TypeOK, Verdicts, IInv
<1>2. CreatorInv'
  BY DEF WriteFailed, TypeOK, CreatorInv, IInv
<1>3. SecretInv' /\ OneTimeUse'
  BY DataUnchanged DEF WriteFailed
<1>4. SeenInv'
  BY DEF WriteFailed, TypeOK, SeenInv, Descends, SpentBy, IInv
<1>5. JoinerInv'
  BY DEF WriteFailed, TypeOK, JoinerInv, Verdicts, IInv
<1> QED
  BY <1>1, <1>2, <1>3, <1>4, <1>5 DEF IInv

\* A timeout ends the command whatever became of its write.
LEMMA TimeoutStep ==
  ASSUME IInv, NEW p \in Process, Timeout(p)
  PROVE  IInv'
<1>1. TypeOK'
  BY DEF Timeout, TypeOK, Verdicts, IInv
<1>2. CreatorInv'
  BY DEF Timeout, TypeOK, CreatorInv, IInv
<1>3. SecretInv' /\ OneTimeUse'
  BY DataUnchanged DEF Timeout
<1>4. SeenInv'
  BY DEF Timeout, TypeOK, SeenInv, Descends, SpentBy, IInv
<1>5. JoinerInv'
  BY DEF Timeout, TypeOK, JoinerInv, Verdicts, IInv
<1> QED
  BY <1>1, <1>2, <1>3, <1>4, <1>5 DEF IInv

\* A created secret is the record its creator generated, spent by nobody.
LEMMA ServerCreateStep ==
  ASSUME IInv, NEW c \in Creators, ServerCreate(c)
  PROVE  IInv'
<1>1. TypeOK'
  BY DEF ServerCreate, TypeOK, CreatorInv, IInv
<1>2. CreatorInv'
  BY DEF ServerCreate, TypeOK, CreatorInv, IInv
<1>3. SecretInv'
  BY DEF ServerCreate, TypeOK, SecretInv, CreatorInv, SeenInv, JoinerInv, Descends, SpentBy, IInv
<1>4. SeenInv'
  BY DEF ServerCreate, TypeOK, SeenInv, CreatorInv, JoinerInv, Descends, SpentBy, IInv
<1>5. JoinerInv'
  BY DEF ServerCreate, TypeOK, JoinerInv, CreatorInv, IInv
<1>6. OneTimeUse'
  BY DEF ServerCreate, TypeOK, OneTimeUse, IInv
<1> QED
  BY <1>1, <1>2, <1>3, <1>4, <1>5, <1>6 DEF IInv

\* The update a join sent is what it read, marked consumed.
LEMMA SentUpdate ==
  ASSUME IInv, NEW j \in Joiners, write[j] /= "none"
  PROVE  /\ asked[j] \in Request
         /\ seen[j] \in TokenSecret
         /\ UpdatedSecret(j) \in TokenSecret
         /\ UpdatedSecret(j).consumed
         /\ UpdatedSecret(j).version = seen[j].version + 1
         /\ Descends(UpdatedSecret(j), asked[j].id)
<1>1. asked[j] \in Request /\ seen[j].kind = "token"
  BY DEF JoinerInv, IInv
<1>2. seen[j] \in TokenSecret
  BY <1>1 DEF TypeOK, IInv
<1>3. Descends(seen[j], asked[j].id)
  BY <1>1 DEF SeenInv, IInv
<1>4. UpdatedSecret(j) \in TokenSecret
  <2> DEFINE marked == [seen[j] EXCEPT !.consumed = TRUE]
  <2>1. marked \in TokenSecret
    BY <1>2
  <2>2. UpdatedSecret(j) = [marked EXCEPT !.version = @ + 1]
    BY <1>2 DEF UpdatedSecret
  <2> HIDE DEF marked
  <2> QED
    BY <2>1, <2>2
<1>5. /\ UpdatedSecret(j).consumed
      /\ UpdatedSecret(j).version = seen[j].version + 1
      /\ UpdatedSecret(j).hashed = seen[j].hashed
      /\ UpdatedSecret(j).scope = seen[j].scope
      /\ UpdatedSecret(j).expires = seen[j].expires
  BY <1>2 DEF UpdatedSecret
<1> QED
  BY <1>1, <1>2, <1>3, <1>4, <1>5 DEF Descends

\* The heart of one-time use: the server applies an update only at the version
\* it was read at, so the secret is still unconsumed and nobody has spent it.
LEMMA ServerUpdateStep ==
  ASSUME IInv, NEW j \in Joiners, ServerUpdate(j)
  PROVE  IInv'
<1> DEFINE id == asked[j].id
<1>1. /\ write[j] = "sent" /\ id \in TokenIds
      /\ seen[j] \in TokenSecret /\ ~seen[j].consumed
      /\ UpdatedSecret(j) \in TokenSecret /\ UpdatedSecret(j).consumed
      /\ UpdatedSecret(j).version = seen[j].version + 1
      /\ Descends(UpdatedSecret(j), id)
  BY SentUpdate DEF ServerUpdate, JoinerInv, IInv
<1>2. secrets[id] \in TokenSecret /\ secrets[id].version = seen[j].version
  BY <1>1 DEF ServerUpdate, VersionMatches, SentVersion, TypeOK, IInv
<1>3. SpentBy(id) = {}
  BY <1>1, <1>2 DEF SeenInv, SecretInv, IInv
<1>4. /\ secrets' = [secrets EXCEPT ![id] = UpdatedSecret(j)]
      /\ write' = [write EXCEPT ![j] = "applied"]
      /\ UNCHANGED <<now, pc, record, printed, asked, seen, deadline, stamp, verdict, exit>>
  BY DEF ServerUpdate
<1>5. TypeOK'
  BY <1>1, <1>4 DEF TypeOK, IInv
<1>6. CreatorInv'
  BY <1>4 DEF TypeOK, CreatorInv, IInv
<1>7. SecretInv'
  BY <1>1, <1>4 DEF TypeOK, SecretInv, Descends, SpentBy, IInv
<1>8. SeenInv'
  <2> SUFFICES ASSUME NEW k \in Joiners, seen[k].kind = "token"
               PROVE  SeenInv!(k)'
    BY <1>4 DEF SeenInv
  <2>1. SeenInv!(k)
    BY DEF SeenInv, IInv
  <2>2. Descends(seen[k], asked[k].id)'
    BY <1>4, <2>1 DEF Descends, TypeOK, IInv
  <2>3. (seen[k].consumed => SpentBy(asked[k].id) \ {k} /= {})'
    BY <1>4, <2>1 DEF SpentBy, TypeOK, IInv
  <2>4. CASE asked[k].id = id
    <3>1. secrets'[id].version = seen[j].version + 1
      BY <1>1, <1>4 DEF TypeOK, IInv
    <3>2. seen[k] \in TokenSecret /\ seen[k].version <= seen[j].version
      BY <1>2, <2>1, <2>4 DEF TypeOK, IInv
    <3> QED
      BY <1>1, <1>4, <2>1, <2>2, <2>3, <2>4, <3>1, <3>2
  <2>5. CASE asked[k].id /= id
    BY <1>1, <1>4, <2>1, <2>2, <2>3, <2>5 DEF TypeOK, IInv
  <2> QED
    BY <2>4, <2>5
<1>9. JoinerInv'
  BY <1>4, <1>1 DEF TypeOK, JoinerInv, Verdicts, IInv
<1>10. OneTimeUse'
  BY <1>3, <1>4 DEF TypeOK, OneTimeUse, SpentBy, IInv
<1> QED
  BY <1>5, <1>6, <1>7, <1>8, <1>9, <1>10 DEF IInv

\* A refusal by the server leaves the secrets alone.
LEMMA ServerRefusesStep ==
  ASSUME IInv, NEW p \in Process, ServerRefuses(p)
  PROVE  IInv'
<1>1. TypeOK'
  BY DEF ServerRefuses, TypeOK, IInv
<1>2. CreatorInv'
  BY DEF ServerRefuses, TypeOK, CreatorInv, IInv
<1>3. SecretInv'
  BY DEF ServerRefuses, TypeOK, SecretInv, Descends, SpentBy, IInv
<1>4. SeenInv'
  BY DEF ServerRefuses, TypeOK, SeenInv, Descends, SpentBy, IInv
<1>5. JoinerInv'
  BY DEF ServerRefuses, TypeOK, JoinerInv, Verdicts, IInv
<1>6. OneTimeUse'
  BY DEF ServerRefuses, TypeOK, OneTimeUse, IInv
<1> QED
  BY <1>1, <1>2, <1>3, <1>4, <1>5, <1>6 DEF IInv

\* An edit only raises the version, which no copy has reached yet.
LEMMA EditSecretStep ==
  ASSUME IInv, NEW id \in TokenIds, EditSecret(id)
  PROVE  IInv'
<1> DEFINE edited == [secrets[id] EXCEPT !.version = @ + 1]
<1>1. secrets[id] \in TokenSecret
  BY DEF EditSecret, TypeOK, IInv
<1>2. /\ edited \in TokenSecret /\ edited.version = secrets[id].version + 1
      /\ edited.scope = secrets[id].scope /\ edited.hashed = secrets[id].hashed
      /\ edited.expires = secrets[id].expires /\ edited.consumed = secrets[id].consumed
  BY <1>1
<1>3. /\ secrets' = [secrets EXCEPT ![id] = edited]
      /\ UNCHANGED <<now, pc, record, printed, asked, seen, write, deadline, stamp, verdict, exit>>
  BY DEF EditSecret
<1> HIDE DEF edited
<1>4. TypeOK'
  BY <1>2, <1>3 DEF TypeOK, IInv
<1>5. CreatorInv'
  BY <1>3 DEF CreatorInv, IInv
<1>6. SecretInv'
  BY <1>1, <1>2, <1>3 DEF TypeOK, SecretInv, Descends, SpentBy, IInv
<1>7. SeenInv'
  BY <1>1, <1>2, <1>3 DEF TypeOK, SeenInv, Descends, SpentBy, IInv
<1>8. JoinerInv'
  BY <1>3 DEF JoinerInv, IInv
<1>9. OneTimeUse'
  BY <1>3 DEF OneTimeUse, IInv
<1> QED
  BY <1>4, <1>5, <1>6, <1>7, <1>8, <1>9 DEF IInv

\* A deleted secret is no token any more: nothing is asked of it.
LEMMA DeleteSecretStep ==
  ASSUME IInv, NEW id \in TokenIds, DeleteSecret(id)
  PROVE  IInv'
<1>1. TypeOK'
  BY DEF DeleteSecret, TypeOK, IInv
<1>2. CreatorInv'
  BY DEF DeleteSecret, TypeOK, CreatorInv, IInv
<1>3. SecretInv'
  BY DEF DeleteSecret, TypeOK, SecretInv, Descends, SpentBy, IInv
<1>4. SeenInv'
  BY DEF DeleteSecret, TypeOK, SeenInv, Descends, SpentBy, IInv
<1>5. JoinerInv'
  BY DEF DeleteSecret, TypeOK, JoinerInv, Verdicts, IInv
<1>6. OneTimeUse'
  BY DEF DeleteSecret, TypeOK, OneTimeUse, IInv
<1> QED
  BY <1>1, <1>2, <1>3, <1>4, <1>5, <1>6 DEF IInv

\* Time only moves forward.
LEMMA TickStep ==
  ASSUME IInv, Tick
  PROVE  IInv'
<1>1. TypeOK'
  BY DEF Tick, TypeOK, IInv
<1>2. CreatorInv'
  BY DEF Tick, TypeOK, CreatorInv, IInv
<1>3. SecretInv' /\ OneTimeUse'
  BY DataUnchanged DEF Tick
<1>4. SeenInv'
  BY DEF Tick, TypeOK, SeenInv, Descends, SpentBy, IInv
<1>5. JoinerInv'
  BY DEF Tick, TypeOK, JoinerInv, IInv
<1> QED
  BY <1>1, <1>2, <1>3, <1>4, <1>5 DEF IInv

\* Every step preserves the inductive invariant.
LEMMA NextIInv == IInv /\ [Next]_vars => IInv'
<1> SUFFICES ASSUME IInv, [Next]_vars PROVE IInv'
  OBVIOUS
<1>1. CASE \E c \in Creators : CreatorStep(c)
  BY <1>1, RejectCreateStep, StartCreateStep, CreateInMemoryStep, ReportCreateStep
  DEF CreatorStep
<1>2. CASE \E j \in Joiners : JoinerStep(j)
  BY <1>2, RejectJoinStep, StartJoinStep, JoinInMemoryStep, GetRefusedStep,
     RefuseStep, SendUpdateStep, ReportJoinStep DEF JoinerStep
<1>3. CASE \E p \in Process : WriteAcknowledged(p) \/ WriteFailed(p) \/ Timeout(p)
  BY <1>3, WriteAcknowledgedStep, WriteFailedStep, TimeoutStep
<1>4. CASE ServerStep
  BY <1>4, ServerCreateStep, ServerGetStep, ServerUpdateStep, ServerRefusesStep,
     EditSecretStep, DeleteSecretStep DEF ServerStep
<1>5. CASE Tick
  BY <1>5, TickStep
<1>6. CASE UNCHANGED vars
  BY <1>6 DEF vars, IInv, TypeOK, CreatorInv, SecretInv, SeenInv, JoinerInv,
              OneTimeUse, Descends, SpentBy
<1> QED
  BY <1>1, <1>2, <1>3, <1>4, <1>5, <1>6 DEF Next

\* The inductive invariant holds in every reachable state.
THEOREM Invariance == Spec => []IInv
BY InitIInv, NextIInv, PTL DEF Spec

-----------------------------------------------------------------------------
(* The safety properties *)

\* The stored secrets, the copies the joins hold and the processes' own state
\* keep the shape the code gives them.
THEOREM TypeCorrect == Spec => []TypeOK
<1>1. IInv => TypeOK
  BY DEF IInv
<1> QED
  BY Invariance, <1>1, PTL

\* KubeStore.Consume lets at most one join spend a token, for any number of
\* concurrent joins, retries, timeouts, edits and deletions.
THEOREM AtMostOneJoinSpends == Spec => []OneTimeUse
<1>1. IInv => OneTimeUse
  BY DEF IInv
<1> QED
  BY Invariance, <1>1, PTL

\* Whoever KubeStore.Consume accepts holds the secret, has the token's scope
\* and is the one that spent it.
THEOREM AcceptedJoinsAreEntitled == Spec => []AcceptedIsEntitled
<1>1. IInv => AcceptedIsEntitled
  BY DEF IInv, TypeOK, JoinerInv, SeenInv, Descends, AcceptedIsEntitled
<1> QED
  BY Invariance, <1>1, PTL

\* The token KubeStore.Consume accepts is no older than maxTTL, one request
\* timeout and the two hosts' clock difference allow.
THEOREM AcceptedTokensAreFresh == Spec => []AcceptedWhileFresh
<1>1. IInv => AcceptedWhileFresh
  <2> SUFFICES ASSUME IInv, NEW j \in Joiners, verdict[j] = "ok"
               PROVE  stamp[j] <= stamp[asked[j].id] + MaxTTL + RequestTimeout
                                    + Skew[asked[j].id] - Skew[j]
    BY DEF AcceptedWhileFresh
  <2> DEFINE c == asked[j].id
  <2>1. /\ write[j] = "applied" /\ stamp[j] <= deadline[j]
        /\ seen[j].kind = "token"
        /\ deadline[j] - RequestTimeout + Skew[j] <= seen[j].expires
    BY DEF IInv, JoinerInv
  <2>2. Descends(seen[j], c)
    BY <2>1 DEF IInv, SeenInv
  <2>3. record[c].expires <= stamp[c] + Skew[c] + MaxTTL /\ record[c] \in TokenSecret
    BY <2>2 DEF IInv, CreatorInv, Descends
  <2>4. /\ stamp[j] \in Int /\ stamp[c] \in Int /\ deadline[j] \in Int
        /\ Skew[j] \in Int /\ Skew[c] \in Int
    BY <2>2 DEF IInv, TypeOK, Descends
  <2> QED
    BY <2>1, <2>2, <2>3, <2>4 DEF Descends
<1> QED
  BY Invariance, <1>1, PTL

\* A join that spent the token, or may still spend it, is never told that the
\* token is bad: it is accepted, or its update ended in a timeout or an error
\* of which the server or the connection is the cause.
THEOREM RefusalsSpareTheToken == Spec => []RefusedJoinSparesToken
<1>1. IInv => RefusedJoinSparesToken
  BY DEF IInv, TypeOK, JoinerInv, RefusedJoinSparesToken
<1> QED
  BY Invariance, <1>1, PTL
-----------------------------------------------------------------------------
(* The reasons given to refused joins *)

\* A join that was given a reason read a token, and is over.
ReasonInv ==
  /\ RefusalIsTrue
  /\ \A j \in Joiners : verdict[j] \in {"consumed", "expired", "scope_mismatch"} =>
       seen[j].kind = "token" /\ pc[j] = "done"

\* Consume gives a reason it has just seen to be true.
LEMMA RefuseGivesReason ==
  ASSUME IInv, ReasonInv, NEW j \in Joiners, Refuse(j)
  PROVE  ReasonInv'
<1>1. asked[j] \in Request
  BY DEF Refuse, JoinerInv, IInv
<1>2. /\ verdict' = [verdict EXCEPT ![j] = Refusal(j)]
      /\ pc' = [pc EXCEPT ![j] = "done"]
      /\ UNCHANGED <<clusterVars, record, printed, asked, seen, write, deadline, stamp>>
  BY DEF Refuse
<1>3. ASSUME Refusal(j) \in {"consumed", "expired", "scope_mismatch"}
      PROVE  /\ seen[j].kind = "token"
             /\ Refusal(j) = "consumed" => seen[j].consumed
             /\ Refusal(j) = "expired" => WallClock(j) > seen[j].expires
             /\ Refusal(j) = "scope_mismatch" => asked[j].scope /= seen[j].scope
             /\ Refusal(j) \in {"expired", "scope_mismatch"} => ~seen[j].consumed
  BY <1>3 DEF Refusal, TypeOK, IInv
<1>4. seen[j].kind = "token" => Descends(seen[j], asked[j].id)
  BY DEF SeenInv, IInv
<1>5. seen[j].kind = "token" /\ seen[j].consumed => SpentBy(asked[j].id) \ {j} /= {}
  BY DEF SeenInv, IInv
<1> QED
  BY <1>2, <1>3, <1>4, <1>5 DEF ReasonInv, RefusalIsTrue, TypeOK, IInv, Descends, SpentBy, WallClock

\* A reason stays true: time does not go back, no join is unspent, and a
\* generated record is never generated again.
LEMMA ReasonsStayTrue ==
  ASSUME IInv, ReasonInv, IInv',
         now <= now',
         \A j \in Joiners : verdict'[j] = verdict[j]
                              \/ verdict'[j] \notin {"consumed", "expired", "scope_mismatch"},
         \A j \in Joiners : pc[j] = "done" =>
           pc'[j] = "done" /\ asked'[j] = asked[j] /\ seen'[j] = seen[j],
         \A j \in Joiners : write[j] = "applied" => write'[j] = "applied" /\ asked'[j] = asked[j],
         \A c \in Creators : write[c] = "applied" => record'[c] = record[c]
  PROVE  ReasonInv'
<1> SUFFICES ASSUME NEW j \in Joiners,
                    verdict'[j] \in {"consumed", "expired", "scope_mismatch"}
             PROVE  /\ seen'[j].kind = "token" /\ pc'[j] = "done"
                    /\ verdict'[j] = "consumed" => (SpentBy(asked[j].id) \ {j} /= {})'
                    /\ verdict'[j] = "expired" => (WallClock(j) > record[asked[j].id].expires)'
                    /\ verdict'[j] = "scope_mismatch" =>
                         (asked[j].scope /= record[asked[j].id].scope)'
                    /\ verdict'[j] \in {"expired", "scope_mismatch"} => ~seen'[j].consumed
  BY DEF ReasonInv, RefusalIsTrue
<1>1. /\ verdict'[j] = verdict[j] /\ seen[j].kind = "token" /\ pc[j] = "done"
      /\ pc'[j] = "done" /\ asked'[j] = asked[j] /\ seen'[j] = seen[j]
  BY DEF ReasonInv
<1>2. Descends(seen[j], asked[j].id)
  BY <1>1 DEF SeenInv, IInv
<1>3. record'[asked[j].id] = record[asked[j].id] /\ record[asked[j].id] \in TokenSecret
  BY <1>2 DEF Descends, CreatorInv, IInv
<1>4. verdict[j] = "consumed" => (SpentBy(asked[j].id) \ {j} /= {})'
  BY <1>1 DEF ReasonInv, RefusalIsTrue, SpentBy
<1>5. verdict[j] = "expired" => (WallClock(j) > record[asked[j].id].expires)'
  BY <1>1, <1>3, <1>2 DEF ReasonInv, RefusalIsTrue, WallClock, TypeOK, IInv
<1> QED
  BY <1>1, <1>3, <1>4, <1>5 DEF ReasonInv, RefusalIsTrue

\* Whatever a join is told by Consume - consumed, expired, wrong scope - is
\* so, and stays so.
THEOREM RefusalsAreTrue == Spec => []RefusalIsTrue
<1>1. Init => ReasonInv
  BY DEF Init, ReasonInv, RefusalIsTrue
<1>2. IInv /\ IInv' /\ ReasonInv /\ [Next]_vars => ReasonInv'
  <2> SUFFICES ASSUME IInv, IInv', ReasonInv, [Next]_vars PROVE ReasonInv'
    OBVIOUS
  <2>1. CASE \E j \in Joiners : Refuse(j)
    BY <2>1, RefuseGivesReason
  <2>2. CASE \E c \in Creators : CreatorStep(c)
    BY <2>2, ReasonsStayTrue DEF CreatorStep, RejectCreate, StartCreate, CreateInMemory,
       ReportCreate, CreatorInv, TypeOK, IInv
  <2>3. CASE \E j \in Joiners : JoinerStep(j) /\ ~Refuse(j)
    BY <2>3, ReasonsStayTrue DEF JoinerStep, RejectJoin, StartJoin, JoinInMemory,
       GetRefused, SendUpdate, ReportJoin, JoinerInv, TypeOK, IInv
  <2>4. CASE \E p \in Process : WriteAcknowledged(p) \/ WriteFailed(p) \/ Timeout(p)
    BY <2>4, ReasonsStayTrue DEF WriteAcknowledged, WriteFailed, Timeout, TypeOK, IInv
  <2>5. CASE ServerStep
    BY <2>5, ReasonsStayTrue DEF ServerStep, ServerCreate, ServerGet, ServerUpdate,
       ServerRefuses, EditSecret, DeleteSecret, TypeOK, IInv
  <2>6. CASE Tick
    BY <2>6, ReasonsStayTrue DEF Tick, TypeOK, IInv
  <2>7. CASE UNCHANGED vars
    BY <2>7, ReasonsStayTrue DEF vars, TypeOK, IInv
  <2> QED
    BY <2>1, <2>2, <2>3, <2>4, <2>5, <2>6, <2>7 DEF Next
<1>3. ReasonInv => RefusalIsTrue
  BY DEF ReasonInv
<1> QED
  BY Invariance, <1>1, <1>2, <1>3, PTL DEF Spec

-----------------------------------------------------------------------------
(* TokenStore implements OneTimeToken *)

\* The abstract state, under names of its own.
Phase(c) == IF write[c] /= "applied" THEN "unborn"
            ELSE IF secrets[c].kind = "token" THEN "live" ELSE "revoked"
AcceptedJoins == {k \in Joiners : verdict[k] = "ok"}

\* A step that applies no write, deletes no secret and accepts no join is
\* invisible to the abstract token.
LEMMA Invisible ==
  ASSUME \A c \in Creators : Phase(c)' = Phase(c),
         \A j \in Joiners : /\ write'[j] = "applied" <=> write[j] = "applied"
                            /\ verdict'[j] = "ok" <=> verdict[j] = "ok"
                            /\ write[j] = "applied" \/ verdict[j] = "ok" => asked'[j] = asked[j]
  PROVE  UNCHANGED Promise!vars
<1>1. [c \in Creators |-> Phase(c)]' = [c \in Creators |-> Phase(c)]
  OBVIOUS
<1>2. \A c \in Creators : SpentBy(c)' = SpentBy(c)
  BY DEF SpentBy
<1>3. AcceptedJoins' = AcceptedJoins
  BY DEF AcceptedJoins
<1>4. {<<asked[j].id, j>> : j \in AcceptedJoins}' = {<<asked[j].id, j>> : j \in AcceptedJoins}
  BY <1>3 DEF AcceptedJoins
<1> QED
  BY <1>1, <1>2, <1>4 DEF Promise!vars, Phase, AcceptedJoins

\* The API server creates the secret: the token is issued.
LEMMA CreateIssues ==
  ASSUME IInv, NEW c \in Creators, ServerCreate(c)
  PROVE  Promise!Issue(c)
<1>1. record[c].kind = "token"
  BY DEF ServerCreate, CreatorInv, IInv
<1>2. /\ Phase(c) = "unborn" /\ Phase(c)' = "live"
      /\ \A d \in Creators \ {c} : Phase(d)' = Phase(d)
  BY <1>1 DEF ServerCreate, Phase, TypeOK, IInv
<1>3. [d \in Creators |-> Phase(d)]' = [[d \in Creators |-> Phase(d)] EXCEPT ![c] = "live"]
  BY <1>2
<1>4. \A d \in Creators : SpentBy(d)' = SpentBy(d)
  BY DEF ServerCreate, SpentBy, TypeOK, IInv
<1>5. UNCHANGED <<asked, verdict>>
  BY DEF ServerCreate
<1> QED
  BY <1>2, <1>3, <1>4, <1>5 DEF Promise!Issue, Phase

\* The secret is deleted: the token is revoked.
LEMMA DeleteRevokes ==
  ASSUME IInv, NEW id \in TokenIds, DeleteSecret(id)
  PROVE  id \in Creators /\ Promise!Revoke(id)
<1>1. id \in Creators /\ write[id] = "applied"
  BY DEF DeleteSecret, SecretInv, Descends, IInv
<1>2. /\ Phase(id) = "live" /\ Phase(id)' = "revoked"
      /\ \A d \in Creators \ {id} : Phase(d)' = Phase(d)
  BY <1>1 DEF DeleteSecret, Phase, TypeOK, IInv
<1>3. [d \in Creators |-> Phase(d)]' = [[d \in Creators |-> Phase(d)] EXCEPT ![id] = "revoked"]
  BY <1>1, <1>2
<1>4. \A d \in Creators : SpentBy(d)' = SpentBy(d)
  BY DEF DeleteSecret, SpentBy
<1>5. UNCHANGED <<asked, verdict>>
  BY DEF DeleteSecret
<1> QED
  BY <1>1, <1>2, <1>3, <1>4, <1>5 DEF Promise!Revoke, Phase

\* The API server applies a join's update: the join spends the token.
LEMMA UpdateSpends ==
  ASSUME IInv, IInv', NEW j \in Joiners, ServerUpdate(j)
  PROVE  asked[j].id \in Creators /\ Promise!Spend(asked[j].id, j)
<1> DEFINE id == asked[j].id
<1>1. /\ asked[j] \in Request /\ seen[j] \in TokenSecret /\ ~seen[j].consumed
      /\ UpdatedSecret(j) \in TokenSecret
      /\ Descends(seen[j], id)
  BY SentUpdate DEF ServerUpdate, JoinerInv, SeenInv, IInv
<1>2. id \in Creators /\ write[id] = "applied" /\ id /= j /\ write[j] = "sent"
  BY <1>1 DEF Descends, ServerUpdate
<1>3. secrets[id].kind = "token" /\ SpentBy(id) = {}
  <2>1. secrets[id] \in TokenSecret /\ secrets[id].version = seen[j].version
    BY <1>1 DEF ServerUpdate, VersionMatches, SentVersion, TypeOK, IInv
  <2> QED
    BY <1>1, <2>1 DEF SeenInv, SecretInv, IInv
<1>4. /\ secrets' = [secrets EXCEPT ![id] = UpdatedSecret(j)]
      /\ write' = [write EXCEPT ![j] = "applied"]
      /\ UNCHANGED <<asked, verdict>>
  BY DEF ServerUpdate
<1>5. \A d \in Creators : Phase(d)' = Phase(d)
  BY <1>1, <1>2, <1>3, <1>4 DEF Phase, TypeOK, IInv
<1>6. SpentBy(id)' = {j} /\ \A d \in Creators \ {id} : SpentBy(d)' = SpentBy(d)
  BY <1>2, <1>3, <1>4 DEF SpentBy, TypeOK, IInv
<1>7. [d \in Creators |-> SpentBy(d)]' = [[d \in Creators |-> SpentBy(d)] EXCEPT ![id] = {j}]
  BY <1>2, <1>4, <1>6
<1>8. [d \in Creators |-> Phase(d)]' = [d \in Creators |-> Phase(d)]
  BY <1>5
<1>9. Phase(id) = "live"
  BY <1>2, <1>3 DEF Phase
<1> QED
  BY <1>2, <1>3, <1>4, <1>7, <1>8, <1>9 DEF Promise!Spend, Phase

\* A join takes the server's answer in time: it is accepted.
LEMMA AcknowledgedIsAccepted ==
  ASSUME IInv, NEW j \in Joiners, WriteAcknowledged(j)
  PROVE  asked[j].id \in Creators /\ Promise!Accept(asked[j].id, j)
<1> DEFINE id == asked[j].id
<1>1. write[j] = "applied" /\ id \in Creators
  BY DEF WriteAcknowledged, JoinerInv, SeenInv, Descends, IInv
<1>2. /\ verdict' = [verdict EXCEPT ![j] = "ok"]
      /\ UNCHANGED <<secrets, write, asked>>
  BY DEF WriteAcknowledged
<1>3. AcceptedJoins' = AcceptedJoins \cup {j}
  BY <1>2 DEF AcceptedJoins, TypeOK, IInv
<1>4. {<<asked[k].id, k>> : k \in AcceptedJoins}'
        = {<<asked[k].id, k>> : k \in AcceptedJoins} \cup {<<id, j>>}
  BY <1>2, <1>3
<1>5. \A d \in Creators : SpentBy(d)' = SpentBy(d) /\ Phase(d)' = Phase(d)
  BY <1>2 DEF SpentBy, Phase
<1>6. j \in SpentBy(id)
  BY <1>1 DEF SpentBy
<1> QED
  BY <1>1, <1>4, <1>5, <1>6 DEF Promise!Accept, Phase, AcceptedJoins

\* KubeStore, with the API server under it, implements the one-time token: the
\* server's create, update and delete are its steps, all else is invisible.
THEOREM ImplementsPromise == Spec => KeepsPromise
<1>1. Init => Promise!Init
  <2> SUFFICES ASSUME Init PROVE Promise!Init
    OBVIOUS
  <2>1. \A c \in Creators : SpentBy(c) = {}
    BY DEF Init, SpentBy
  <2> QED
    BY <2>1 DEF Init, Promise!Init
<1>2. IInv /\ IInv' /\ [Next]_vars => [Promise!Next]_(Promise!vars)
  <2> SUFFICES ASSUME IInv, IInv', [Next]_vars
               PROVE  Promise!Next \/ UNCHANGED Promise!vars
    OBVIOUS
  <2>1. CASE \E c \in Creators : ServerCreate(c)
    BY <2>1, CreateIssues DEF Promise!Next
  <2>2. CASE \E id \in TokenIds : DeleteSecret(id)
    BY <2>2, DeleteRevokes DEF Promise!Next
  <2>3. CASE \E j \in Joiners : ServerUpdate(j)
    BY <2>3, UpdateSpends DEF Promise!Next
  <2>4. CASE \E j \in Joiners : WriteAcknowledged(j)
    BY <2>4, AcknowledgedIsAccepted DEF Promise!Next
  <2>5. CASE \E c \in Creators : CreatorStep(c) \/ WriteAcknowledged(c)
    BY <2>5, Invisible DEF CreatorStep, RejectCreate, StartCreate, CreateInMemory,
       ReportCreate, WriteAcknowledged, Phase, CreatorInv, TypeOK, IInv
  <2>6. CASE \E j \in Joiners : JoinerStep(j)
    BY <2>6, Invisible DEF JoinerStep, RejectJoin, StartJoin, JoinInMemory, GetRefused,
       Refuse, Refusal, SendUpdate, ReportJoin, Phase, JoinerInv, TypeOK, IInv
  <2>7. CASE \E p \in Process : WriteFailed(p) \/ Timeout(p) \/ ServerRefuses(p)
    BY <2>7, Invisible DEF WriteFailed, Timeout, ServerRefuses, Phase, JoinerInv, TypeOK, IInv
  <2>8. CASE \E j \in Joiners : ServerGet(j)
    BY <2>8, Invisible DEF ServerGet, Phase
  <2>9. CASE \E id \in TokenIds : EditSecret(id)
    BY <2>9, Invisible DEF EditSecret, Phase, TypeOK, IInv
  <2>10. CASE Tick \/ UNCHANGED vars
    BY <2>10, Invisible DEF Tick, vars, Phase
  <2> QED
    BY <2>1, <2>2, <2>3, <2>4, <2>5, <2>6, <2>7, <2>8, <2>9, <2>10 DEF Next, ServerStep
<1> QED
  BY Invariance, <1>1, <1>2, PTL DEF Spec, KeepsPromise, Promise!Spec
=============================================================================
