---------------------------- MODULE Session_proofs ----------------------------
(***************************************************************************)
(* Proofs about Session for every set of keys, scope arguments, intervals *)
(* and bounds.                                                             *)
(***************************************************************************)
EXTENDS Session, TLAPS

(* CREATE's scope completion always yields a revocable list.              *)
LEMMA WithRequiredScopeRevocable ==
    ASSUME NEW scopes \in Seq(Seq(STRING))
    PROVE  Revocable(WithRequiredScope(scopes))
<1>1. CASE \E i \in DOMAIN scopes : scopes[i] \in {AllOx3, RequiredScope}
  BY <1>1 DEF WithRequiredScope, Revocable
<1>2. CASE ~\E i \in DOMAIN scopes : scopes[i] \in {AllOx3, RequiredScope}
  <2>1. /\ Len(scopes) + 1 \in DOMAIN Append(scopes, RequiredScope)
        /\ Append(scopes, RequiredScope)[Len(scopes) + 1] = RequiredScope
    OBVIOUS
  <2>2. QED
    BY <1>2, <2>1 DEF WithRequiredScope, Revocable
<1>3. QED
  BY <1>1, <1>2

(* A session record: the five fields SessionRec and FromJson give it.     *)
IsSession(s) ==
    s = [key |-> s.key, scopes |-> s.scopes, interval |-> s.interval,
         created |-> s.created, last |-> s.last]

(* Every session the caller holds is a session record, and every object *)
(* ToJSON wrote carries a revocable scope list, so that FromJson can only *)
(* give back revocable sessions.                                           *)
IInv ==
    /\ SessionsRevocable
    /\ \A s \in held : IsSession(s)
    /\ \A j \in stored : Revocable(j.scopes)
    /\ restored # NoRestore /\ restored.got # NoSession => IsSession(restored.got)

LEMMA InitIInv == Init => IInv
  BY DEF Init, IInv, SessionsRevocable

LEMMA NextIInv == IInv /\ [Next]_vars => IInv'
<1> SUFFICES ASSUME IInv, [Next]_vars PROVE IInv'
  OBVIOUS
<1> USE DEF IInv, SessionsRevocable
<1>1. ASSUME NEW scopes \in ScopeArgs, NEW i \in Intervals,
             NEW kp \in UserKeys \cup {NoKey}, NEW o \in Outcomes,
             Create(scopes, i, kp, o)
      PROVE  IInv'
  <2>1. Revocable(WithRequiredScope(scopes))
    BY WithRequiredScopeRevocable, SessionAssumption
  <2>2. PICK k \in IF kp = NoKey THEN GenerateKeypair ELSE {kp} :
          /\ chain' = IF o \in {"executed", "lost"} /\ chain[k] = NoSession
                      THEN [chain EXCEPT ![k] = [scopes |-> WithRequiredScope(scopes),
                                                  interval |-> EffectiveInterval(i)]]
                      ELSE chain
          /\ held' = IF Returned(o)
                     THEN held \cup {SessionRec(k, WithRequiredScope(scopes), EffectiveInterval(i))}
                     ELSE held
          /\ UNCHANGED <<stored, restored>>
    BY <1>1 DEF Create
  <2>3. QED
    BY <2>1, <2>2 DEF SessionRec, IsSession
<1>2. ASSUME NEW scopes \in ScopeArgs, CreateRejected(scopes) PROVE IInv'
  BY <1>2 DEF CreateRejected
<1>3. ASSUME NEW s \in held, Sign(s) PROVE IInv'
  <2>1. IsSession(s)
    OBVIOUS
  <2>2. /\ IsSession([s EXCEPT !.last = now])
        /\ [s EXCEPT !.last = now].scopes = s.scopes
    BY <2>1 DEF IsSession
  <2>3. QED
    BY <1>3, <2>2 DEF Sign
<1>4. ASSUME NEW s \in held, ToJSON(s) PROVE IInv'
  BY <1>4 DEF ToJSON
<1>5. ASSUME NEW j \in stored, FromJson(j) PROVE IInv'
  <2>1. CASE FromSecretKeyOk(j.secretKey)
    <3>1. restored'.got = [key |-> j.secretKey.key, scopes |-> j.scopes,
                           interval |-> j.interval, created |-> j.created,
                           last |-> j.last]
      BY <1>5, <2>1 DEF FromJson
    <3>2. IsSession(restored'.got) /\ Revocable(restored'.got.scopes)
      BY <3>1 DEF IsSession
    <3>3. QED
      BY <1>5, <2>1, <3>2 DEF FromJson
  <2>5. CASE ~FromSecretKeyOk(j.secretKey)
    BY <1>5, <2>5 DEF FromJson
  <2>6. QED
    BY <2>1, <2>5
<1>6. ASSUME NEW k \in Keys, NEW a \in AuthKeyArgs(k), NEW o \in Outcomes,
             RemoveSession(a, o)
      PROVE  IInv'
  BY <1>6 DEF RemoveSession
<1>7. CASE Tick
  BY <1>7 DEF Tick
<1>8. CASE UNCHANGED vars
  BY <1>8 DEF vars
<1>9. QED
  BY <1>1, <1>2, <1>3, <1>4, <1>5, <1>6, <1>7, <1>8 DEF Next

(* Whatever scopes CREATE is given, however sessions are signed with,     *)
(* saved, restored and removed, every session key the node holds and      *)
(* every session the caller holds may call remove_session_key_entry       *)
(* (session.go:51-61).                                                     *)
THEOREM SessionsRevocableHolds == Spec => []SessionsRevocable
<1>1. IInv => SessionsRevocable
  BY DEF IInv
<1>2. QED
  BY InitIInv, NextIInv, <1>1, PTL DEF Spec

-----------------------------------------------------------------------------
(* The session an object ToJSON wrote would give back: key, scopes and    *)
(* interval.                                                               *)
SavedSession(j) == [key |-> j.secretKey.key, scopes |-> j.scopes, interval |-> j.interval]

(* IInv, and every saved object stands for a session the caller holds,   *)
(* so that FromJson cannot add a session the node did not register.      *)
RInv ==
    /\ IInv
    /\ \A j \in stored : SavedSession(j) \in IssuedSessions
(* The key, scopes and interval of a session record.                      *)
Issued(s) == [key |-> s.key, scopes |-> s.scopes, interval |-> s.interval]

LEMMA IssuedSessionsDef ==
    \A x : x \in IssuedSessions <=> \E s \in held : x = Issued(s)
  BY DEF IssuedSessions, Issued

(* The sessions handed out change only with the sessions held.          *)
LEMMA HeldUnchanged ==
    ASSUME held' = held PROVE IssuedSessions' = IssuedSessions
  BY DEF IssuedSessions

(* A session added to the held ones adds its key, scopes and interval.    *)
LEMMA IssuedAdd ==
    ASSUME NEW r, held' = held \cup {r}
    PROVE  IssuedSessions' = IssuedSessions \cup {Issued(r)}
<1>1. \A x : x \in IssuedSessions' <=> x \in IssuedSessions \cup {Issued(r)}
  BY DEF IssuedSessions, Issued
<1>2. QED
  BY <1>1

(* A step that changes neither the entries nor the held sessions is a    *)
(* stutter of the registry.                                                *)
LEMMA RegistryStutter ==
    ASSUME chain' = chain, held' = held PROVE [Registry!Next]_Registry!vars
  BY HeldUnchanged DEF Registry!vars

(* CREATE's default never leaves a zero interval.                          *)
LEMMA EffectiveIntervalNonZero ==
    ASSUME NEW i PROVE EffectiveInterval(i) # 0
  BY DEF EffectiveInterval, DefaultMaxInactiveInterval

(* The entry CREATE asks the node to write is one the registry allows.    *)
LEMMA CreateEntryValid ==
    ASSUME NEW scopes \in ScopeArgs, NEW i \in Intervals
    PROVE  LET e == [scopes |-> WithRequiredScope(scopes), interval |-> EffectiveInterval(i)]
           IN  /\ e \in [scopes : ScopeLists, interval : EffectiveIntervals]
               /\ Registry!ValidEntry(e)
<1>1. Revocable(WithRequiredScope(scopes))
  BY WithRequiredScopeRevocable, SessionAssumption
<1>2. Registry!GrantsRemoval(WithRequiredScope(scopes))
  BY <1>1 DEF Revocable, Registry!GrantsRemoval, Registry!RemovePermissions,
     AllOx3, RequiredScope
<1>3. WithRequiredScope(scopes) \in ScopeLists
  BY DEF WithRequiredScope, ScopeLists
<1>4. EffectiveInterval(i) \in EffectiveIntervals
  BY DEF EffectiveIntervals
<1>5. QED
  BY <1>2, <1>3, <1>4, EffectiveIntervalNonZero DEF Registry!ValidEntry

LEMMA InitRInv == Init => RInv
  BY InitIInv DEF Init, RInv

(* Signing replaces a held session by one that differs only in its last *)
(* active time, so the sessions handed out stay the same.                 *)
LEMMA SignKeepsIssued ==
    ASSUME IInv, NEW s \in held, Sign(s)
    PROVE  IssuedSessions' = IssuedSessions
<1> DEFINE s2 == [s EXCEPT !.last = now]
<1>1. IsSession(s)
  BY DEF IInv
<1>2. Issued(s2) = Issued(s)
  BY <1>1 DEF IsSession, Issued
<1>3. held' = (held \ {s}) \cup {s2}
  BY DEF Sign
<1>4. \A x : x \in IssuedSessions' <=> \E t \in held' : x = Issued(t)
  BY DEF IssuedSessions, Issued
<1>5. \A x : (\E t \in held' : x = Issued(t)) <=> (\E t \in held : x = Issued(t))
  BY <1>2, <1>3
<1>6. QED
  BY <1>4, <1>5, IssuedSessionsDef

(* No step takes a session away from the ones handed out.                 *)
LEMMA IssuedGrows ==
    ASSUME RInv, [Next]_vars PROVE IssuedSessions \subseteq IssuedSessions'
<1>1. SUFFICES ASSUME held \subseteq held' \/ IssuedSessions' = IssuedSessions
               PROVE  IssuedSessions \subseteq IssuedSessions'
  <2>1. ASSUME NEW sc \in ScopeArgs, NEW i \in Intervals,
               NEW kp \in UserKeys \cup {NoKey}, NEW o \in Outcomes,
               Create(sc, i, kp, o)
        PROVE  held \subseteq held'
    BY <2>1 DEF Create
  <2>2. ASSUME NEW s \in held, Sign(s) PROVE IssuedSessions' = IssuedSessions
    BY <2>2, SignKeepsIssued DEF RInv
  <2>3. ASSUME NEW j \in stored, FromJson(j) PROVE held \subseteq held'
    BY <2>3 DEF FromJson
  <2>4. QED
    BY <2>1, <2>2, <2>3 DEF Next, vars, CreateRejected, ToJSON, RemoveSession, Tick
<1>2. QED
  BY <1>1 DEF IssuedSessions

LEMMA NextRInv == RInv /\ [Next]_vars => RInv'
<1> SUFFICES ASSUME RInv, [Next]_vars PROVE RInv'
  OBVIOUS
<1>1. IInv'
  BY NextIInv DEF RInv
<1>2. IssuedSessions \subseteq IssuedSessions'
  BY IssuedGrows
<1>3. ASSUME NEW s \in held, ToJSON(s) PROVE RInv'
  <2>1. IsSession(s)
    BY DEF RInv, IInv
  <2>2. SavedSession([secretKey |-> JsonBytes(SecretKeyBytes(s.key)), scopes |-> s.scopes,
                      interval |-> s.interval, created |-> s.created, last |-> s.last,
                      of |-> s]) \in IssuedSessions
    BY <2>1 DEF SavedSession, JsonBytes, SecretKeyBytes, IssuedSessions
  <2>3. QED
    BY <1>1, <1>2, <1>3, <2>2 DEF ToJSON, RInv
<1>4. CASE ~\E s \in held : ToJSON(s)
  <2>1. stored' = stored
    BY <1>4 DEF Next, vars, Create, CreateRejected, Sign, FromJson, RemoveSession, Tick
  <2>2. QED
    BY <1>1, <1>2, <2>1 DEF RInv
<1>5. QED
  BY <1>3, <1>4

(* Every step of the client and of the node is a step of the registry or *)
(* leaves its entries and the handed-out sessions as they are.            *)
LEMMA NextRefines == RInv /\ [Next]_vars => [Registry!Next]_Registry!vars
<1> SUFFICES ASSUME RInv, [Next]_vars PROVE [Registry!Next]_Registry!vars
  OBVIOUS
<1> USE DEF Registry!vars
<1>1. ASSUME NEW sc \in ScopeArgs, NEW i \in Intervals,
             NEW kp \in UserKeys \cup {NoKey}, NEW o \in Outcomes,
             Create(sc, i, kp, o)
      PROVE  [Registry!Next]_Registry!vars
  <2> DEFINE e == [scopes |-> WithRequiredScope(sc), interval |-> EffectiveInterval(i)]
  <2> USE DEF e
  <2>1. e \in [scopes : ScopeLists, interval : EffectiveIntervals] /\ Registry!ValidEntry(e)
    BY CreateEntryValid
  <2>2. PICK k \in IF kp = NoKey THEN GenerateKeypair ELSE {kp} :
          /\ o = "executed" => chain[k] = NoSession
          /\ chain' = IF o \in {"executed", "lost"} /\ chain[k] = NoSession
                      THEN [chain EXCEPT ![k] = e] ELSE chain
          /\ held' = IF Returned(o)
                     THEN held \cup {SessionRec(k, WithRequiredScope(sc), EffectiveInterval(i))}
                     ELSE held
    BY <1>1 DEF Create
  <2>3. k \in Keys
    BY <2>2 DEF GenerateKeypair, Keys
  <2>4. CASE o = "executed"
    <3>0. PICK r : r = SessionRec(k, WithRequiredScope(sc), EffectiveInterval(i))
      OBVIOUS
    <3>1. held' = held \cup {r}
      BY <2>2, <2>4, <3>0 DEF Returned
    <3>2. IssuedSessions' = IssuedSessions \cup {Issued(r)}
      BY ONLY <3>1, IssuedAdd
    <3>3. IssuedSessions' = IssuedSessions \cup
            {[key |-> k, scopes |-> e.scopes, interval |-> e.interval]}
      BY <3>0, <3>2 DEF SessionRec, Issued
    <3>4. Registry!RegisterAndReturn(k, e)
      BY <2>1, <2>2, <2>4, <3>3 DEF Registry!RegisterAndReturn
    <3>5. QED
      BY <2>1, <2>3, <3>4 DEF Registry!Next
  <2>5. CASE o = "lost" /\ chain[k] = NoSession
    <3>0. held' = held /\ chain' = [chain EXCEPT ![k] = e]
      BY <2>2, <2>5 DEF Returned
    <3>1. Registry!Register(k, e)
      BY <2>1, <2>5, <3>0, HeldUnchanged DEF Registry!Register
    <3>2. QED
      BY <2>1, <2>3, <3>1 DEF Registry!Next
  <2>6. CASE o # "executed" /\ ~(o = "lost" /\ chain[k] = NoSession)
    <3>1. chain' = chain /\ held' = held
      BY <2>2, <2>6 DEF Returned
    <3>2. QED
      BY <3>1, RegistryStutter
  <2>7. QED
    BY <2>4, <2>5, <2>6
<1>2. ASSUME NEW s \in held, Sign(s) PROVE [Registry!Next]_Registry!vars
  BY <1>2, SignKeepsIssued DEF Sign, RInv
<1>3. ASSUME NEW j \in stored, FromJson(j) PROVE [Registry!Next]_Registry!vars
  <2>1. CASE FromSecretKeyOk(j.secretKey)
    <3>1. held' = held \cup {[key |-> j.secretKey.key, scopes |-> j.scopes,
                             interval |-> j.interval, created |-> j.created,
                             last |-> j.last]}
      BY <1>3, <2>1 DEF FromJson
    <3>2. SavedSession(j) \in IssuedSessions
      BY DEF RInv
    <3>3. PICK r : r = [key |-> j.secretKey.key, scopes |-> j.scopes,
                        interval |-> j.interval, created |-> j.created,
                        last |-> j.last]
      OBVIOUS
    <3>4. IssuedSessions' = IssuedSessions \cup {Issued(r)}
      BY ONLY <3>1, <3>3, IssuedAdd
    <3>5. Issued(r) = SavedSession(j)
      BY <3>3 DEF Issued, SavedSession
    <3>6. IssuedSessions' = IssuedSessions
      BY <3>2, <3>4, <3>5
    <3>7. QED
      BY <1>3, <3>6 DEF FromJson, Registry!vars
  <2>2. CASE ~FromSecretKeyOk(j.secretKey)
    BY <1>3, <2>2, RegistryStutter DEF FromJson
  <2>3. QED
    BY <2>1, <2>2
<1>4. ASSUME NEW k \in Keys, NEW a \in AuthKeyArgs(k), NEW o \in Outcomes,
             RemoveSession(a, o)
      PROVE  [Registry!Next]_Registry!vars
  <2>1. a.key = k
    BY DEF AuthKeyArgs, GetAuthKey
  <2>2. CASE ~a.prefixed /\ o \in {"executed", "lost"}
    <3>1. Registry!Remove(k)
      BY <1>4, <2>1, <2>2, HeldUnchanged DEF RemoveSession, Registry!Remove
    <3>2. QED
      BY <3>1 DEF Registry!Next
  <2>3. CASE ~(~a.prefixed /\ o \in {"executed", "lost"})
    BY <1>4, <2>3, RegistryStutter DEF RemoveSession
  <2>4. QED
    BY <2>2, <2>3
<1>5. ASSUME NEW s \in held, ToJSON(s) PROVE [Registry!Next]_Registry!vars
  BY <1>5, RegistryStutter DEF ToJSON
<1>6. ASSUME NEW sc \in ScopeArgs, CreateRejected(sc) PROVE [Registry!Next]_Registry!vars
  BY <1>6, RegistryStutter DEF CreateRejected
<1>7. CASE Tick
  BY <1>7, RegistryStutter DEF Tick
<1>8. CASE UNCHANGED vars
  BY <1>8, RegistryStutter DEF vars
<1>9. QED
  BY <1>1, <1>2, <1>3, <1>4, <1>5, <1>6, <1>7, <1>8 DEF Next

(* Session creation and removal through the SDK, with every answer the    *)
(* node may give and any use of the sessions on the caller's side,        *)
(* implement the session registry (session.go CREATE and build,           *)
(* client.go RemoveSession).                                               *)
THEOREM SessionRegistryRefinement == Spec => ImplementsSessionRegistry
<1>1. Init => Registry!Init
  BY DEF Init, Registry!Init, IssuedSessions
<1>2. QED
  BY <1>1, InitRInv, NextRInv, NextRefines, PTL DEF Spec, ImplementsSessionRegistry, Registry!Spec
=============================================================================
