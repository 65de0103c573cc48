------------------------------- MODULE Session ------------------------------
(***************************************************************************)
(* Session keys (session/session.go) and their removal through the client *)
(* (client/client.go RemoveSession).  A scope string is abstracted to the *)
(* sequence of its "::"-separated parts, which is what strings.Contains   *)
(* and strings.Split look at.  A keypair is a model value; its secret key *)
(* is a byte string of PrivateKeySize bytes.  The node that executes the  *)
(* session transactions is an environment: SignAndExecuteTransaction     *)
(* (called at session.go:207 and client.go:222, defined in no file of the *)
(* package) returns "executed", a status other than executed ("aborted"), *)
(* a transport error before the node saw the transaction ("failed"), or a *)
(* transport error after the node executed it ("lost", the response      *)
(* could not be read).  The node refuses to create a session key that     *)
(* already exists.                                                         *)
(***************************************************************************)
EXTENDS Integers, Sequences, FiniteSets

CONSTANTS UserKeys, GenKeys, ScopeArgs, Intervals, MaxTime, MaxCreates, NoKey, NoSession, NoRestore

RequiredScope == <<"0x3", "session_key", "remove_session_key_entry">>

AllOx3 == <<"0x3", "*", "*">>

DefaultMaxInactiveInterval == 1200

PrivateKeySize == 32

ASSUME SessionAssumption ==
    /\ MaxTime \in Nat
    /\ MaxCreates \in Nat
    /\ Intervals \subseteq Int
    /\ ScopeArgs \subseteq Seq(Seq(STRING))
    /\ UserKeys \cap GenKeys = {}
    /\ NoKey \notin UserKeys \cup GenKeys

Keys == UserKeys \cup GenKeys

Outcomes == {"executed", "aborted", "failed", "lost"}

-----------------------------------------------------------------------------
(* CREATE, lines 43-49: every scope must contain "::".                     *)
ScopesWellFormed(scopes) == \A i \in DOMAIN scopes : Len(scopes[i]) >= 2

(* Mutant: the required scope is never appended.                           *)
WithRequiredScopeDropped(scopes) == scopes

(* Lines 51-61: RequiredScope is appended unless the scopes already hold  *)
(* it or the 0x3 wildcard.                                                 *)
WithRequiredScope(scopes) ==
    IF \E i \in DOMAIN scopes : scopes[i] \in {AllOx3, RequiredScope}
    THEN scopes ELSE Append(scopes, RequiredScope)

(* Mutant: a zero interval is kept instead of the default.                *)
EffectiveIntervalNoDefault(i) == i

(* Lines 63-66.                                                            *)
EffectiveInterval(i) == IF i = 0 THEN DefaultMaxInactiveInterval ELSE i

(* build, lines 173-181: every scope must split into exactly three parts. *)
BuildScopesOk(scopes) == \A i \in DOMAIN scopes : Len(scopes[i]) = 3

(* build, lines 207-216: CREATE returns the session only when            *)
(* SignAndExecuteTransaction returned no error and the executed status.   *)
Returned(outcome) == outcome = "executed"

(* ToJSON: encoding/json writes the []byte that GetSecretKey returns as   *)
(* a base64 string, 4 characters for every 3 bytes or part of them.       *)
SecretKeyBytes(k) == [text |-> "raw", key |-> k, len |-> PrivateKeySize]

JsonBytes(b) == [text |-> "base64", key |-> b.key, len |-> 4 * ((b.len + 2) \div 3)]

(* FromJson: ed25519.FromSecretKey([]byte(s)) takes the bytes of the      *)
(* string as they are and refuses any length other than PrivateKeySize;   *)
(* a 32-byte seed always passes the sign-and-verify validation.           *)
FromSecretKeyOk(b) == b.len = PrivateKeySize

(* GetAuthKey: ToHexAddress of the key's Rooch address: toHex writes the  *)
(* "0x" prefix and normalizeRoochAddress (not in the repository) is taken *)
(* to keep it, as the 0x-prefixed scopes of this file do.                  *)
GetAuthKey(k) == [key |-> k, prefixed |-> TRUE]

(* The auth keys a caller may pass to RemoveSession: the one GetAuthKey   *)
(* returns, or the bare hex of the same address.                          *)
AuthKeyArgs(k) == {GetAuthKey(k), [key |-> k, prefixed |-> FALSE]}

-----------------------------------------------------------------------------
VARIABLES chain, held, stored, restored, generated, now, ret, creates

vars == <<chain, held, stored, restored, generated, now, ret, creates>>

SessionRec(k, scopes, interval) ==
    [key |-> k, scopes |-> scopes, interval |-> interval,
     created |-> now, last |-> now]

(* ed25519.GenerateKeypair (NewEd25519Keypair(nil)): a key drawn from     *)
(* crypto/rand, never one drawn before.                                    *)
GenerateKeypair == GenKeys \ generated

Init ==
    /\ chain = [k \in Keys |-> NoSession]
    /\ held = {}
    /\ stored = {}
    /\ restored = NoRestore
    /\ generated = {}
    /\ now = 0
    /\ ret = "none"
    /\ creates = 0

(* CREATE(client, signer, args): args.Keypair is kp, or NoKey when nil,   *)
(* and then GenerateKeypair draws a fresh key.  build then submits the    *)
(* create_session_key_with_multi_scope_entry transaction.                 *)
Create(scopes, interval, kp, outcome) ==
    LET parsed == WithRequiredScope(scopes)
        maxI == EffectiveInterval(interval)
    IN
    \E k \in IF kp = NoKey THEN GenerateKeypair ELSE {kp} :
       /\ creates < MaxCreates
       /\ creates' = creates + 1
       /\ ScopesWellFormed(scopes)
       /\ BuildScopesOk(parsed)
       /\ outcome = "executed" => chain[k] = NoSession
       /\ generated' = IF kp = NoKey THEN generated \cup {k} ELSE generated
       /\ chain' = IF outcome \in {"executed", "lost"} /\ chain[k] = NoSession
                   THEN [chain EXCEPT ![k] = [scopes |-> parsed, interval |-> maxI]]
                   ELSE chain
       /\ held' = IF Returned(outcome)
                  THEN held \cup {SessionRec(k, parsed, maxI)}
                  ELSE held
       /\ ret' = IF Returned(outcome) THEN "ok" ELSE "error"
       /\ UNCHANGED <<stored, restored, now>>

(* A CREATE that fails before any transaction: a scope without "::", a    *)
(* scope that does not split into three parts.                             *)
CreateRejected(scopes) ==
    /\ creates < MaxCreates
    /\ creates' = creates + 1
    /\ ~ScopesWellFormed(scopes) \/ ~BuildScopesOk(WithRequiredScope(scopes))
    /\ ret' = "invalid scope format"
    /\ UNCHANGED <<chain, held, stored, restored, generated, now>>

(* Sign: s.lastActiveTime = time.Now().UnixMilli(), then keypair.Sign.    *)
Sign(s) ==
    /\ held' = (held \ {s}) \cup {[s EXCEPT !.last = now]}
    /\ UNCHANGED <<chain, stored, restored, generated, now, ret, creates>>

Tick ==
    /\ now < MaxTime
    /\ now' = now + 1
    /\ UNCHANGED <<chain, held, stored, restored, generated, ret, creates>>

(* ToJSON; of records which session the object was written from.          *)
ToJSON(s) ==
    /\ stored' = stored \cup
         {[secretKey |-> JsonBytes(SecretKeyBytes(s.key)), scopes |-> s.scopes,
           interval |-> s.interval, created |-> s.created, last |-> s.last,
           of |-> s]}
    /\ UNCHANGED <<chain, held, restored, generated, now, ret, creates>>

(* FromJson on a stored object; a failure is recorded as NoSession.  The *)
(* int64 times and interval go through float64, exact below 2^53.        *)
FromJson(j) ==
    /\ restored' =
         IF FromSecretKeyOk(j.secretKey)
         THEN [from |-> j.of,
               got |-> [key |-> j.secretKey.key, scopes |-> j.scopes,
                        interval |-> j.interval, created |-> j.created,
                        last |-> j.last]]
         ELSE [from |-> j.of, got |-> NoSession]
    /\ held' = IF FromSecretKeyOk(j.secretKey) THEN held \cup {restored'.got} ELSE held
    /\ UNCHANGED <<chain, stored, generated, now, ret, creates>>

(* RemoveSession(authKey, signer): hex.DecodeString(authKey) fails on a  *)
(* "0x" prefix and returns the error; otherwise remove_session_key_entry  *)
(* is submitted and the result is true only for an executed status.       *)
RemoveSession(authKey, outcome) ==
    LET k == authKey.key IN
    /\ ~authKey.prefixed /\ outcome = "executed" => chain[k] # NoSession
    /\ chain' = IF ~authKey.prefixed /\ outcome \in {"executed", "lost"}
                THEN [chain EXCEPT ![k] = NoSession] ELSE chain
    /\ ret' = CASE authKey.prefixed \/ outcome \in {"failed", "lost"} -> "error"
                 [] outcome = "executed" -> "true"
                 [] OTHER -> "false"
    /\ UNCHANGED <<held, stored, restored, generated, now, creates>>

Next ==
    \/ \E scopes \in ScopeArgs, i \in Intervals, kp \in UserKeys \cup {NoKey},
          o \in Outcomes : Create(scopes, i, kp, o)
    \/ \E scopes \in ScopeArgs : CreateRejected(scopes)
    \/ \E s \in held : Sign(s) \/ ToJSON(s)
    \/ \E j \in stored : FromJson(j)
    \/ \E k \in Keys : \E a \in AuthKeyArgs(k), o \in Outcomes : RemoveSession(a, o)
    \/ Tick

Spec == Init /\ [][Next]_vars

-----------------------------------------------------------------------------
ScopeLists == ScopeArgs \cup {Append(a, RequiredScope) : a \in ScopeArgs}

EffectiveIntervals == {EffectiveInterval(i) : i \in Intervals}

SessionRecs ==
    [key : Keys, scopes : ScopeLists, interval : EffectiveIntervals,
     created : 0..MaxTime, last : 0..MaxTime]

TypeOK ==
    /\ chain \in [Keys -> {NoSession} \cup
                     [scopes : ScopeLists, interval : EffectiveIntervals]]
    /\ held \subseteq SessionRecs
    /\ stored \subseteq
         [secretKey : [text : {"raw", "base64"}, key : Keys, len : Nat],
          scopes : ScopeLists, interval : EffectiveIntervals,
          created : 0..MaxTime, last : 0..MaxTime, of : SessionRecs]
    /\ restored \in {NoRestore} \cup [from : SessionRecs, got : SessionRecs \cup {NoSession}]
    /\ generated \subseteq GenKeys
    /\ now \in 0..MaxTime
    /\ ret \in {"none", "ok", "error", "invalid scope format", "true", "false"}
    /\ creates \in 0..MaxCreates

(* The scope list has the removal permission when it holds RequiredScope  *)
(* or the 0x3 wildcard.                                                    *)
Revocable(scopes) == \E i \in DOMAIN scopes : scopes[i] \in {AllOx3, RequiredScope}

(* Every session key the node registered for the account, and every      *)
(* session the caller holds (created or restored), carries the            *)
(* permission to call remove_session_key_entry, so that the key can be    *)
(* revoked with itself (CREATE, lines 51-61, whatever the caller passed). *)
SessionsRevocable ==
    /\ \A k \in Keys : chain[k] # NoSession => Revocable(chain[k].scopes)
    /\ \A s \in held : Revocable(s.scopes)

(* A session written with ToJSON is read back by FromJson as the same     *)
(* session: same key, scopes, interval and times.                         *)
SessionRestorable == restored # NoRestore => restored.got = restored.from

(* The sessions the caller holds, as key, scopes and interval.            *)
IssuedSessions == {[key |-> s.key, scopes |-> s.scopes, interval |-> s.interval] : s \in held}

Registry == INSTANCE SessionRegistry WITH
    registry <- chain, issued <- IssuedSessions,
    Entries <- [scopes : ScopeLists, interval : EffectiveIntervals]

(* CREATE, build and RemoveSession, over every outcome of the node, and   *)
(* Sign, ToJSON and FromJson on the caller's side, behave as the session  *)
(* registry: CREATE writes a key's entry only where the node had none,    *)
(* with the removal permission and a non-zero interval (session.go:51-66),*)
(* no step but a removal changes a written entry, and every session the   *)
(* caller holds was handed out by a CREATE that registered it with the    *)
(* same key, scopes and interval (session.go:207-216); signing, saving    *)
(* and restoring never yield a session the node did not register.        *)
ImplementsSessionRegistry == Registry!Spec

=============================================================================
