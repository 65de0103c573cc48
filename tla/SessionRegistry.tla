--------------------------- MODULE SessionRegistry ---------------------------
(***************************************************************************)
(* What session creation and removal (session/session.go CREATE and      *)
(* build, client/client.go RemoveSession) promise, with no scope parsing, *)
(* key generation, JSON or transport in it: the node keeps at most one    *)
(* entry per session key; an entry is written only where there was none,  *)
(* always grants remove_session_key_entry and has a non-zero inactivity   *)
(* interval, and stays as it is until it is removed.  The sessions the    *)
(* SDK has handed to its caller, as key, scopes and interval, are exactly *)
(* entries the node registered when they were handed out: a session is    *)
(* handed out only with its registration, and never made up later.       *)
(***************************************************************************)
CONSTANTS
    Keys,       \* the session keys
    Entries,    \* the entries (scopes and interval) the node may be asked to write
    NoSession   \* no entry for a key

VARIABLES
    registry,   \* the node's session-key entry for each key
    issued      \* the sessions the SDK has handed out: key, scopes, interval

vars == <<registry, issued>>

(* The scopes that allow calling 0x3::session_key::remove_session_key_entry. *)
RemovePermissions ==
    {<<"0x3", "*", "*">>, <<"0x3", "session_key", "remove_session_key_entry">>}

GrantsRemoval(scopes) == \E i \in DOMAIN scopes : scopes[i] \in RemovePermissions

(* An entry the node may hold.                                             *)
ValidEntry(e) == GrantsRemoval(e.scopes) /\ e.interval # 0

Init ==
    /\ registry = [k \in Keys |-> NoSession]
    /\ issued = {}

(* The key is registered; the SDK's caller does not get the session (the *)
(* response was lost).                                                     *)
Register(k, e) ==
    /\ registry[k] = NoSession
    /\ ValidEntry(e)
    /\ registry' = [registry EXCEPT ![k] = e]
    /\ UNCHANGED issued

(* The key is registered and the caller gets the session.                 *)
RegisterAndReturn(k, e) ==
    /\ registry[k] = NoSession
    /\ ValidEntry(e)
    /\ registry' = [registry EXCEPT ![k] = e]
    /\ issued' = issued \cup {[key |-> k, scopes |-> e.scopes, interval |-> e.interval]}

(* The key's entry is removed.                                             *)
Remove(k) ==
    /\ registry' = [registry EXCEPT ![k] = NoSession]
    /\ UNCHANGED issued

Next ==
    \E k \in Keys :
       \/ \E e \in Entries : Register(k, e) \/ RegisterAndReturn(k, e)
       \/ Remove(k)

Spec == Init /\ [][Next]_vars
=============================================================================
