---------------------------- MODULE ChainIdOracle ----------------------------
(***************************************************************************)
(* What RoochClient.GetChainId (client/client.go:44-62) promises its       *)
(* callers, with no goroutine, request counter or wire in it: one cache    *)
(* that starts empty, is filled only with the node's chain id and is never *)
(* emptied, and a last result per caller that is the cache's value, the    *)
(* node's chain id, or an error that leaves the cache alone.  Two callers  *)
(* may both fetch (Fetch when the cache is already full): the detailed     *)
(* client does not serialise its check and its store.                     *)
(***************************************************************************)
CONSTANTS
    Callers,      \* the goroutines sharing the client
    NodeChainId,  \* the chain id of the node
    NoChain,      \* the empty cache
    NoRet         \* no GetChainId result

VARIABLES
    cache,  \* the cached chain id
    got     \* the result of each caller's last GetChainId

vars == <<cache, got>>

Result(v, e) == [val |-> v, err |-> e]

Init ==
    /\ cache = NoChain
    /\ got = [c \in Callers |-> NoRet]

(* A caller starts another call; its last result is gone.                 *)
Forget(c) ==
    /\ got' = [got EXCEPT ![c] = NoRet]
    /\ UNCHANGED cache

(* The cache is full: the caller gets what it holds.                      *)
Hit(c) ==
    /\ cache # NoChain
    /\ got' = [got EXCEPT ![c] = Result(cache, FALSE)]
    /\ UNCHANGED cache

(* The caller asked the node: the cache and the result are its chain id.  *)
Fetch(c) ==
    /\ cache' = NodeChainId
    /\ got' = [got EXCEPT ![c] = Result(NodeChainId, FALSE)]

(* The call fails; the cache is left as it was.                           *)
Fail(c) ==
    /\ got' = [got EXCEPT ![c] = Result(NoChain, TRUE)]
    /\ UNCHANGED cache

Next == \E c \in Callers : Forget(c) \/ Hit(c) \/ Fetch(c) \/ Fail(c)

Spec == Init /\ [][Next]_vars
=============================================================================
