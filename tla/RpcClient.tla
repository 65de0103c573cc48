----------------------------- MODULE RpcClient -----------------------------
(***************************************************************************)
(* One RoochClient over one RoochHTTPTransport, shared by several          *)
(* goroutines (client/client.go, client/http_transport.go).  Nothing in    *)
(* either type is synchronised, so every access to the two shared fields   *)
(* is a step of its own:                                                   *)
(*   - t.requestID, which Request increments (a load and a store) and then *)
(*     reads again to build the JSON-RPC id;                               *)
(*   - c.chainID, the cache GetChainId reads before and writes after its   *)
(*     own request.                                                        *)
(* One round trip over HTTP (marshal, POST, status, body, unmarshal, RPC   *)
(* error) touches nothing shared and is one step that ends in one of the   *)
(* outcomes of http_transport.go:85-132.  The wrapper's handling of the    *)
(* result runs in the same step.  The HTTP client has no timeout, so a     *)
(* round trip may also never end: no fairness is assumed.                  *)
(***************************************************************************)
EXTENDS Integers, Sequences, FiniteSets

CONSTANTS
    Callers,       \* goroutines sharing the client
    MaxCalls,      \* calls each goroutine makes (bound of the model)
    NodeChainId,   \* the chain id of the node the client talks to
    ChainAnswers,  \* strings the node may return for rooch_getChainID
    NoChain,       \* c.chainID == nil
    NoRet          \* the goroutine has no call that returned

Digits == <<"0", "1", "2", "3", "4", "5", "6", "7", "8", "9">>

DigitSet == {Digits[i] : i \in 1..10}

(* A string is a sequence of one-character strings.                       *)
ASSUME ChainAssumption ==
    /\ MaxCalls \in Nat
    /\ NodeChainId \in Nat
    /\ ChainAnswers \subseteq Seq(DigitSet \cup {"+", "-", "x"})
    /\ NoChain \notin Int

(* The JSON-RPC operations the model distinguishes.  ListStates stands    *)
(* for every wrapper that returns (&result, err) unchanged.               *)
Ops == {"GetChainId", "GetRpcApiVersion", "GetStates", "ListStates",
        "ResolveBTCAddress"}

(* What a successful rooch_getStates may carry: JSON null or an array.    *)
StatesAnswers == {"null", "list"}

(* What a successful rooch_executeViewFunction of                          *)
(* 0x3::address_mapping::resolve_bitcoin may carry: a VM status other than *)
(* Executed, no return values, the Option none of an unmapped address, or *)
(* Option some holding the address bytes.                                  *)
ResolveAnswers == {"aborted", "noValues", "none", "some"}

-----------------------------------------------------------------------------
(* new(big.Int).SetString(s, 10): an optional sign, then one or more      *)
(* decimal digits.                                                        *)
Unsigned(s) == IF s # <<>> /\ s[1] \in {"+", "-"} THEN Tail(s) ELSE s

IsDecimal(s) ==
    LET d == Unsigned(s) IN
    /\ d # <<>>
    /\ \A i \in 1..Len(d) : d[i] \in DigitSet

DigitValue(ch) == CHOOSE v \in 0..9 : Digits[v + 1] = ch

DecValue(s) ==
    LET d == Unsigned(s)
        acc[i \in 0..Len(d)] ==
            IF i = 0 THEN 0 ELSE 10 * acc[i - 1] + DigitValue(d[i])
    IN  IF s # <<>> /\ s[1] = "-" THEN -acc[Len(d)] ELSE acc[Len(d)]

(* The node reports its own chain id, in whatever decimal spelling.       *)
ASSUME AnswersAssumption ==
    \A s \in ChainAnswers : IsDecimal(s) => DecValue(s) = NodeChainId

-----------------------------------------------------------------------------
VARIABLES
    requestID,  \* t.requestID
    chainID,    \* c.chainID
    pc,         \* where each goroutine is
    op,         \* the operation it is in
    loaded,     \* the value its t.requestID++ loaded
    rid,        \* the id it put in its request
    answer,     \* the chain id string GetChainId is about to cache
    ret,        \* what its last call returned
    sent,       \* ghost: the requests that went on the wire
    calls       \* calls it has made

vars == <<requestID, chainID, pc, op, loaded, rid, answer, ret, sent, calls>>

Ret(o, v, e, f) == [op |-> o, val |-> v, err |-> e, failed |-> f]

(* No GetChainId result is mistaken for the absence of one.              *)
ASSUME NoRetAssumption ==
    \A v \in {NoChain, NodeChainId}, e, f \in BOOLEAN :
       Ret("GetChainId", v, e, f) # NoRet

(* NewRoochHTTPTransport: the zero value of the requestID field.          *)
InitialRequestID == 0

(* NewRoochClient and NewRoochHTTPTransport: zero counter, empty cache.   *)
Init ==
    /\ requestID = InitialRequestID
    /\ chainID = NoChain
    /\ pc = [c \in Callers |-> "idle"]
    /\ op = [c \in Callers |-> "GetChainId"]
    /\ loaded = [c \in Callers |-> 0]
    /\ rid = [c \in Callers |-> 0]
    /\ answer = [c \in Callers |-> <<>>]
    /\ ret = [c \in Callers |-> NoRet]
    /\ sent = {}
    /\ calls = [c \in Callers |-> 0]

(* A goroutine calls one of the client's methods.                         *)
Start(c) ==
    /\ pc[c] = "idle"
    /\ calls[c] < MaxCalls
    /\ \E o \in Ops :
          /\ op' = [op EXCEPT ![c] = o]
          /\ pc' = [pc EXCEPT ![c] = IF o = "GetChainId" THEN "cache" ELSE "inc"]
    /\ calls' = [calls EXCEPT ![c] = @ + 1]
    /\ ret' = [ret EXCEPT ![c] = NoRet]
    /\ UNCHANGED <<requestID, chainID, loaded, rid, answer, sent>>

(* Mutant: the nil check inverted.                                        *)
CheckCacheInverted(c) ==
    /\ pc[c] = "cache"
    /\ IF chainID = NoChain
          THEN /\ ret' = [ret EXCEPT ![c] = Ret("GetChainId", chainID, FALSE, FALSE)]
               /\ pc' = [pc EXCEPT ![c] = "idle"]
          ELSE /\ pc' = [pc EXCEPT ![c] = "inc"]
               /\ UNCHANGED ret
    /\ UNCHANGED <<requestID, chainID, op, loaded, rid, answer, sent, calls>>

(* GetChainId returns the cached id when there is one.                    *)
CheckCache(c) ==
    /\ pc[c] = "cache"
    /\ IF chainID # NoChain
          THEN /\ ret' = [ret EXCEPT ![c] = Ret("GetChainId", chainID, FALSE, FALSE)]
               /\ pc' = [pc EXCEPT ![c] = "idle"]
          ELSE /\ pc' = [pc EXCEPT ![c] = "inc"]
               /\ UNCHANGED ret
    /\ UNCHANGED <<requestID, chainID, op, loaded, rid, answer, sent, calls>>

(* t.requestID++: the load ...                                            *)
IncLoad(c) ==
    /\ pc[c] = "inc"
    /\ loaded' = [loaded EXCEPT ![c] = requestID]
    /\ pc' = [pc EXCEPT ![c] = "store"]
    /\ UNCHANGED <<requestID, chainID, op, rid, answer, ret, sent, calls>>

(* ... and the store.                                                     *)
IncStore(c) ==
    /\ pc[c] = "store"
    /\ requestID' = loaded[c] + 1
    /\ pc' = [pc EXCEPT ![c] = "build"]
    /\ UNCHANGED <<chainID, op, loaded, rid, answer, ret, sent, calls>>

(* jsonRPCRequest{ID: t.requestID, ...} reads the field again.            *)
BuildRequest(c) ==
    /\ pc[c] = "build"
    /\ rid' = [rid EXCEPT ![c] = requestID]
    /\ pc' = [pc EXCEPT ![c] = "exchange"]
    /\ UNCHANGED <<requestID, chainID, op, loaded, answer, ret, sent, calls>>

(* GetStates (client.go:79-90): a nil result becomes an empty list and a *)
(* nil error, whether the request failed or the node returned null.       *)
GetStatesReturn(failed, a) ==
    IF failed \/ a = "null"
       THEN Ret("GetStates", "empty", FALSE, failed)
       ELSE Ret("GetStates", "list", FALSE, failed)

(* ListStates and the other wrappers return (&result, err).               *)
ListStatesReturn(failed) ==
    Ret("ListStates", IF failed THEN "zero" ELSE "page", failed, failed)

(* GetRpcApiVersion (rpc.discover) returns resp.Info.Version, the empty  *)
(* string when the request failed, and the error.                          *)
GetRpcApiVersionReturn(failed) ==
    Ret("GetRpcApiVersion", IF failed THEN "zero" ELSE "version", failed, failed)

(* ResolveBTCAddress (client.go:182-200) after ExecuteViewFunction: the   *)
(* error, or nil and nil when the view did not execute or returned        *)
(* nothing, or the address NewBitcoinAddress builds from the bytes.        *)
ResolveBTCAddressReturn(failed, a) ==
    CASE failed -> Ret("ResolveBTCAddress", "nil", TRUE, TRUE)
      [] a \in {"aborted", "noValues"} -> Ret("ResolveBTCAddress", "nil", FALSE, FALSE)
      [] OTHER -> Ret("ResolveBTCAddress", "address", FALSE, FALSE)

(* The type assertions and the index [0] of client.go:196-197 succeed     *)
(* only on Option some; on none, vec is empty and the index panics.        *)
ResolvePanics(failed, a) == ~failed /\ a = "none"

(* The rest of Request (http_transport.go:71-132): the POST goes out with *)
(* id rid[c].  Marshal, send, status, body, unmarshal or a JSON-RPC error *)
(* can each fail, and all six end in the same error return; "failed"      *)
(* says whether one did.  Each action below is that round trip followed   *)
(* by one wrapper's handling of its result.                               *)
Send(c) == sent' = sent \cup {[id |-> rid[c], by |-> c, call |-> calls[c]]}

Finish(c, r) ==
    /\ ret' = [ret EXCEPT ![c] = r]
    /\ pc' = [pc EXCEPT ![c] = "idle"]
    /\ UNCHANGED answer

(* GetChainId: the node answered with a string SetString accepts.         *)
ChainIdFetched(c) ==
    /\ pc[c] = "exchange" /\ op[c] = "GetChainId"
    /\ Send(c)
    /\ \E s \in ChainAnswers :
          /\ IsDecimal(s)
          /\ answer' = [answer EXCEPT ![c] = s]
    /\ pc' = [pc EXCEPT ![c] = "cacheStore"]
    /\ UNCHANGED <<requestID, chainID, op, loaded, rid, ret, calls>>

(* Mutant: a failed GetChainId clears the cache.                         *)
ChainIdFailedResets(c) ==
    /\ pc[c] = "exchange" /\ op[c] = "GetChainId"
    /\ Send(c)
    /\ \E failed \in BOOLEAN, s \in ChainAnswers :
          /\ failed \/ ~IsDecimal(s)
          /\ Finish(c, Ret("GetChainId", NoChain, TRUE, failed))
    /\ chainID' = NoChain
    /\ UNCHANGED <<requestID, op, loaded, rid, calls>>

(* GetChainId: the request failed, or "invalid chain ID format".          *)
ChainIdFailed(c) ==
    /\ pc[c] = "exchange" /\ op[c] = "GetChainId"
    /\ Send(c)
    /\ \E failed \in BOOLEAN, s \in ChainAnswers :
          /\ failed \/ ~IsDecimal(s)
          /\ Finish(c, Ret("GetChainId", NoChain, TRUE, failed))
    /\ UNCHANGED <<requestID, chainID, op, loaded, rid, calls>>

(* GetStates returns.                                                     *)
StatesFetched(c) ==
    /\ pc[c] = "exchange" /\ op[c] = "GetStates"
    /\ Send(c)
    /\ \E failed \in BOOLEAN, a \in StatesAnswers :
          Finish(c, GetStatesReturn(failed, a))
    /\ UNCHANGED <<requestID, chainID, op, loaded, rid, calls>>

(* ListStates (and its like) returns.                                     *)
ListFetched(c) ==
    /\ pc[c] = "exchange" /\ op[c] = "ListStates"
    /\ Send(c)
    /\ \E failed \in BOOLEAN : Finish(c, ListStatesReturn(failed))
    /\ UNCHANGED <<requestID, chainID, op, loaded, rid, calls>>

(* GetRpcApiVersion returns.                                               *)
ApiVersionFetched(c) ==
    /\ pc[c] = "exchange" /\ op[c] = "GetRpcApiVersion"
    /\ Send(c)
    /\ \E failed \in BOOLEAN : Finish(c, GetRpcApiVersionReturn(failed))
    /\ UNCHANGED <<requestID, chainID, op, loaded, rid, calls>>

(* ResolveBTCAddress: ExecuteViewFunction's round trip, then either the  *)
(* return or an unrecovered panic, which ends every goroutine.             *)
ResolveFetched(c) ==
    /\ pc[c] = "exchange" /\ op[c] = "ResolveBTCAddress"
    /\ Send(c)
    /\ \E failed \in BOOLEAN, a \in ResolveAnswers :
          IF ResolvePanics(failed, a)
          THEN /\ pc' = [x \in Callers |-> "crashed"]
               /\ UNCHANGED <<ret, answer>>
          ELSE Finish(c, ResolveBTCAddressReturn(failed, a))
    /\ UNCHANGED <<requestID, chainID, op, loaded, rid, calls>>

(* c.chainID = chainID; return chainID, nil.                              *)
StoreChainId(c) ==
    /\ pc[c] = "cacheStore"
    /\ chainID' = DecValue(answer[c])
    /\ ret' = [ret EXCEPT ![c] = Ret("GetChainId", DecValue(answer[c]), FALSE, FALSE)]
    /\ pc' = [pc EXCEPT ![c] = "idle"]
    /\ UNCHANGED <<requestID, op, loaded, rid, answer, sent, calls>>

Next ==
    \E c \in Callers :
       \/ Start(c)
       \/ CheckCache(c)
       \/ IncLoad(c)
       \/ IncStore(c)
       \/ BuildRequest(c)
       \/ ChainIdFetched(c)
       \/ ChainIdFailed(c)
       \/ StatesFetched(c)
       \/ ListFetched(c)
       \/ ApiVersionFetched(c)
       \/ ResolveFetched(c)
       \/ StoreChainId(c)

Spec == Init /\ [][Next]_vars

-----------------------------------------------------------------------------
PCs == {"idle", "cache", "inc", "store", "build", "exchange", "cacheStore", "crashed"}

Chars == DigitSet \cup {"+", "-", "x"}

RetVals ==
    {NoRet} \cup [op : Ops, val : Int \cup {NoChain, "empty", "list", "zero", "page",
                                            "nil", "address", "version"},
                  err : BOOLEAN, failed : BOOLEAN]

(* Each field holds what its Go type allows.                              *)
TypeOK ==
    /\ requestID \in Nat
    /\ chainID \in Int \cup {NoChain}
    /\ pc \in [Callers -> PCs]
    /\ op \in [Callers -> Ops]
    /\ loaded \in [Callers -> Nat]
    /\ rid \in [Callers -> Nat]
    /\ answer \in [Callers -> Seq(Chars)]
    /\ ret \in [Callers -> RetVals]
    /\ sent \subseteq [id : Nat, by : Callers, call : Nat]
    /\ calls \in [Callers -> Nat]

(* Every chain id GetChainId returns without error, from the cache or     *)
(* from the node, is the node's chain id, and the cache holds nothing     *)
(* else, however the goroutines' cache reads and writes interleave        *)
(* (client.go:44-62).                                                     *)
ChainIdCacheSound ==
    /\ chainID \in {NoChain, NodeChainId}
    /\ \A c \in Callers :
          ret[c] # NoRet /\ ret[c].op = "GetChainId" /\ ~ret[c].err
             => ret[c].val = NodeChainId

(* No two requests that went on the wire carry the same JSON-RPC id       *)
(* (http_transport.go:68-79).                                             *)
UniqueRequestIds ==
    \A m1, m2 \in sent : m1 # m2 => m1.id # m2.id

-----------------------------------------------------------------------------
(* The refinement mapping: the abstract cache is c.chainID, and a         *)
(* caller's abstract result is the value and error of its last call when  *)
(* that call was GetChainId.                                              *)
GotChainId ==
    [c \in Callers |->
        IF ret[c] # NoRet /\ ret[c].op = "GetChainId"
           THEN [val |-> ret[c].val, err |-> ret[c].err]
           ELSE NoRet]

Oracle == INSTANCE ChainIdOracle WITH cache <- chainID, got <- GotChainId

(* The client implements the chain-id oracle: however the goroutines'     *)
(* GetChainId calls (client.go:44-62) interleave with each other and with *)
(* the other RPCs, the cache is filled only with the node's chain id and  *)
(* never emptied or changed, a failure leaves it alone, and every result  *)
(* is the cache's value, the node's id or an error.                        *)
ImplementsChainIdOracle == Oracle!Spec

=============================================================================
