--------------------------- MODULE RpcClient_proofs ---------------------------
(***************************************************************************)
(* Proofs about RpcClient for every set of goroutines, every bound and     *)
(* every set of answers of the node.                                       *)
(***************************************************************************)
EXTENDS RpcClient, TLAPS

(* A goroutine about to write the cache holds an answer of the node that *)
(* SetString accepted.                                                    *)
CacheStoreReady ==
    \A c \in Callers :
       pc[c] = "cacheStore" => answer[c] \in ChainAnswers /\ IsDecimal(answer[c])

IInv == TypeOK /\ ChainIdCacheSound /\ CacheStoreReady

(* The client starts with an empty cache and no returned call.            *)
LEMMA InitIInv == Init => IInv
<1> SUFFICES ASSUME Init PROVE IInv
  OBVIOUS
<1>1. TypeOK
  <2>1. <<>> \in Seq(Chars)
    OBVIOUS
  <2>2. QED
    BY <2>1, ChainAssumption DEF Init, InitialRequestID, TypeOK, PCs, RetVals, Ops
<1>2. ChainIdCacheSound
  BY DEF Init, ChainIdCacheSound
<1>3. CacheStoreReady
  BY DEF Init, CacheStoreReady
<1>4. QED
  BY <1>1, <1>2, <1>3 DEF IInv

(* Every step keeps IInv.                                                 *)
LEMMA NextIInv == IInv /\ [Next]_vars => IInv'
<1> SUFFICES ASSUME IInv, [Next]_vars PROVE IInv'
  OBVIOUS
<1> USE ChainAssumption DEF IInv, TypeOK, ChainIdCacheSound, CacheStoreReady,
                            PCs, RetVals, Ret, Ops
<1>1. ASSUME NEW c \in Callers, Start(c) PROVE IInv'
  BY <1>1 DEF Start
<1>2. ASSUME NEW c \in Callers, CheckCache(c) PROVE IInv'
  <2>1. CASE chainID # NoChain
    <3>1. chainID = NodeChainId
      BY <2>1
    <3>2. /\ ret' = [ret EXCEPT ![c] = Ret("GetChainId", NodeChainId, FALSE, FALSE)]
          /\ pc' = [pc EXCEPT ![c] = "idle"]
          /\ UNCHANGED <<requestID, chainID, op, loaded, rid, answer, sent, calls>>
      BY <1>2, <2>1, <3>1 DEF CheckCache
    <3>3. Ret("GetChainId", NodeChainId, FALSE, FALSE) \in RetVals
      OBVIOUS
    <3>4. QED
      BY <3>2, <3>3
  <2>2. CASE chainID = NoChain
    BY <1>2, <2>2 DEF CheckCache
  <2>3. QED
    BY <2>1, <2>2
<1>3. ASSUME NEW c \in Callers, IncLoad(c) PROVE IInv'
  BY <1>3 DEF IncLoad
<1>4. ASSUME NEW c \in Callers, IncStore(c) PROVE IInv'
  BY <1>4 DEF IncStore
<1>5. ASSUME NEW c \in Callers, BuildRequest(c) PROVE IInv'
  BY <1>5 DEF BuildRequest
<1>6. ASSUME NEW c \in Callers, ChainIdFetched(c) PROVE IInv'
  BY <1>6 DEF ChainIdFetched, Send, Chars
<1>7. ASSUME NEW c \in Callers, ChainIdFailed(c) PROVE IInv'
  BY <1>7 DEF ChainIdFailed, Send, Finish
<1>8. ASSUME NEW c \in Callers, StatesFetched(c) PROVE IInv'
  BY <1>8 DEF StatesFetched, Send, Finish, GetStatesReturn
<1>9. ASSUME NEW c \in Callers, ListFetched(c) PROVE IInv'
  BY <1>9 DEF ListFetched, Send, Finish, ListStatesReturn
<1>14. ASSUME NEW c \in Callers, ApiVersionFetched(c) PROVE IInv'
  BY <1>14 DEF ApiVersionFetched, Send, Finish, GetRpcApiVersionReturn
<1>13. ASSUME NEW c \in Callers, ResolveFetched(c) PROVE IInv'
  <2>1. PICK failed \in BOOLEAN, a \in ResolveAnswers :
          IF ResolvePanics(failed, a)
          THEN /\ pc' = [x \in Callers |-> "crashed"]
               /\ UNCHANGED <<ret, answer>>
          ELSE Finish(c, ResolveBTCAddressReturn(failed, a))
    BY <1>13 DEF ResolveFetched
  <2>2. CASE ResolvePanics(failed, a)
    BY <1>13, <2>1, <2>2 DEF ResolveFetched, Send
  <2>3. CASE ~ResolvePanics(failed, a)
    <3>1. ResolveBTCAddressReturn(failed, a) \in RetVals
      BY DEF ResolveBTCAddressReturn
    <3>2. QED
      BY <1>13, <2>1, <2>3, <3>1 DEF ResolveFetched, Send, Finish
  <2>4. QED
    BY <2>2, <2>3
<1>10. ASSUME NEW c \in Callers, StoreChainId(c) PROVE IInv'
  <2>1. DecValue(answer[c]) = NodeChainId
    BY <1>10, AnswersAssumption DEF StoreChainId
  <2>2. QED
    BY <1>10, <2>1 DEF StoreChainId
<1>11. CASE UNCHANGED vars
  BY <1>11 DEF vars
<1>12. QED
  BY <1>1, <1>2, <1>3, <1>4, <1>5, <1>6, <1>7, <1>8, <1>9, <1>10, <1>11,
     <1>13, <1>14 DEF Next

(* The fields keep their types.                                           *)
THEOREM TypeCorrect == Spec => []TypeOK
<1>1. IInv => TypeOK
  BY DEF IInv
<1>2. QED
  BY InitIInv, NextIInv, <1>1, PTL DEF Spec

(* Racing goroutines never see, nor cache, a chain id other than the      *)
(* node's: GetChainId's unsynchronised check-then-fetch-then-store is     *)
(* harmless because every store writes the same value.                   *)
THEOREM ChainIdCacheSoundHolds == Spec => []ChainIdCacheSound
<1>1. IInv => ChainIdCacheSound
  BY DEF IInv
<1>2. QED
  BY InitIInv, NextIInv, <1>1, PTL DEF Spec

-----------------------------------------------------------------------------
(* A call that sets ret[c] to a GetChainId result maps to that result.    *)
LEMMA GotAfterRet ==
    ASSUME TypeOK, NEW c \in Callers, NEW r,
           ret' = [ret EXCEPT ![c] = r]
    PROVE  GotChainId' =
              [GotChainId EXCEPT ![c] =
                  IF r # NoRet /\ r.op = "GetChainId"
                     THEN [val |-> r.val, err |-> r.err] ELSE NoRet]
  BY DEF GotChainId, TypeOK

(* A step that leaves ret alone leaves the abstract results alone.        *)
LEMMA GotUnchanged ==
    ASSUME UNCHANGED ret PROVE GotChainId' = GotChainId
  BY DEF GotChainId

(* Every step of the client is a step of the oracle or leaves the cache   *)
(* and the GetChainId results as they were.                               *)
LEMMA NextRefines ==
    IInv /\ [Next]_vars => [Oracle!Next]_Oracle!vars
<1> SUFFICES ASSUME IInv, [Next]_vars PROVE [Oracle!Next]_Oracle!vars
  OBVIOUS
<1> USE DEF IInv, Oracle!vars
<1> DEFINE Stutter == UNCHANGED <<chainID, GotChainId>>
<1>0. Stutter => [Oracle!Next]_Oracle!vars
  OBVIOUS
<1> DEFINE Forgets(c) == /\ ret' = [ret EXCEPT ![c] = NoRet] /\ UNCHANGED chainID
<1>1. ASSUME NEW c \in Callers, Forgets(c) PROVE Oracle!Forget(c)
  BY <1>1, GotAfterRet DEF Oracle!Forget
<1>2. ASSUME NEW c \in Callers, NEW r, ret' = [ret EXCEPT ![c] = r],
             UNCHANGED chainID, r.op # "GetChainId"
      PROVE  [Oracle!Next]_Oracle!vars
  <2>1. Oracle!Forget(c)
    BY <1>2, GotAfterRet DEF Oracle!Forget
  <2>2. QED
    BY <2>1 DEF Oracle!Next
<1>3. ASSUME NEW c \in Callers, Start(c) PROVE [Oracle!Next]_Oracle!vars
  BY <1>1, <1>3 DEF Start, Oracle!Next
<1>4. ASSUME NEW c \in Callers, CheckCache(c) PROVE [Oracle!Next]_Oracle!vars
  <2>1. CASE chainID # NoChain
    <3>1. /\ ret' = [ret EXCEPT ![c] = Ret("GetChainId", chainID, FALSE, FALSE)]
          /\ UNCHANGED chainID
      BY <1>4, <2>1 DEF CheckCache
    <3>2. Ret("GetChainId", chainID, FALSE, FALSE) # NoRet
      BY NoRetAssumption DEF ChainIdCacheSound
    <3>3. GotChainId' = [GotChainId EXCEPT ![c] = Oracle!Result(chainID, FALSE)]
      BY <3>1, <3>2, GotAfterRet DEF Ret, Oracle!Result
    <3>4. QED
      BY <2>1, <3>1, <3>3 DEF Oracle!Next, Oracle!Hit
  <2>2. CASE chainID = NoChain
    BY <1>0, <1>4, <2>2, GotUnchanged DEF CheckCache
  <2>3. QED
    BY <2>1, <2>2
<1>5. ASSUME NEW c \in Callers,
             IncLoad(c) \/ IncStore(c) \/ BuildRequest(c) \/ ChainIdFetched(c)
      PROVE  [Oracle!Next]_Oracle!vars
  BY <1>0, <1>5, GotUnchanged DEF IncLoad, IncStore, BuildRequest, ChainIdFetched
<1>6. ASSUME NEW c \in Callers, ChainIdFailed(c) PROVE [Oracle!Next]_Oracle!vars
  <2>1. PICK failed \in BOOLEAN : ret' = [ret EXCEPT ![c] = Ret("GetChainId", NoChain, TRUE, failed)]
    BY <1>6 DEF ChainIdFailed, Finish
  <2>2. Ret("GetChainId", NoChain, TRUE, failed) # NoRet
    BY NoRetAssumption
  <2>3. GotChainId' = [GotChainId EXCEPT ![c] = Oracle!Result(NoChain, TRUE)]
    BY <2>1, <2>2, GotAfterRet DEF Ret, Oracle!Result
  <2>4. QED
    BY <1>6, <2>3 DEF ChainIdFailed, Oracle!Next, Oracle!Fail
<1>7. ASSUME NEW c \in Callers, StatesFetched(c) PROVE [Oracle!Next]_Oracle!vars
  <2>1. PICK failed \in BOOLEAN, a \in StatesAnswers :
          ret' = [ret EXCEPT ![c] = GetStatesReturn(failed, a)]
    BY <1>7 DEF StatesFetched, Finish
  <2>2. GetStatesReturn(failed, a).op # "GetChainId"
    BY DEF GetStatesReturn, Ret
  <2>3. QED
    BY <1>2, <1>7, <2>1, <2>2 DEF StatesFetched
<1>12. ASSUME NEW c \in Callers, ListFetched(c) PROVE [Oracle!Next]_Oracle!vars
  <2>1. PICK failed \in BOOLEAN : ret' = [ret EXCEPT ![c] = ListStatesReturn(failed)]
    BY <1>12 DEF ListFetched, Finish
  <2>2. ListStatesReturn(failed).op # "GetChainId"
    BY DEF ListStatesReturn, Ret
  <2>3. QED
    BY <1>2, <1>12, <2>1, <2>2 DEF ListFetched
<1>13. ASSUME NEW c \in Callers, ApiVersionFetched(c) PROVE [Oracle!Next]_Oracle!vars
  <2>1. PICK failed \in BOOLEAN : ret' = [ret EXCEPT ![c] = GetRpcApiVersionReturn(failed)]
    BY <1>13 DEF ApiVersionFetched, Finish
  <2>2. GetRpcApiVersionReturn(failed).op # "GetChainId"
    BY DEF GetRpcApiVersionReturn, Ret
  <2>3. QED
    BY <1>2, <1>13, <2>1, <2>2 DEF ApiVersionFetched
<1>8. ASSUME NEW c \in Callers, ResolveFetched(c) PROVE [Oracle!Next]_Oracle!vars
  <2>1. PICK failed \in BOOLEAN, a \in ResolveAnswers :
          IF ResolvePanics(failed, a)
          THEN /\ pc' = [x \in Callers |-> "crashed"]
               /\ UNCHANGED <<ret, answer>>
          ELSE Finish(c, ResolveBTCAddressReturn(failed, a))
    BY <1>8 DEF ResolveFetched
  <2>2. CASE ResolvePanics(failed, a)
    BY <1>0, <1>8, <2>1, <2>2, GotUnchanged DEF ResolveFetched
  <2>3. CASE ~ResolvePanics(failed, a)
    <3>1. /\ ret' = [ret EXCEPT ![c] = ResolveBTCAddressReturn(failed, a)]
          /\ UNCHANGED chainID
          /\ ResolveBTCAddressReturn(failed, a).op # "GetChainId"
      BY <1>8, <2>1, <2>3 DEF ResolveFetched, Finish, ResolveBTCAddressReturn, Ret
    <3>2. QED
      BY <1>2, <3>1 DEF Oracle!Next
  <2>4. QED
    BY <2>2, <2>3
<1>9. ASSUME NEW c \in Callers, StoreChainId(c) PROVE [Oracle!Next]_Oracle!vars
  <2>1. DecValue(answer[c]) = NodeChainId
    BY <1>9, AnswersAssumption DEF StoreChainId, CacheStoreReady
  <2>2. ret' = [ret EXCEPT ![c] = Ret("GetChainId", NodeChainId, FALSE, FALSE)]
    BY <1>9, <2>1 DEF StoreChainId
  <2>3. Ret("GetChainId", NodeChainId, FALSE, FALSE) # NoRet
    BY NoRetAssumption
  <2>4. GotChainId' = [GotChainId EXCEPT ![c] = Oracle!Result(NodeChainId, FALSE)]
    BY <2>2, <2>3, GotAfterRet DEF Ret, Oracle!Result
  <2>5. QED
    BY <1>9, <2>1, <2>4 DEF StoreChainId, Oracle!Next, Oracle!Fetch
<1>10. CASE UNCHANGED vars
  BY <1>0, <1>10, GotUnchanged DEF vars
<1>11. QED
  BY <1>3, <1>4, <1>5, <1>6, <1>7, <1>8, <1>9, <1>10, <1>12, <1>13 DEF Next

(* The client implements ChainIdOracle for every set of goroutines, every *)
(* bound and every set of answers of a node that reports its own id:      *)
(* GetChainId's unsynchronised cache (client.go:44-62) is filled only with *)
(* the node's id, never emptied, and untouched by failures.               *)
THEOREM Refinement == Spec => ImplementsChainIdOracle
<1>1. Init => Oracle!Init
  BY DEF Init, Oracle!Init, GotChainId
<1>2. Spec => []IInv
  BY InitIInv, NextIInv, PTL DEF Spec
<1>3. QED
  BY <1>1, <1>2, NextRefines, PTL DEF Spec, ImplementsChainIdOracle, Oracle!Spec
=============================================================================
