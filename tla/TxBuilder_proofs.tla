--------------------------- MODULE TxBuilder_proofs ---------------------------
(***************************************************************************)
(* Proofs about TxBuilder for every value of the constants.                *)
(***************************************************************************)
EXTENDS TxBuilder, TLAPS

(* Every authenticator type that signing produces.                         *)
LEMMA RoochAuthType ==
    ASSUME NEW d \in TxData, NEW k \in Keys
    PROVE  NewAuthenticator(ROOCH, RoochAuth(Hash(d), k), d, k, "native")
             \in Authenticators
<1>1. SignatureSchemeToFlag[KeyScheme[k]] \in {0, 1}
  BY KeysAssumption DEF SignatureSchemeToFlag
<1>2. QED
  BY <1>1 DEF NewAuthenticator, RoochAuth, Authenticators, RoochPayloads,
              Hash, Sign, ROOCH, BITCOIN

LEMMA BitcoinAuthType ==
    ASSUME NEW d \in TxData, NEW k \in Keys, NEW i \in InfoInputs,
           NEW w \in {"hash", "raw"}
    PROVE  NewAuthenticator(BITCOIN,
               BitcoinAuth(NewBitcoinSignMessage(Hash(d), i), k, w), d, k, w)
             \in Authenticators
<1> DEFINE m == NewBitcoinSignMessage(Hash(d), i)
<1>1. m.info \in InfoValues /\ m.txHash = d
  BY InfoAssumption DEF NewBitcoinSignMessage, InfoValues, EndsWithNewline,
                        Hash
<1>2. ByteLen(m.info) \in Nat
  BY <1>1 DEF ByteLen, InfoValues, MessageInfoPrefixLen
<1>3. SignMessageEncode(m) \in [kind : {"envelope", "raw"}, len : Nat,
                                info : InfoValues, hash : TxData]
  BY <1>1, <1>2 DEF SignMessageEncode, HexHashLen
<1>4. SignMessageRaw(m) \in [kind : {"envelope", "raw"}, len : Nat,
                             info : InfoValues, hash : TxData]
  BY <1>1 DEF SignMessageRaw
<1>5. BitcoinAuth(m, k, w) \in BitcoinPayloads
  BY <1>1, <1>2, <1>3, <1>4
     DEF BitcoinAuth, BitcoinPayloads, Sign, HexHashLen, BitcoinAddressOf
<1>6. QED
  BY <1>5 DEF NewAuthenticator, Authenticators, ROOCH, BITCOIN

(* TypeOK is preserved by every step.                                     *)
LEMMA TypeInductive == TypeOK /\ [Next]_vars => TypeOK'
<1> SUFFICES ASSUME TypeOK, [Next]_vars PROVE TypeOK'
  OBVIOUS
<1> USE DEF TypeOK
<1>1. CASE NewTransaction
  BY <1>1 DEF NewTransaction
<1>2. ASSUME NEW a \in Actions, CallFunction(a) PROVE TypeOK'
  <2>1. NewTransactionData(a, 0) \in TxData
    BY SeqAssumption DEF NewTransactionData, TxData
  <2>2. CASE NewCallFunctionPanics(a) /\ Panic
    BY <2>2 DEF Panic
  <2>3. CASE ~NewCallFunctionPanics(a) /\ data' = NewTransactionData(a, 0)
                 /\ outcome' = "ok" /\ lastSent' = NoTx /\ UNCHANGED <<auth, held>>
    BY <2>1, <2>3
  <2>4. QED
    BY <1>2, <2>2, <2>3 DEF CallFunction
<1>3. ASSUME NEW f \in {"sender", "chain", "seq"},
             NEW v \in (CASE f = "sender" -> Addresses
                          [] f = "chain" -> Chains
                          [] f = "seq" -> 0..MaxSeq),
             SetDataField(f, v)
      PROVE  TypeOK'
  <2>1. CASE data = NoData
    BY <1>3, <2>1 DEF SetDataField, Panic
  <2>2. CASE data # NoData
    <3>1. data \in TxData
      BY <2>2
    <3>2. [data EXCEPT ![f] = v] \in TxData
      BY <3>1 DEF TxData
    <3>3. QED
      BY <1>3, <2>2, <3>2 DEF SetDataField, Panic
  <2>3. QED
    BY <2>1, <2>2
<1>4. CASE SetAuth
  BY <1>4 DEF SetAuth
<1>5. ASSUME NEW k \in Keys, SignRooch(k) PROVE TypeOK'
  <2>1. CASE CanHash
    BY <1>5, <2>1, RoochAuthType DEF SignRooch, CanHash, Panic, Fail
  <2>2. CASE ~CanHash
    BY <1>5, <2>2 DEF SignRooch, Panic
  <2>3. QED
    BY <2>1, <2>2
<1>6. ASSUME NEW k \in Keys, NEW i \in InfoInputs, NEW w \in {"hash", "raw"},
             SignBitcoin(k, i, w)
      PROVE  TypeOK'
  <2>1. CASE CanHash
    BY <1>6, <2>1, BitcoinAuthType DEF SignBitcoin, CanHash, Panic, Fail
  <2>2. CASE ~CanHash
    BY <1>6, <2>2 DEF SignBitcoin, Panic
  <2>3. QED
    BY <2>1, <2>2
<1>7. CASE Encode
  BY <1>7 DEF Encode, Panic, Fail
<1>8. CASE UNCHANGED vars
  BY <1>8 DEF vars
<1>9. QED
  BY <1>1, <1>2, <1>3, <1>4, <1>5, <1>6, <1>7, <1>8
     DEF Next, SetSender, SetChainId, SetSeqNumber

(* Type correctness: every reachable state satisfies TypeOK.              *)
THEOREM TypeCorrect == Spec => []TypeOK
<1>1. Init => TypeOK
  BY SeqAssumption DEF Init, TypeOK
<1>2. QED
  BY <1>1, TypeInductive, PTL DEF Spec

-----------------------------------------------------------------------------
(* A native authenticator built by the sender's key over d passes the     *)
(* validator's checks: registered flag, flag matching the key, address    *)
(* re-derived from flag and key equal to the sender, signature over d.    *)
LEMMA RoochAuthVerifies ==
    ASSUME NEW d \in TxData, NEW k \in Keys, RoochAddressOf(k) = d.sender
    PROVE  RoochVerify(d, RoochAuth(Hash(d), k))
<1> DEFINE F == SignatureSchemeToFlag[KeyScheme[k]]
<1>1. CASE KeyScheme[k] = "ED25519"
  <2>1. F = 0 /\ SignatureFlagToScheme[F] = KeyScheme[k]
    BY <1>1 DEF SignatureSchemeToFlag, SignatureFlagToScheme
  <2>2. DeriveAddress(F, k) = d.sender
    BY <1>1, <2>1 DEF DeriveAddress, RoochAddressOf, SignatureFlagToScheme,
                      SignatureSchemeToFlag
  <2>3. QED
    BY <2>1, <2>2 DEF RoochVerify, RoochAuth, SignatureFlagToScheme
<1>2. CASE KeyScheme[k] = "Secp256k1"
  <2>1. F = 1 /\ SignatureFlagToScheme[F] = KeyScheme[k]
    BY <1>2 DEF SignatureSchemeToFlag, SignatureFlagToScheme
  <2>2. DeriveAddress(F, k) = d.sender
    BY <1>2, <2>1 DEF DeriveAddress, RoochAddressOf, SignatureFlagToScheme
  <2>3. QED
    BY <2>1, <2>2 DEF RoochVerify, RoochAuth, SignatureFlagToScheme
<1>3. QED
  BY <1>1, <1>2, KeysAssumption

(* A Bitcoin authenticator built in "hash" mode by the sender's secp256k1 *)
(* key over d passes the validator: the envelope it rebuilds from the     *)
(* payload's message prefix and message info is the one that was signed.  *)
LEMMA BitcoinAuthVerifies ==
    ASSUME NEW d \in TxData, NEW k \in Keys, NEW i \in InfoInputs,
           KeyScheme[k] = "Secp256k1", RoochAddressOf(k) = d.sender
    PROVE  BitcoinVerify(d, BitcoinAuth(NewBitcoinSignMessage(Hash(d), i), k,
                                        "hash"))
<1> DEFINE m == NewBitcoinSignMessage(Hash(d), i)
           p == BitcoinAuth(m, k, "hash")
<1>1. m.txHash = Hash(d)
  BY DEF NewBitcoinSignMessage
<1>2. p.pk = k /\ p.from = BitcoinAddressOf(k) /\ [blake2b |-> <<p.from>>] = d.sender
  BY DEF BitcoinAuth, RoochAddressOf
<1>3. p.sig = Sign(p.pk, [kind |-> "envelope", len |-> p.prefixLen,
                          info |-> p.info, hash |-> Hash(d)])
  BY <1>1 DEF BitcoinAuth, SignMessageEncode
<1>4. QED
  BY <1>2, <1>3 DEF BitcoinVerify

(* Every authenticator built by signing is well formed.                    *)
LEMMA SignRoochWellFormed ==
    ASSUME NEW d \in TxData, NEW k \in Keys
    PROVE  WellFormedAuth(NewAuthenticator(ROOCH, RoochAuth(Hash(d), k), d, k,
                                           "native"))
  BY DEF WellFormedAuth, NewAuthenticator

LEMMA SignBitcoinWellFormed ==
    ASSUME NEW d \in TxData, NEW k \in Keys, NEW i \in InfoInputs,
           NEW w \in {"hash", "raw"}, KeyScheme[k] = "Secp256k1"
    PROVE  WellFormedAuth(NewAuthenticator(BITCOIN,
               BitcoinAuth(NewBitcoinSignMessage(Hash(d), i), k, w), d, k, w))
  BY DEF WellFormedAuth, NewAuthenticator, ROOCH, BITCOIN

(* IInv is inductive.                                                      *)
LEMMA IInvInductive == IInv /\ [Next]_vars => IInv'
<1> SUFFICES ASSUME IInv, [Next]_vars PROVE IInv'
  OBVIOUS
<1>0. TypeOK'
  BY TypeInductive DEF IInv
<1> USE DEF IInv
<1>1. CASE NewTransaction
  BY <1>0, <1>1 DEF NewTransaction, WellFormedAuth
<1>2. ASSUME NEW a \in Actions, CallFunction(a) PROVE IInv'
  BY <1>0, <1>2 DEF CallFunction, Panic
<1>3. ASSUME NEW f, NEW v, SetDataField(f, v) PROVE IInv'
  BY <1>0, <1>3 DEF SetDataField, Panic
<1>4. CASE SetAuth
  BY <1>0, <1>4 DEF SetAuth
<1>5. ASSUME NEW k \in Keys, SignRooch(k) PROVE IInv'
  <2>1. CASE CanHash
    <3>1. data \in TxData
      BY <2>1 DEF CanHash, TypeOK
    <3>2. QED
      BY <1>0, <1>5, <3>1, SignRoochWellFormed DEF SignRooch, Panic, Fail
  <2>2. CASE ~CanHash
    BY <1>0, <1>5, <2>2 DEF SignRooch, Panic
  <2>3. QED
    BY <2>1, <2>2
<1>6. ASSUME NEW k \in Keys, NEW i \in InfoInputs, NEW w \in {"hash", "raw"},
             SignBitcoin(k, i, w)
      PROVE  IInv'
  <2>1. CASE CanHash
    <3>1. data \in TxData
      BY <2>1 DEF CanHash, TypeOK
    <3>2. QED
      BY <1>0, <1>6, <3>1, SignBitcoinWellFormed DEF SignBitcoin, Panic, Fail
  <2>2. CASE ~CanHash
    BY <1>0, <1>6, <2>2 DEF SignBitcoin, Panic
  <2>3. QED
    BY <2>1, <2>2
<1>7. CASE Encode
  BY <1>0, <1>7 DEF Encode, Panic, Fail
<1>8. CASE UNCHANGED vars
  BY <1>0, <1>8 DEF vars, WellFormedAuth
<1>9. QED
  BY <1>1, <1>2, <1>3, <1>4, <1>5, <1>6, <1>7, <1>8
     DEF Next, SetSender, SetChainId, SetSeqNumber

(* IInv implies SignedTxVerifies.                                          *)
LEMMA IInvImpliesSignedTxVerifies == IInv => SignedTxVerifies
<1> SUFFICES ASSUME IInv, lastSent # NoTx, Honest(lastSent)
             PROVE  Verifies(lastSent)
  BY DEF SignedTxVerifies
<1>1. lastSent = [data |-> data, auth |-> auth] /\ auth # NoAuth
      /\ data \in TxData /\ auth \in Authenticators /\ WellFormedAuth(auth)
  BY DEF IInv, TypeOK
<1>2. auth.over = data /\ RoochAddressOf(auth.by) = data.sender
      /\ auth.mode \in {"native", "hash"} /\ auth.by \in Keys
  BY <1>1 DEF Honest, Authenticators
<1>3. CASE auth.validator = ROOCH
  <2>1. auth.payload = RoochAuth(Hash(data), auth.by)
    BY <1>1, <1>2, <1>3 DEF WellFormedAuth, ROOCH, BITCOIN
  <2>2. QED
    BY <1>1, <1>2, <1>3, <2>1, RoochAuthVerifies DEF Verifies
<1>4. CASE auth.validator # ROOCH
  <2>1. PICK i \in InfoInputs :
          auth.payload = BitcoinAuth(NewBitcoinSignMessage(Hash(data), i),
                                     auth.by, "hash")
    BY <1>1, <1>2, <1>4 DEF WellFormedAuth
  <2>2. KeyScheme[auth.by] = "Secp256k1"
    BY <1>1, <1>4 DEF WellFormedAuth
  <2>3. QED
    BY <1>1, <1>2, <1>4, <2>1, <2>2, BitcoinAuthVerifies DEF Verifies
<1>5. QED
  BY <1>3, <1>4

(* An encoded transaction whose authenticator was built over its own data *)
(* by its sender's key, natively or in "hash" mode, is accepted by the    *)
(* validator, for every set of keys, targets, chains and message infos.   *)
THEOREM SignedTxVerifiesHolds == Spec => []SignedTxVerifies
<1>1. Init => IInv
  BY SeqAssumption DEF Init, IInv, TypeOK, WellFormedAuth
<1>2. QED
  BY <1>1, IInvInductive, IInvImpliesSignedTxVerifies, PTL DEF Spec
=============================================================================
