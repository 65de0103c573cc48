------------------------------ MODULE TxBuilder ------------------------------
(***************************************************************************)
(* One Transaction object of the Go SDK (transactions/transaction.go) as  *)
(* its caller drives it: CallFunction, the three setters, signing through *)
(* the native (RoochAuth) or the Bitcoin (BitcoinAuth) authenticator of   *)
(* crypto/authenticator.go, SetAuth and Encode.  Every call may come in   *)
(* any order, as the API allows.                                          *)
(*                                                                         *)
(* Data is abstracted to what the properties tell apart: hashes and       *)
(* signatures are ideal (a hash is its preimage, a signature the pair of  *)
(* key and message), a public key is a model value, a message info is a  *)
(* record of its prefix, body length and trailing newline.  The on-chain  *)
(* validator that accepts or rejects an encoded transaction is not in     *)
(* this repository; Verifies models it from the spec (section 4.4).       *)
(***************************************************************************)
EXTENDS Naturals

CONSTANTS
    Keys,        \* the signers' public keys
    KeyScheme,   \* the scheme of each key: "ED25519" or "Secp256k1"
    Actions,     \* call-function arguments
    TargetParts, \* of each: the parts strings.Split(Target, "::") yields, 0 for no Target
    Chains,      \* chain ids the caller may set
    MaxSeq,      \* largest sequence number the caller sets
    InfoInputs,  \* message infos the caller passes to NewBitcoinSignMessage
    NoData, NoAuth, NoSender, NoTx   \* the nil pointers

ASSUME KeysAssumption == KeyScheme \in [Keys -> {"ED25519", "Secp256k1"}]
ASSUME TargetAssumption == TargetParts \in [Actions -> Nat]
ASSUME SeqAssumption == MaxSeq \in Nat
ASSUME InfoAssumption ==
    InfoInputs \subseteq [pre : BOOLEAN, len : Nat, nl : BOOLEAN]

VARIABLES
    data,      \* t.data: NoData or the TransactionData record
    auth,      \* t.auth: NoAuth or the Authenticator set by SetAuth
    held,      \* the authenticator the caller got from its last signing
    lastSent,  \* what the last call returned if it was Encode, else NoTx
    outcome    \* how the last call ended: "ok", "error" or "panic"

vars == <<data, auth, held, lastSent, outcome>>

-----------------------------------------------------------------------------
(* Constants of the code.                                                  *)
DEFAULT_GAS == 50000000
ROOCH == 0
BITCOIN == 1
MessageInfoPrefixLen == 19   \* len("Rooch Transaction:\n")
HexHashLen == 64             \* len(hex of a 32-byte hash)

(* The scheme registry of the crypto package (not under src/).            *)
SignatureSchemeToFlag == [s \in {"ED25519", "Secp256k1"} |->
                            IF s = "ED25519" THEN 0 ELSE 1]
SignatureFlagToScheme == [f \in {0, 1} |->
                            IF f = 0 THEN "ED25519" ELSE "Secp256k1"]

(* Taproot address of a key (address.FromPublicKey) and the Rooch address *)
(* of a key: BLAKE2b of flag || key for Ed25519, BLAKE2b of the Bitcoin   *)
(* address bytes for secp256k1 (BitcoinAddress.GenRoochAddress).          *)
BitcoinAddressOf(k) == [taproot |-> k]
RoochAddressOf(k) ==
    IF KeyScheme[k] = "ED25519"
    THEN [blake2b |-> <<SignatureSchemeToFlag["ED25519"], k>>]
    ELSE [blake2b |-> <<BitcoinAddressOf(k)>>]

Addresses == {RoochAddressOf(k) : k \in Keys}

TxData == [sender : Addresses \cup {NoSender}, seq : 0..MaxSeq,
           chain : {0} \cup Chains, maxGas : {DEFAULT_GAS}, action : Actions]

(* Mutant: the maxGas = 0 default dropped.                                 *)
NewTransactionDataNoDefault(a, maxGas) ==
    [sender |-> NoSender, seq |-> 0, chain |-> 0, maxGas |-> maxGas,
     action |-> a]

(* NewTransactionData: a maxGas of 0 becomes DEFAULT_GAS, an empty sender *)
(* a nil one.  CallFunction passes the action only, so sender is nil and  *)
(* sequence number, chain id and maxGas are zero.                          *)
NewTransactionData(a, maxGas) ==
    [sender |-> NoSender, seq |-> 0, chain |-> 0,
     maxGas |-> IF maxGas = 0 THEN DEFAULT_GAS ELSE maxGas, action |-> a]

(* TransactionData.Hash: SHA3-256 of the BCS encoding, taken as ideal.    *)
Hash(d) == d
Sign(k, m) == [by |-> k, msg |-> m]

-----------------------------------------------------------------------------
(* The Bitcoin sign message.                                               *)
ByteLen(i) == (IF i.pre THEN MessageInfoPrefixLen ELSE 0) + i.len
                + (IF i.nl THEN 1 ELSE 0)
EndsWithNewline(i) == i.nl \/ (i.pre /\ i.len = 0)

NewBitcoinSignMessage(h, info) ==
    LET prefixed == [info EXCEPT !.pre = TRUE]
    IN  [info   |-> IF EndsWithNewline(prefixed) THEN prefixed
                    ELSE [prefixed EXCEPT !.nl = TRUE],
         txHash |-> h]

(* Encode (prefix, varint length, info, hex hash) and Raw (info, hex).    *)
SignMessageEncode(m) ==
    [kind |-> "envelope", len |-> ByteLen(m.info) + HexHashLen,
     info |-> m.info, hash |-> m.txHash]
SignMessageRaw(m) ==
    [kind |-> "raw", len |-> 0, info |-> m.info, hash |-> m.txHash]

RoochAuth(h, k) ==
    [flag |-> SignatureSchemeToFlag[KeyScheme[k]], sig |-> Sign(k, h), pk |-> k]

(* Mutant: the varint length in the payload's message prefix counts the  *)
(* message info only, not the hex hash that follows it.                   *)
BitcoinAuthShortLength(m, k, signWith) ==
    [sig       |-> Sign(k, IF signWith = "hash" THEN SignMessageEncode(m)
                           ELSE SignMessageRaw(m)),
     prefixLen |-> ByteLen(m.info),
     info      |-> m.info,
     pk        |-> k,
     from      |-> BitcoinAddressOf(k)]

BitcoinAuth(m, k, signWith) ==
    [sig       |-> Sign(k, IF signWith = "hash" THEN SignMessageEncode(m)
                           ELSE SignMessageRaw(m)),
     prefixLen |-> ByteLen(m.info) + HexHashLen,
     info      |-> m.info,
     pk        |-> k,
     from      |-> BitcoinAddressOf(k)]

(* An authenticator with the ghost fields over (the data whose hash was   *)
(* signed), by (the signer) and mode (how it signed).                     *)
NewAuthenticator(id, payload, d, k, mode) ==
    [validator |-> id, payload |-> payload, over |-> d, by |-> k, mode |-> mode]

-----------------------------------------------------------------------------
Init ==
    /\ data = NoData
    /\ auth = NoAuth
    /\ held = NoAuth
    /\ lastSent = NoTx
    /\ outcome = "ok"

(* A call that panics: through getData with t.data nil, or in            *)
(* NewCallFunction.                                                         *)
Panic == outcome' = "panic" /\ lastSent' = NoTx /\ UNCHANGED <<data, auth, held>>
Fail == outcome' = "error" /\ lastSent' = NoTx /\ UNCHANGED <<data, auth, held>>

(* The caller drops the object and starts a zero Transaction.              *)
NewTransaction ==
    /\ data' = NoData /\ auth' = NoAuth /\ outcome' = "ok"
    /\ lastSent' = NoTx /\ UNCHANGED held

(* NewCallFunction: a non-empty Target is split on "::" and parts[0],     *)
(* parts[1] and parts[2] are read, out of range below three parts.        *)
NewCallFunctionPanics(a) == TargetParts[a] \in 1..2

CallFunction(a) ==
    \/ NewCallFunctionPanics(a) /\ Panic
    \/ /\ ~NewCallFunctionPanics(a)
       /\ data' = NewTransactionData(a, 0)
       /\ outcome' = "ok"
       /\ lastSent' = NoTx
       /\ UNCHANGED <<auth, held>>

SetDataField(f, v) ==
    \/ data = NoData /\ Panic
    \/ /\ data # NoData
       /\ data' = [data EXCEPT ![f] = v]
       /\ outcome' = "ok"
       /\ lastSent' = NoTx
       /\ UNCHANGED <<auth, held>>

SetSender(s) == SetDataField("sender", s)
SetChainId(c) == SetDataField("chain", c)
SetSeqNumber(n) == SetDataField("seq", n)

SetAuth ==
    /\ auth' = held
    /\ outcome' = "ok"
    /\ lastSent' = NoTx
    /\ UNCHANGED <<data, held>>

(* HashData panics on nil data and, in TransactionData.Encode, on a nil   *)
(* sender; the signer's Sign may return an error.                          *)
CanHash == data # NoData /\ data.sender # NoSender

SignRooch(k) ==
    \/ ~CanHash /\ Panic
    \/ CanHash /\ Fail
    \/ /\ CanHash
       /\ held' = NewAuthenticator(ROOCH, RoochAuth(Hash(data), k), data, k,
                                   "native")
       /\ outcome' = "ok"
       /\ lastSent' = NoTx
       /\ UNCHANGED <<data, auth>>

SignBitcoin(k, info, signWith) ==
    /\ KeyScheme[k] = "Secp256k1"
    /\ \/ ~CanHash /\ Panic
       \/ CanHash /\ Fail
       \/ LET m == NewBitcoinSignMessage(Hash(data), info)
          IN /\ CanHash
             /\ m.info.pre
             /\ held' = NewAuthenticator(BITCOIN, BitcoinAuth(m, k, signWith),
                                         data, k, signWith)
             /\ outcome' = "ok"
             /\ lastSent' = NoTx
             /\ UNCHANGED <<data, auth>>

Encode ==
    \/ (data = NoData \/ auth = NoAuth) /\ Fail
    \/ data # NoData /\ auth # NoAuth /\ data.sender = NoSender /\ Panic
    \/ /\ data # NoData /\ auth # NoAuth /\ data.sender # NoSender
       /\ lastSent' = [data |-> data, auth |-> auth]
       /\ outcome' = "ok"
       /\ UNCHANGED <<data, auth, held>>

Next ==
    \/ NewTransaction
    \/ \E a \in Actions : CallFunction(a)
    \/ \E s \in Addresses : SetSender(s)
    \/ \E c \in Chains : SetChainId(c)
    \/ \E n \in 0..MaxSeq : SetSeqNumber(n)
    \/ SetAuth
    \/ \E k \in Keys : SignRooch(k)
    \/ \E k \in Keys, i \in InfoInputs, w \in {"hash", "raw"} :
          SignBitcoin(k, i, w)
    \/ Encode

Spec == Init /\ [][Next]_vars

-----------------------------------------------------------------------------
(* The validator (spec 4.4, not in this repository).                       *)
DeriveAddress(flag, pk) ==
    IF SignatureFlagToScheme[flag] = "ED25519"
    THEN [blake2b |-> <<flag, pk>>]
    ELSE [blake2b |-> <<BitcoinAddressOf(pk)>>]

RoochVerify(d, p) ==
    /\ p.flag \in DOMAIN SignatureFlagToScheme
    /\ SignatureFlagToScheme[p.flag] = KeyScheme[p.pk]
    /\ DeriveAddress(p.flag, p.pk) = d.sender
    /\ p.sig = Sign(p.pk, Hash(d))

BitcoinVerify(d, p) ==
    /\ p.from = BitcoinAddressOf(p.pk)
    /\ [blake2b |-> <<p.from>>] = d.sender
    /\ p.sig = Sign(p.pk, [kind |-> "envelope", len |-> p.prefixLen,
                           info |-> p.info, hash |-> Hash(d)])

Verifies(tx) ==
    IF tx.auth.validator = ROOCH THEN RoochVerify(tx.data, tx.auth.payload)
    ELSE BitcoinVerify(tx.data, tx.auth.payload)

-----------------------------------------------------------------------------
InfoValues == [pre : BOOLEAN, len : Nat, nl : BOOLEAN]
RoochPayloads == [flag : {0, 1}, sig : [by : Keys, msg : TxData], pk : Keys]
BitcoinPayloads ==
    [sig : [by : Keys, msg : [kind : {"envelope", "raw"}, len : Nat,
                              info : InfoValues, hash : TxData]],
     prefixLen : Nat, info : InfoValues, pk : Keys, from : [taproot : Keys]]
Authenticators ==
    [validator : {ROOCH, BITCOIN}, payload : RoochPayloads \cup BitcoinPayloads,
     over : TxData, by : Keys, mode : {"native", "hash", "raw"}]

(* Every variable holds a value of its type; a transaction only ever has  *)
(* the default gas budget, since CallFunction passes no maxGas.            *)
TypeOK ==
    /\ data \in TxData \cup {NoData}
    /\ auth \in Authenticators \cup {NoAuth}
    /\ held \in Authenticators \cup {NoAuth}
    /\ lastSent \in [data : TxData, auth : Authenticators] \cup {NoTx}
    /\ outcome \in {"ok", "error", "panic"}

(* An encoded transaction whose authenticator was built over its own data *)
(* by the key of its sender, natively or in "hash" mode, is accepted by   *)
(* the validator: flag, varint length, message info and from-address that *)
(* RoochAuth and BitcoinAuth put in the payload match what was signed.    *)
Honest(tx) ==
    /\ tx.auth.over = tx.data
    /\ RoochAddressOf(tx.auth.by) = tx.data.sender
    /\ tx.auth.mode \in {"native", "hash"}

SignedTxVerifies == lastSent # NoTx /\ Honest(lastSent) => Verifies(lastSent)

(* The spec: TransactionData is built, then frozen, and the authenticator *)
(* is produced for it.  So Encode should only return a transaction whose  *)
(* authenticator was built over the data it is encoded with.               *)
EncodedAuthCurrent == lastSent # NoTx => lastSent.auth.over = lastSent.data

-----------------------------------------------------------------------------
(* The inductive strengthening of SignedTxVerifies: every authenticator   *)
(* the caller holds or has set was built by RoochAuth or BitcoinAuth over *)
(* the data recorded in its over field, and what Encode returned is the   *)
(* current data and authenticator.                                         *)
WellFormedAuth(a) ==
    \/ a = NoAuth
    \/ /\ a.validator = ROOCH /\ a.mode = "native"
       /\ a.payload = RoochAuth(Hash(a.over), a.by)
    \/ /\ a.validator = BITCOIN /\ a.mode \in {"hash", "raw"}
       /\ KeyScheme[a.by] = "Secp256k1"
       /\ \E i \in InfoInputs :
            a.payload = BitcoinAuth(NewBitcoinSignMessage(Hash(a.over), i),
                                    a.by, a.mode)

IInv ==
    /\ TypeOK
    /\ WellFormedAuth(held)
    /\ WellFormedAuth(auth)
    /\ lastSent # NoTx => /\ lastSent = [data |-> data, auth |-> auth]
                         /\ auth # NoAuth
=============================================================================
