# TLA+ models of the Rooch Go SDK

This directory holds TLA+ models of the Go SDK under
`src/sdk/golang/rooch-sdk`, the TLC configurations that check them, and
TLAPS proofs.  `spec.md` names the core: transaction data, its hash, and
the two authenticators (native and Bitcoin-wrapped) that a validator
accepts or rejects.  The models are written from the Go source. The
validator is not in this repository, so it is written from the spec.

The packages do not build as they stand:
- `transaction.go:24` calls `NewMoveActionCallFunction`, which is not
  defined; `NewCallFunctionAction` is the function that does this job.
- `bcs` declares `StructTag` twice.
- `transport.go` declares a second `RoochHTTPTransport`.
- `session.go` imports a `crypto/ed25519` package and calls
  `types.FromHex`, and neither exists.
- `address` calls `normalizeRoochAddress`, which is not defined.

Each model follows the evident intent: the one definition that does the
job, and the transport of `http_transport.go`.

## The system

| Part | Source | State | Operations | Module |
|---|---|---|---|---|
| Transaction builder | `transactions/transaction.go`, `transaction_data.go` | `t.data`, `t.auth` of one `Transaction` | `CallFunction`, `SetSender`, `SetChainId`, `SetSeqNumber`, `SetAuth`, `HashData`, `Encode` | `TxBuilder` |
| Authenticator builder | `crypto/authenticator.go` | none | `NewBitcoinSignMessage`, `Raw`, `Encode`, `RoochAuth`, `BitcoinAuth` | `TxBuilder` |
| Type/StructTag codec | `bcs/serializer.go`, `bcs/utils.go` | none | `SplitGenericParameters`, `TypeTagParseFromStr`, `TagToString`, `StructTagToObjectID` | `GenericSplit`, `SplitLoop`, `TypeTagCodec` |
| RPC client and transport | `client/client.go`, `client/http_transport.go` | `c.chainID`, `t.requestID` | `GetChainId`, `GetRpcApiVersion`, `GetStates`, `ListStates` and the wrappers like it, `ResolveBTCAddress`, `Request` | `RpcClient`, which refines `ChainIdOracle` |
| HD derivation | `keypairs/ed25519/*.go`, `keypairs/secp256k1/keypair.go` | none | `derivePath`, `DeriveKeypairFromSeed`, `DeriveKeypair` | `HdPath` |
| Session | `session/session.go`, `client.go` `RemoveSession` | the caller's sessions, the node's session keys | `CREATE`, `build`, `Sign`, `ToJSON`, `FromJson`, `RemoveSession` | `Session`, which refines `SessionRegistry` |

How the parts work together:
1. A caller builds a `Transaction`, fills in its data and hashes it.
2. It signs the hash through `RoochAuth` or `BitcoinAuth`. The keys come
   from the keypair packages, often derived from a mnemonic along an HD
   path.
3. It sets the authenticator and encodes the transaction.
4. The validator derives an address from the public key in the
   authenticator, which must equal the sender. It then rebuilds the
   signed message: the hash, or, for Bitcoin, the envelope of prefix,
   varint length, message info and hex hash.

The client sends requests over one unsynchronised HTTP transport.
Sessions create and remove session keys with transactions that the
node executes, and sign with the session key.

The behaviours that are hard to test are listed, with their source
lines, under `hazards` in `PROJECT.json`:
- the order of the builder's calls;
- the length that `BitcoinAuth` writes;
- fields that goroutines share without synchronisation;
- depth counting in the generic-parameter splitter;
- uint32 arithmetic in HD paths;
- the outcome of a session transaction that the caller never learns.

## The modules

### `TxBuilder`: one `Transaction` and every call its owner can make

The variables:
- `data` is `t.data`.
- `auth` is `t.auth`.
- `held` is the authenticator of the last signing call.
- `lastSent` is what `Encode` last returned.
- `outcome` is `"ok"`, `"error"` or `"panic"`.

A panic leaves the object unchanged, which is what a caller that
recovers sees.

| Action | Code |
|---|---|
| `NewTransaction` | a zero `Transaction` |
| `CallFunction(a)` | `NewCallFunction` panics when a non-empty `Target` splits into fewer than three `::` parts. Otherwise `NewTransactionData` runs, and a maxGas of 0 becomes `DEFAULT_GAS` |
| `SetSender`, `SetChainId`, `SetSeqNumber` | the setters through `getData`. Nil data panics because `isValid`'s error is dropped |
| `SetAuth` | `Transaction.SetAuth` |
| `SignRooch(k)` | `HashData` then `RoochAuth`. Nil data or a nil sender panics |
| `SignBitcoin(k, info, mode)` | `HashData`, `NewBitcoinSignMessage`, then `BitcoinAuth` in mode `"hash"` or `"raw"` |
| `Encode` | error on nil data or auth, panic on a nil sender |

The data abstractions:
- A hash is its preimage, which makes it injective.
- A signature is the pair of key and message.
- A message info is `[pre, len, nl]`: whether it has the
  `"Rooch Transaction:\n"` prefix, its length, and whether it ends with
  a newline. The varint length at `authenticator.go:110` is computed as
  the code computes it.
- An authenticator record carries ghost fields: the data it was made
  over, the key and the mode.

The validator, `Verifies`, follows spec 4.4. It checks three things:
- the flag;
- that the address derived from the key is the sender;
- the signature, over the hash or over the rebuilt envelope.

### The codec: `GenericSplit`, `SplitLoop`, `TypeTagCodec`

A string is a sequence of tokens. The characters `:`, `<`, `>`, `,` and
space are tokens of their own. Identifiers, addresses and primitive
names are words.

- **`GenericSplit`** holds one iteration of `SplitGenericParameters`'s
  loop (`Consume`), the flush after it (`Flush`), and the whole function
  as a recursive function over the characters. It also holds the
  reference of spec 4.2, `RefSplit`, and its precondition
  `LegalArgList`.
- **`SplitLoop`** runs the same loop, one iteration per step
  (`Iterate`), then returns (`Return`). This is the form the proof uses,
  because the provers cannot unfold a recursive function.
- **`TypeTagCodec`** is for TLC only, because it uses `RECURSIVE`. It
  holds:
  - the parser, with Go's leftmost-first semantics for its two regular
    expressions;
  - the printer, `TagToString`;
  - `StructTagToCanonicalString` and `StructTagToObjectID`.

  Address normalisation is not in the repository. It is the table
  `AddressNormal`.

### `RpcClient`: one client shared by goroutines

Nothing in `RoochClient` or `RoochHTTPTransport` is synchronised, so
every access to a shared field is a step of its own:
- the load of `t.requestID++` (`IncLoad`) and its store (`IncStore`);
- the re-read that builds the id (`BuildRequest`);
- `GetChainId`'s read of the cache (`CheckCache`) and its write
  (`StoreChainId`).

An HTTP round trip touches nothing shared. It is one step, which ends in
success or in one of the seven error exits of `http_transport.go:85-132`.
The wrapper's handling of the result happens in that same step:
- `ChainIdFetched` and `ChainIdFailed` apply `big.Int.SetString`,
  modelled by what it accepts (an optional sign, then digits) and by
  the value it computes.
- In `StatesFetched`, `GetStates` turns a null result into an empty list
  and a nil error, even when the request failed.
- `ListFetched` and `ApiVersionFetched` return the result and the error.
- In `ResolveFetched`, `ResolveBTCAddress` panics when the view returns
  Option none. An unrecovered panic ends the process, so every
  goroutine's `pc` becomes `"crashed"`.

The ghost `sent` records the requests that went on the wire.

`ChainIdOracle` is the abstract specification of what `GetChainId`
promises. It has one cache and each caller's last result, and four
actions:
- `Hit` returns a full cache;
- `Fetch` fills the cache with the node's id and returns it;
- `Fail` returns an error and leaves the cache alone;
- `Forget` drops a caller's last result when it starts another call.

Nothing in it orders two callers, so two `Fetch`es may race, as they do
in the client. `RpcClient` instances it with `cache <- chainID` and
`got <- GotChainId`, the value and error of each goroutine's last call
when that call was `GetChainId`. `ImplementsChainIdOracle` is
`Oracle!Spec`. Every step of the client maps as follows:
- `CheckCache` on a full cache maps to `Hit`;
- `StoreChainId` maps to `Fetch`;
- `ChainIdFailed` maps to `Fail`;
- `Start`, and the other operations' returns, map to `Forget`;
- every other step is a stutter.

### `HdPath`: the derivations that take a path

A path is a sequence of tokens: `M`, `Slash`, `Quote`, digit runs as the
numbers they spell, and `Junk`. There are four implementations:
- **`derivePath`**: `pathRegex` and `isValidPath`, then `replaceDerive`
  and `ParseUint` on each segment, and a uint32 sum with the offset.
  Nothing in the repository calls it, so its offset argument is the
  model's choice (`HARDENED_OFFSET`). The live form of its index wrap
  is `DeriveKeypairFromSeed`'s (`keypair.go:161`).
- **`DeriveKeypairFromSeed`**: `isValidHardenedPath`, then `Sscanf` and
  the uint32 hardened sum through go-bip32.
- **ed25519 `DeriveKeypair`**: the same, with a well-formed seed.
- **secp256k1 `DeriveKeypair`**: a stub that returns the master key for
  every path.

A key is the HMAC key of its master plus its child indices. Indices have
`Width` bits:
- The code uses 32. The runs use 16, because TLC's integers cannot hold
  2^32.
- The hardened offset is 2^(Width-1). The wrap therefore sits at the
  same place relative to the width.

Each call is one step.

### `Session`: session keys and the node that holds them

The variables:
- `chain` is the node's view: the scopes and interval registered for
  each key.
- `held` is the sessions the caller holds.
- `stored` is the JSON objects that `ToJSON` wrote. Each has a ghost
  `of`, the session it came from.
- `restored` is the last result of `FromJson`.
- `generated` is the keys that `GenerateKeypair` drew.

A scope is the sequence of its `::` parts. The node executes each
transaction with one of four outcomes:
- `"executed"`;
- `"aborted"`: a status other than executed;
- `"failed"`: a transport error before the node saw the transaction;
- `"lost"`: a transport error after the node executed it.

`CREATE` is modelled whole:
- the scope check;
- the insertion of the required scope;
- the default interval;
- key generation;
- `build`'s three-part split and its return rule.

`RemoveSession` is called with either `GetAuthKey`, which has the `"0x"`
prefix, or a bare hex string. `hex.DecodeString` rejects the prefixed
form.

`SessionRegistry` is the abstract specification of what creation and
removal promise, with no scope parsing, key generation, JSON or
transport in it. It has two variables:
- `registry`: the node's entry for each key;
- `issued`: the sessions handed to the caller, as key, scopes and
  interval.

It has three actions:
- `Register(k, e)`: the node writes entry `e` for key `k`. The key must
  have no entry yet. `e` must grant `remove_session_key_entry` and have
  a non-zero interval. The caller is not handed the session. This is
  the lost answer of `session.go:207`.
- `RegisterAndReturn(k, e)`: the same write, and the session is handed
  to the caller.
- `Remove(k)`: the key's entry is removed.

`Session` maps onto it with `registry <- chain` and `issued <-
IssuedSessions`, the key, scopes and interval of every session in
`held`.

## Runs

| Run | Checks | Result |
|---|---|---|
| `txbuilder_pass` | `TypeOK`, `SignedTxVerifies` | passes, 166,567 states |
| `txbuilder_stale_auth` | `EncodedAuthCurrent` | violated: CallFunction, SetSender, sign, SetSender, SetAuth, Encode |
| `split_loop_pass` | `SplitMatchesReference` | passes: every string of at most 6 tokens over `a < > , space` (151,367 states) |
| `typetag_roundtrip` | `ParseInvertsTagToString` | passes: every tag of depth at most 2 and its printed form (838 states) |
| `typetag_object_id` | `ObjectIdOfCanonical` | violated: the object id of a struct tag with a type parameter panics |
| `rpc_chainid_cache` | `ChainIdCacheSound`, `ImplementsChainIdOracle` | passes: 2 goroutines × 2 calls over all five operations (245,431 states) |
| `rpc_duplicate_ids` | `UniqueRequestIds` | violated: two goroutines inside `t.requestID++` send the same id |
| `hd_slip10_paths` | `ValidPathsDeriveSlip10` | passes: every tokenised path of at most 5 tokens, and the default path (222,330 states) |
| `hd_index_wrap` | `DerivedPathsAreSlip10` | violated: `m/0'/2^15'` derives child 0 at its second level |
| `hd_bip32_master` | `DerivesEd25519Master` | violated: the keypair derivations use the `"Bitcoin seed"` master |
| `session_revocable` | `SessionsRevocable`, `ImplementsSessionRegistry` | passes, 162,228 states |
| `session_restore` | `SessionRestorable` | violated: CREATE, ToJSON, FromJson |

What the passing properties say:
- **`SignedTxVerifies`**: an encoded transaction is accepted when its
  authenticator was made over that very data with the sender's key. It
  depends on the flag registry, the address derivation, the varint
  length, and the message info's prefix and newline all agreeing.
- **`SplitMatchesReference`** and **`ParseInvertsTagToString`**: the
  code agrees with the spec's reference definitions.
- **`ChainIdCacheSound`**: the check-then-fetch-then-store race on
  `c.chainID` is harmless. Every store writes the node's id, whatever
  decimal spelling the node uses.
- **`ImplementsChainIdOracle`**: beyond soundness, the cache is never
  emptied or changed once filled, and a failed call leaves it as it
  was. Its mutant makes a failed `GetChainId` clear `c.chainID`. That
  bug keeps `ChainIdCacheSound` true but breaks the refinement.
- **`ValidPathsDeriveSlip10`**: every Ed25519 entry point derives a
  SLIP-0010 path along exactly its hardened indices.
- **`SessionsRevocable`**: every session key the node registers, and
  every session the caller holds, can call `remove_session_key_entry`.
  This holds through creates with any outcome, removals, signing and
  JSON round trips.
- **`ImplementsSessionRegistry`**: `Session` implements
  `SessionRegistry`. A `CREATE` never overwrites a key the node already
  holds. Only a removal changes an entry. Every session the caller
  holds was handed out by the `CREATE` that registered it, with the
  same scopes and interval. Signing, saving and restoring never
  produce a session the node did not register. The restoring part
  holds vacuously in the code as it is, because `FromJson` never
  succeeds (see `SessionRestorable`). It becomes a real constraint once
  that bug is fixed. Its mutant keeps a zero
  interval instead of `DefaultMaxInactiveInterval`, which writes an
  entry that the registry forbids.

Each violation run is a finding in `PROJECT.json`.

Why the bounds are enough:
- **TxBuilder.** Two keys, one per scheme. A well-formed call target and
  one with a single part. Sequence numbers 0..1. Message infos with and
  without the prefix, the newline and an empty body (an empty body is
  where `HasSuffix` is already true). This is enough to sign, change
  the data, re-sign with the other scheme and encode.
- **Codec.** Six tokens reach nesting two deep, commas inside and
  outside brackets, a depth below zero, and spaces to trim. Tags of
  depth 2 reach nested generics, where a lazy `(.+)` would cut at the
  first `>`.
- **RpcClient.** Two goroutines with two calls each. That is enough for
  both to miss the cache and race their stores, and for the loads and
  stores of the counter to interleave.
- **HdPath.** The digit runs 0, 2^15-1, 2^15, 2^16-1 and 2^16. These are
  the edges of the hardened range and of the index width.
- **Session.**
  - Keys: one user key and two generated keys, with symmetry over the
    generated ones.
  - Limits: `MaxCreates = 2` and `MaxTime = 1`.
  - Scope lists: empty, a non-0x3 scope, the 0x3 wildcard, a two-part
    scope, and one with no `::`.

  This reaches two sessions on one key, and every path through `CREATE`.

Fairness: none. Every property checked is a safety property. The builder
and the derivations are driven by their caller. The HTTP client has no
timeout, so a round trip may never end.

Every property of a passing run has a mutant in `PROJECT.json`: a
plausible bug in the mapped code that TLC must catch under the run's own
configuration.

## What is proved

### `TxBuilder_proofs`

These proofs assume `KeysAssumption`, `TargetAssumption`,
`SeqAssumption` and `InfoAssumption`.

`TypeCorrect` proves `Spec => []TypeOK`. It goes through the lemma
`TypeInductive`, with one step per action.

`SignedTxVerifiesHolds` proves `Spec => []SignedTxVerifies`. That
property is not inductive on its own: a state with an ill-formed `auth`
satisfies it until `Encode` runs. The strengthening `IInv` adds three
facts:
- `held` and `auth` are what `RoochAuth` or `BitcoinAuth` build over
  the hash of their ghost data;
- an encoded transaction is the current pair of data and authenticator;
- that authenticator is set.

The argument:
- TLC checked `IInv` on the `txbuilder_pass` instance before the proof
  was written.
- `SignRoochWellFormed` and `SignBitcoinWellFormed` show that signing
  preserves `IInv`.
- `RoochAuthVerifies` and `BitcoinAuthVerifies` show that an honest
  authenticator passes the validator.

### `RpcClient_proofs`

These proofs assume `ChainAssumption` and `AnswersAssumption`. The
second says that every answer `SetString` accepts spells the node's
chain id.

`TypeCorrect` and `ChainIdCacheSoundHolds` hold for any number of
goroutines and calls. Both rest on
`IInv == TypeOK /\ ChainIdCacheSound /\ CacheStoreReady`:
- `CacheStoreReady` says that a goroutine about to store holds an
  accepted answer. Without it, the store step could write anything.
- TLC checked `IInv` on the `rpc_chainid_cache` instance
  (245,431 states). For that check, `TypeOK`'s test of `ret` was written
  out per operation, because TLC cannot compare an integer with a
  string.

`Refinement` proves `Spec => ImplementsChainIdOracle`, following the
layout of a refinement proof:
- `Init` maps to `Oracle!Init`;
- `NextRefines` shows that, under `IInv`, every step of `Next` is an
  `Oracle!Next` step or leaves `chainID` and `GotChainId` unchanged.
  It has one step per action.
- Two lemmas carry the mapping through an update of `ret`:
  `GotAfterRet` and `GotUnchanged`.
- `CacheStoreReady` is what lets `StoreChainId` map to `Fetch`.
- The `ASSUME` `NoRetAssumption` says that `NoRet` is no `GetChainId`
  result.

### `SplitLoop_proofs`

`SplitMatchesReferenceHolds` proves `Spec => []SplitMatchesReference`
for input strings of every length. It assumes `InputsAssumption`.

`SplitMatchesReference` speaks only of the final state, so it is not
inductive: nothing ties the locals to the input while the loop runs.
`IInv` adds `LocalsMatchPrefix(str, i, depth, current, result)`, which
holds while the loop runs. With `CutsBefore(str, i)` the start (0) and
the top-level commas before position `i`, and `Cuts` listing a set of
cuts in increasing order (as `RefSplit` does), it says:
- `depth` is the depth of the prefix read (`DepthBefore`);
- `result` is the trimmed pieces between those cuts;
- `current` is the text since the last cut.

TLC checked `IInv` on the `split_loop_pass` instance (151,367 states)
before the proof.

The argument:
- `IterateEffect` flattens `Consume`'s `CASE` into its effect on the
  three locals.
- Lemmas about the prefix as one more character is read:
  - `DepthStep` and `CountStep`: the depth moves only on `<` and `>`.
  - `CutsBeforeStep`: the position read becomes a cut exactly when it is
    a comma at depth 0, which is the test the loop makes.
- `CutsAdd`: a cut past all the others is listed last, and the others
  keep their places.
- `PiecesExtend`: one more cut appends one more piece.
- `SubSeqExtend`: one more character extends `current`.
- `ReturnIInv`: at the end, the cuts of `RefSplit` are the loop's cuts
  plus `Len(str) + 1` (`RefSplitPieces`). So the spec's split is
  `result` with `current` trimmed and appended.
  - If `current` is not empty, that is what `Flush` returns.
  - If it is empty, the spec's last piece is blank, so `LegalArgList`
    is false and there is nothing to prove.

### `Session_proofs`

`SessionsRevocableHolds` proves `Spec => []SessionsRevocable` for every
set of keys, scope arguments, intervals and bounds. It assumes
`SessionAssumption`.

The lemma `WithRequiredScopeRevocable` covers CREATE's completion of
the scopes: the result is revocable whatever scopes CREATE was given.

The invariant is not inductive alone, because `FromJson` adds to `held`
whatever `ToJSON` stored. `IInv` strengthens it with two facts:
- every stored object has revocable scopes;
- held and restored sessions are five-field records (`IsSession`), so
  `Sign`'s `EXCEPT` keeps their scopes.

TLC checked `IInv` on the `session_revocable` instance before the proof
(162,228 states).

`SessionRegistryRefinement` proves `Spec => ImplementsSessionRegistry`
under the same assumption.

The invariant is `RInv`: `IInv`, and every stored object stands for a
session the caller holds (`SavedSession(j) \in IssuedSessions`).
Without that second fact, a `FromJson` step could hand out a session
that no `CREATE` registered. TLC checked `RInv` on the
`session_revocable` instance first (162,228 states).

The step proof `NextRefines` takes each action in turn:
- `Create` with `"executed"` is `RegisterAndReturn`. The node's guard
  gives the empty entry, and `CreateEntryValid` gives the permission
  and the non-zero interval (from `WithRequiredScopeRevocable` and
  `EffectiveIntervalNonZero`).
- `Create` with `"lost"` on an empty key is `Register`.
- Every other `Create` is a stutter.
- A `RemoveSession` that reaches the node with a bare key is `Remove`.
  A prefixed key or a refused transaction is a stutter.
- `Sign` is a stutter. Its record keeps key, scopes and interval
  (`SignKeepsIssued`).
- `FromJson` is a stutter. What it adds is already handed out, by
  `RInv` and `IssuedAdd`.
- `ToJSON`, `CreateRejected` and `Tick` change neither `chain` nor
  `held` (`RegistryStutter`).

### Only model-checked

- `ParseInvertsTagToString`: `TypeTagCodec` uses `RECURSIVE`, and
  tlapm has no SMT backend in a module that reaches one.
- `ValidPathsDeriveSlip10`: `HdPath` splits and walks the path with
  recursive functions (`f[n \in Nat] == ...`). Proving what they
  compute for every path needs induction over the data. The library's
  induction theorems take an operator parameter, which none of the
  installed provers can instantiate. Unfolding the definition needs the
  same kind of theorem.
- `SplitGenericParameters` as the recursive function of
  `GenericSplit`, for the same reason. Its loop is proved as the state
  machine `SplitLoop` instead.
- The violation runs (`SessionRestorable` and the others), which TLC
  refutes.
- Liveness and `ENABLED`, which TLAPS does not handle. No property of
  the project needs them: there is no fairness to assume.

## Not modelled, and the plan

Not modelled:
- the BCS byte layout, which is abstracted as an injective encoding;
- curve arithmetic and HMAC, which are black boxes;
- JSON and HTTP plumbing;
- `Transfer` and `TransferObject`, which call
  `SignAndExecuteTransaction`, which the package does not define;
- `CreateSession` (`client.go:202-208`), which forwards to
  `session.Create` and `session.CreateParams`, neither of them defined
  anywhere. `CREATE` is the function that does the job, and it is
  modelled;
- the error types of `client/error.go` and `utils/error.go`, which
  nothing constructs;
- `address/bitcoin.go` (`NewBitcoinAddress` and the `GenRoochAddress`
  memo). Its helpers `decode`, `wrapAddress`, `calculateTapTweak` and
  `stripHexPrefix` are defined nowhere in the repository, and
  `rawAddress` is never set. `FromJson` calls `NewBitcoinAddress` with
  one argument of its two. Only the memo's check-then-fill remains
  modellable. It writes one deterministic hash, so it is the pattern
  `ChainIdCacheSound` already covers for `c.chainID`. It is listed as
  a hazard without a property of its own;
- the finality types and the multi-sender script.

The plan:
1. A refinement of `TxBuilder` to an abstract "build, freeze, sign"
   specification, for the call orders the spec allows.
2. A proof of the HD index arithmetic.
3. A property for the lost `CREATE` answer (`session.go:207`): a key
   generated inside `CREATE` is registered on the node, but the caller
   never learns it. `SessionRegistry` admits this as `Register`.
   Stating that it must not happen needs a violation run, and the
   project already has twelve runs.
