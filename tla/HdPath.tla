------------------------------- MODULE HdPath -------------------------------
(***************************************************************************)
(* The key derivations of the SDK that take a path:                       *)
(*   - derivePath (keypairs/ed25519/ed25519_hd_key.go), SLIP-0010 over     *)
(*     HMAC-SHA512 keyed "ed25519 seed";                                   *)
(*   - DeriveKeypairFromSeed and DeriveKeypair (keypairs/ed25519/          *)
(*     keypair.go), BIP-32 through go-bip32, whose master key is keyed     *)
(*     "Bitcoin seed";                                                     *)
(*   - DeriveKeypair of keypairs/secp256k1/keypair.go.                     *)
(* A path string is a sequence of tokens: the characters m, / and ' are   *)
(* the negative codes M, Slash and Quote; a maximal run of decimal digits *)
(* is the natural number it spells; any other run of characters is Junk.  *)
(* A seed is "ok" or "badHex" (hex.DecodeString fails); HMAC-SHA512 and  *)
(* bip32.NewMasterKey take a seed of any length.  A derived key is        *)
(* abstracted to the HMAC key of its master and the child indices applied *)
(* to it, which is what decides the key given the seed.  Indices are      *)
(* unsigned integers of Width bits (32 in the code): every sum is taken   *)
(* modulo 2^Width, and the hardened offset is 2^(Width-1) (0x80000000).   *)
(* ParseInt(_, 10, 64) in isValidPath is taken to succeed on every digit  *)
(* run, as it does on every run below 2^63.                                *)
(***************************************************************************)
EXTENDS Integers, Sequences

CONSTANTS Width, Paths, Seeds

M == -1
Slash == -2
Quote == -3
Junk == -4

Symbols == {M, Slash, Quote, Junk}

ASSUME HdAssumption ==
    /\ Width \in Nat \ {0}
    /\ Paths \subseteq Seq(Symbols \cup Nat)
    /\ Seeds \subseteq {"ok", "badHex"}

U32 == 2^Width

HARDENED_OFFSET == 2^(Width - 1)

Err == [master |-> "none", indices |-> <<>>]

Key(master, idx) == [master |-> master, indices |-> idx]

-----------------------------------------------------------------------------
(* The form crypto/mnemonics.go:13 calls SLIP-0010: m, then one or more   *)
(* hardened segments /n' with n < HARDENED_OFFSET; segment n is child     *)
(* n + HARDENED_OFFSET.                                                    *)
Segments(p) == (Len(p) - 1) \div 3

Slip10Path(p) ==
    /\ Len(p) >= 4
    /\ p[1] = M
    /\ (Len(p) - 1) % 3 = 0
    /\ \A j \in 0..Segments(p) - 1 :
          /\ p[2 + 3 * j] = Slash
          /\ p[3 + 3 * j] \in 0..HARDENED_OFFSET - 1
          /\ p[4 + 3 * j] = Quote

Slip10Indices(p) == [j \in 1..Segments(p) |-> p[3 * j] + HARDENED_OFFSET]

-----------------------------------------------------------------------------
(* strings.Split(s, "/") over tokens.                                      *)
SplitOnSlash(s) ==
    LET st[n \in 0..Len(s)] ==
          IF n = 0 THEN [cur |-> <<>>, res |-> <<>>]
          ELSE IF s[n] = Slash
               THEN [cur |-> <<>>, res |-> Append(st[n - 1].res, st[n - 1].cur)]
               ELSE [st[n - 1] EXCEPT !.cur = Append(@, s[n])]
    IN  Append(st[Len(s)].res, st[Len(s)].cur)

ED25519_CURVE == "ed25519 seed"

(* replaceDerive: strings.ReplaceAll(val, "'", "").                        *)
ReplaceDerive(seg) == SelectSeq(seg, LAMBDA t : t # Quote)

(* derivePath.  isValidPath is the regular expression ^m(/[0-9]+')+$      *)
(* (ParseInt(_, 10, 64) then succeeds on every segment of the model).     *)
IsValidPath(p) ==
    /\ Len(p) >= 4
    /\ p[1] = M
    /\ (Len(p) - 1) % 3 = 0
    /\ \A j \in 0..Segments(p) - 1 :
          /\ p[2 + 3 * j] = Slash
          /\ p[3 + 3 * j] \in Nat
          /\ p[4 + 3 * j] = Quote

(* strconv.ParseUint(s, 10, 32) with its error ignored: out of range      *)
(* yields the largest index.                                               *)
ParseUint32(n) == IF n < U32 THEN n ELSE U32 - 1

(* Mutant: the offset left out of the sum.                                 *)
ChildIndexNoOffset(n, offset) == ParseUint32(n) % U32

(* uint32(index) + offset.                                                 *)
ChildIndex(n, offset) == (ParseUint32(n) + offset) % U32

(* The segments after "m", each stripped of its ' and parsed; a valid     *)
(* path makes each one a single digit run.                                 *)
DerivePath(p, seed, offset) ==
    LET segs == Tail(SplitOnSlash(p)) IN
    IF ~IsValidPath(p) \/ seed = "badHex" THEN Err
    ELSE Key(ED25519_CURVE,
             [j \in 1..Len(segs) |-> ChildIndex(ReplaceDerive(segs[j])[1], offset)])

-----------------------------------------------------------------------------
(* DeriveKeypairFromSeed.                                                  *)

DefaultEd25519DerivationPath ==
    <<M, Slash, 44, Quote, Slash, 784, Quote, Slash, 0, Quote,
         Slash, 0, Quote, Slash, 0, Quote>>

(* isValidHardenedPath: prefix "m/", and every non-empty segment ends     *)
(* with '.                                                                 *)
IsValidHardenedPath(p) ==
    /\ Len(p) >= 2 /\ p[1] = M /\ p[2] = Slash
    /\ \A i \in 1..Len(SplitOnSlash(SubSeq(p, 3, Len(p)))) :
          LET seg == SplitOnSlash(SubSeq(p, 3, Len(p)))[i] IN
          seg # <<>> => seg[Len(seg)] = Quote

(* fmt.Sscanf(segment, "%d", &uint32): a leading run of digits that fits  *)
(* in the index width; what follows it is not read.                       *)
SscanfOk(body) == body # <<>> /\ body[1] \in 0..U32 - 1

(* index = 0x80000000; index += segmentIndex.                              *)
BipIndex(body) == (HARDENED_OFFSET + body[1]) % U32

DeriveKeypairFromSeed(path, seed) ==
    LET p == IF path = <<>> THEN DefaultEd25519DerivationPath ELSE path
        segs == SelectSeq(SplitOnSlash(SubSeq(p, 3, Len(p))), LAMBDA s : s # <<>>)
        bodies == [i \in 1..Len(segs) |-> SubSeq(segs[i], 1, Len(segs[i]) - 1)]
    IN  IF \/ ~IsValidHardenedPath(p)
           \/ seed = "badHex"
           \/ \E i \in 1..Len(bodies) : ~SscanfOk(bodies[i])
        THEN Err
        ELSE Key("Bitcoin seed", [i \in 1..Len(bodies) |-> BipIndex(bodies[i])])

(* secp256k1 DeriveKeypair: the master key of the mnemonic's seed,       *)
(* whatever the path ("Implementation of path derivation would go here"). *)
Secp256k1DeriveKeypair(p) == Key("Bitcoin seed", <<>>)

-----------------------------------------------------------------------------
VARIABLES path, seed, impl, result

vars == <<path, seed, impl, result>>

Init ==
    /\ path \in Paths
    /\ seed \in Seeds
    /\ impl = "none"
    /\ result = Err

(* derivePath(path, seed, HARDENED_OFFSET), the offset its callers in the *)
(* SLIP-0010 scheme pass.                                                  *)
CallDerivePath ==
    /\ impl = "none"
    /\ impl' = "derivePath"
    /\ result' = DerivePath(path, seed, HARDENED_OFFSET)
    /\ UNCHANGED <<path, seed>>

CallDeriveKeypairFromSeed ==
    /\ impl = "none"
    /\ impl' = "DeriveKeypairFromSeed"
    /\ result' = DeriveKeypairFromSeed(path, seed)
    /\ UNCHANGED <<path, seed>>

(* ed25519 DeriveKeypair(mnemonics, path): the same checks, then         *)
(* deriveKeypairFromSeed on the hex of bip39.NewSeed, which is always a   *)
(* well-formed 64-byte seed.                                               *)
CallDeriveKeypair ==
    /\ impl = "none"
    /\ impl' = "DeriveKeypair"
    /\ result' = DeriveKeypairFromSeed(path, "ok")
    /\ UNCHANGED <<path, seed>>

CallSecp256k1DeriveKeypair ==
    /\ impl = "none"
    /\ impl' = "secp256k1.DeriveKeypair"
    /\ result' = Secp256k1DeriveKeypair(path)
    /\ UNCHANGED <<path, seed>>

Next ==
    \/ CallDerivePath \/ CallDeriveKeypairFromSeed \/ CallDeriveKeypair
    \/ CallSecp256k1DeriveKeypair

Spec == Init /\ [][Next]_vars

-----------------------------------------------------------------------------
Ed25519Impls == {"derivePath", "DeriveKeypairFromSeed", "DeriveKeypair"}

(* Every Ed25519 entry point derives a SLIP-0010 path with a good seed    *)
(* along exactly the hardened child indices the path names.               *)
ValidPathsDeriveSlip10 ==
    impl \in Ed25519Impls /\ Slip10Path(path) /\ seed = "ok"
       => result # Err /\ result.indices = Slip10Indices(path)

(* An Ed25519 entry point that succeeds was given a SLIP-0010 path and    *)
(* derives along its indices: no other string stands for a key.            *)
DerivedPathsAreSlip10 ==
    impl \in Ed25519Impls /\ result # Err
       => LET p == IF path = <<>> THEN DefaultEd25519DerivationPath ELSE path
          IN  Slip10Path(p) /\ result.indices = Slip10Indices(p)

(* The Ed25519 keypair derived from a seed is the SLIP-0010 Ed25519 key,  *)
(* whose master is HMAC-SHA512 keyed "ed25519 seed".                       *)
DerivesEd25519Master ==
    impl \in Ed25519Impls /\ result # Err => result.master = ED25519_CURVE

=============================================================================
