---------------------------- MODULE MC_TxBuilder ----------------------------
(* TxBuilder on a small instance: one Ed25519 and one secp256k1 key, a    *)
(* well-formed call target and one with a single part, one chain id,     *)
(* sequence numbers 0 and 1, and message infos covering every            *)
(* combination of prefix present, empty body and trailing newline that    *)
(* NewBitcoinSignMessage treats differently.                               *)
EXTENDS TxBuilder, TLC

CONSTANTS k1, k2, a1, a2

MCKeys == {k1, k2}
MCKeyScheme == (k1 :> "ED25519") @@ (k2 :> "Secp256k1")
MCActions == {a1, a2}
MCTargetParts == (a1 :> 3) @@ (a2 :> 1)
MCChains == {4}
MCInfoInputs == [pre : BOOLEAN, len : {0, 1}, nl : BOOLEAN]
=============================================================================
