------------------------------ MODULE MC_HdPath ------------------------------
EXTENDS HdPath, SequencesExt

(* Indices of 16 bits: TLC's integers cannot hold 2^32, and 16 bits keep *)
(* the default path's 44 and 784 in range.                                 *)
MCWidth == 16

(* Digit runs at the edges of the index arithmetic: the largest hardened  *)
(* SLIP-0010 index, the first index that wraps once the offset is added,  *)
(* the largest index and the first value past it.                          *)
Numbers == {0, 2^15 - 1, 2^15, 2^16 - 1, 2^16}

(* Two digit runs are never adjacent in a real string.                     *)
Tokenised(p) == \A i \in 1..Len(p) - 1 : ~(p[i] \in Nat /\ p[i + 1] \in Nat)

MCPaths ==
    {p \in SeqOf(Symbols \cup Numbers, 5) : Tokenised(p)}
    \cup {DefaultEd25519DerivationPath,
          <<M, Slash, 0, Quote, Slash, 2^15, Quote>>,
          <<M, Slash, 0, Quote, Slash, 0, Junk, Quote>>}

MCSeeds == {"ok", "badHex"}
=============================================================================
