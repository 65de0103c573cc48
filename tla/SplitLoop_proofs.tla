---------------------------- MODULE SplitLoop_proofs ----------------------------
(***************************************************************************)
(* SplitGenericParameters' loop (bcs/utils.go:7-37) computes the spec's   *)
(* split on every legal argument list of every length.                    *)
(***************************************************************************)
EXTENDS SplitLoop, FiniteSetTheorems, SequenceTheorems, TLAPS

(* The positions of a finite set of cuts in increasing order, as RefSplit *)
(* lists them.                                                             *)
Cuts(S) ==
    [j \in 1..Cardinality(S) |->
        CHOOSE x \in S : Cardinality({y \in S : y < x}) = j - 1]

(* The trimmed pieces between the first n cuts of cs.                      *)
Pieces(s, cs, n) ==
    [j \in 1..(n - 1) |-> TrimSpace(SubSeq(s, cs[j] + 1, cs[j + 1] - 1))]

(* The cuts the loop has passed before reading position k: the start and  *)
(* the top-level commas before k.                                          *)
CutsBefore(s, k) == {0} \cup {c \in TopLevelCommas(s) : c < k}

(* The loop's locals after reading positions 1..k-1 of s: d is the depth *)
(* of the prefix, res the pieces closed at its top-level commas, and cur  *)
(* the text since the last of them.                                        *)
LocalsMatchPrefix(s, k, d, cur, res) ==
    LET n == Cardinality(CutsBefore(s, k))
        cs == Cuts(CutsBefore(s, k))
    IN  /\ d = DepthBefore(s, k)
        /\ n \in Nat \ {0}
        /\ \A j \in 1..n : cs[j] \in Int
        /\ cs[n] \in 0..(k - 1)
        /\ cur = SubSeq(s, cs[n] + 1, k - 1)
        /\ res = Pieces(s, cs, n)

(* The inductive invariant: while the loop runs its locals match the      *)
(* prefix read so far, and once it has returned the result is the spec's. *)
IInv ==
    /\ str \in Inputs
    /\ i \in 1..(Len(str) + 1)
    /\ ~done => LocalsMatchPrefix(str, i, depth, current, result)
    /\ done => SplitMatchesReference
-----------------------------------------------------------------------------
(* A cut past every earlier one is listed last: adding it extends the     *)
(* list by one position and leaves the others where they were.            *)
LEMMA CutsAdd ==
    ASSUME NEW S \in SUBSET Int, IsFiniteSet(S), NEW m \in Int,
           \A x \in S : x < m
    PROVE  /\ IsFiniteSet(S \cup {m})
           /\ Cardinality(S \cup {m}) = Cardinality(S) + 1
           /\ \A j \in 1..Cardinality(S) : Cuts(S \cup {m})[j] = Cuts(S)[j]
           /\ Cuts(S \cup {m})[Cardinality(S) + 1] = m
<1> DEFINE T == S \cup {m}
           n == Cardinality(S)
<1> USE DEF T, n
<1>1. /\ m \notin S
      /\ n \in Nat
      /\ IsFiniteSet(T)
      /\ Cardinality(T) = n + 1
  BY FS_AddElement, FS_CardinalityType
<1>2. ASSUME NEW x \in S PROVE {y \in T : y < x} = {y \in S : y < x}
  BY DEF T
<1>3. {y \in T : y < m} = S
  <2>1. \A y \in S : y < m
    OBVIOUS
  <2>2. ~(m < m)
    OBVIOUS
  <2>3. QED
    BY <2>1, <2>2 DEF T
<1>4. ASSUME NEW x \in S PROVE Cardinality({y \in S : y < x}) < n
  <2>1. /\ IsFiniteSet({y \in S : y < x})
        /\ Cardinality({y \in S : y < x}) <= n
        /\ n = Cardinality({y \in S : y < x}) => S = {y \in S : y < x}
    BY FS_Subset
  <2>2. x \notin {y \in S : y < x}
    OBVIOUS
  <2>3. Cardinality({y \in S : y < x}) \in Nat
    BY <2>1, FS_CardinalityType
  <2>4. QED
    BY <1>1, <2>1, <2>2, <2>3
<1>5. ASSUME NEW j \in 1..n
      PROVE  Cuts(T)[j] = Cuts(S)[j]
  <2>1. \A x : (x \in T /\ Cardinality({y \in T : y < x}) = j - 1)
                 <=> (x \in S /\ Cardinality({y \in S : y < x}) = j - 1)
    <3> SUFFICES ASSUME NEW x
                 PROVE  (x \in T /\ Cardinality({y \in T : y < x}) = j - 1)
                          <=> (x \in S /\ Cardinality({y \in S : y < x}) = j - 1)
      OBVIOUS
    <3>1. CASE x = m
      <4>1. {y \in T : y < x} = S
        BY <1>3, <3>1
      <4>2. Cardinality(S) # j - 1
        BY <1>1
      <4>3. x \notin S
        BY <1>1, <3>1
      <4>4. QED
        BY <3>1, <4>1, <4>2, <4>3
    <3>2. CASE x \in S
      BY <1>2, <3>2 DEF T
    <3>3. CASE x \notin T
      BY <3>3 DEF T
    <3>4. QED
      BY <3>1, <3>2, <3>3 DEF T
  <2>2. (CHOOSE x \in T : Cardinality({y \in T : y < x}) = j - 1)
        = (CHOOSE x \in S : Cardinality({y \in S : y < x}) = j - 1)
    BY <2>1
  <2>3. Cuts(T)[j] = (CHOOSE x \in T : Cardinality({y \in T : y < x}) = j - 1)
    <3>1. j \in 1..Cardinality(T)
      BY <1>1
    <3>2. QED
      BY <3>1, Zenon DEF Cuts
  <2>4. Cuts(S)[j] = (CHOOSE x \in S : Cardinality({y \in S : y < x}) = j - 1)
    BY DEF Cuts
  <2>5. QED
    BY <2>2, <2>3, <2>4
<1>6. Cuts(T)[n + 1] = m
  <2>1. \A x : (x \in T /\ Cardinality({y \in T : y < x}) = n) <=> x = m
    <3> SUFFICES ASSUME NEW x
                 PROVE  (x \in T /\ Cardinality({y \in T : y < x}) = n) <=> x = m
      OBVIOUS
    <3>1. CASE x = m
      BY <1>3, <3>1 DEF T
    <3>2. CASE x \in S
      BY <1>1, <1>2, <1>4, <3>2 DEF T
    <3>3. CASE x \notin T
      BY <3>3 DEF T
    <3>4. QED
      BY <3>1, <3>2, <3>3 DEF T
  <2>2. (CHOOSE x \in T : Cardinality({y \in T : y < x}) = n) = m
    BY <2>1
  <2>3. QED
    BY <1>1, <2>2 DEF Cuts, T
<1>7. QED
  BY <1>1, <1>5, <1>6

(* Reading position k moves the count of c before it by one when s[k] is c. *)
LEMMA CountStep ==
    ASSUME NEW s \in Seq(STRING), NEW c, NEW k \in 1..Len(s)
    PROVE  /\ Count(s, c, k) \in Nat
           /\ Count(s, c, k + 1) = Count(s, c, k) + (IF s[k] = c THEN 1 ELSE 0)
<1> DEFINE A == {j \in 1..(k - 1) : s[j] = c}
<1> USE DEF A
<1>1. IsFiniteSet(A) /\ Cardinality(A) \in Nat
  <2>1. IsFiniteSet(1..(k - 1))
    BY FS_Interval
  <2>2. A \subseteq 1..(k - 1)
    OBVIOUS
  <2>3. IsFiniteSet(A)
    BY <2>1, <2>2, FS_Subset
  <2>4. QED
    BY <2>3, FS_CardinalityType
<1>0. /\ Count(s, c, k) = Cardinality(A)
      /\ Count(s, c, k + 1) = Cardinality({j \in 1..k : s[j] = c})
  <2>1. 1..((k + 1) - 1) = 1..k
    OBVIOUS
  <2>2. QED
    BY <2>1 DEF Count
<1>2. k \notin A
  OBVIOUS
<1>3. CASE s[k] = c
  <2>1. {j \in 1..k : s[j] = c} = A \cup {k}
    BY <1>3
  <2>2. QED
    BY <1>0, <1>1, <1>2, <1>3, <2>1, FS_AddElement
<1>4. CASE s[k] # c
  <2>1. {j \in 1..k : s[j] = c} = A
    BY <1>4
  <2>2. Count(s, c, k + 1) = Count(s, c, k)
    BY <1>0, <2>1
  <2>3. QED
    BY <1>0, <1>1, <1>4, <2>2
<1>5. QED
  BY <1>0, <1>1, <1>3, <1>4

(* The cuts before position k are finitely many integers below k, and     *)
(* there is at least one, the start of the string.                        *)
LEMMA CutsBeforeFacts ==
    ASSUME NEW s \in Seq(STRING), NEW k \in 1..(Len(s) + 1)
    PROVE  /\ CutsBefore(s, k) \subseteq 0..(k - 1)
           /\ IsFiniteSet(CutsBefore(s, k))
           /\ Cardinality(CutsBefore(s, k)) \in Nat \ {0}
<1>1. CutsBefore(s, k) \subseteq 0..(k - 1)
  <2>1. TopLevelCommas(s) \subseteq 1..Len(s)
    BY LenProperties DEF TopLevelCommas
  <2>2. QED
    BY <2>1 DEF CutsBefore
<1>2. IsFiniteSet(CutsBefore(s, k))
  <2>1. IsFiniteSet(0..(k - 1))
    BY FS_Interval
  <2>2. QED
    BY <1>1, <2>1, FS_Subset
<1>3. 0 \in CutsBefore(s, k)
  BY DEF CutsBefore
<1>4. Cardinality(CutsBefore(s, k)) \in Nat /\ Cardinality(CutsBefore(s, k)) # 0
  BY <1>2, <1>3, FS_CardinalityType, FS_EmptySet
<1>5. QED
  BY <1>1, <1>2, <1>4

(* One more cut closes one more piece, and the earlier pieces stay.       *)
LEMMA PiecesExtend ==
    ASSUME NEW s, NEW cs, NEW cs2, NEW n \in Nat \ {0}, NEW m \in Int,
           \A j \in 1..n : cs[j] \in Int /\ cs2[j] = cs[j],
           cs2[n + 1] = m
    PROVE  Pieces(s, cs2, n + 1)
              = Append(Pieces(s, cs, n), TrimSpace(SubSeq(s, cs[n] + 1, m - 1)))
<1> DEFINE P == Pieces(s, cs, n)
           P2 == Pieces(s, cs2, n + 1)
           e == TrimSpace(SubSeq(s, cs[n] + 1, m - 1))
           X == {P[j] : j \in 1..(n - 1)} \cup {P2[j] : j \in 1..n} \cup {e}
<1> USE DEF X, P, P2, e
<1>2. /\ P \in [1..(n - 1) -> X]
      /\ P2 \in [1..n -> X]
      /\ e \in X
  BY DEF Pieces
<1>3. P \in Seq(X) /\ P2 \in Seq(X)
  <2>1. n - 1 \in Nat /\ n \in Nat
    OBVIOUS
  <2>2. P \in UNION {[1..k -> X] : k \in Nat} /\ P2 \in UNION {[1..k -> X] : k \in Nat}
    BY <1>2, <2>1
  <2>3. QED
    BY <2>2, SeqDef
<1>9. Len(P) = n - 1 /\ Len(P2) = n
  BY <1>2, <1>3, LenProperties
<1>4. /\ Append(P, e) \in Seq(X)
      /\ Len(Append(P, e)) = n
      /\ \A j \in 1..(n - 1) : Append(P, e)[j] = P[j]
      /\ Append(P, e)[n] = e
  BY <1>2, <1>3, <1>9, AppendProperties
<1>5. \A j \in 1..n : P2[j] = Append(P, e)[j]
  BY <1>4 DEF Pieces
<1>6. QED
  BY <1>3, <1>9, <1>4, <1>5, SeqEqual

(* Appending the next character extends the slice by one position.       *)
LEMMA SubSeqExtend ==
    ASSUME NEW s \in Seq(STRING), NEW k \in 1..Len(s), NEW a \in 1..k
    PROVE  Append(SubSeq(s, a, k - 1), s[k]) = SubSeq(s, a, k)
<1>1. /\ SubSeq(s, a, k - 1) \in Seq(STRING)
      /\ Len(SubSeq(s, a, k - 1)) = k - a
      /\ \A j \in 1..(k - a) : SubSeq(s, a, k - 1)[j] = s[a + j - 1]
  BY SubSeqProperties, LenProperties
<1>2. /\ SubSeq(s, a, k) \in Seq(STRING)
      /\ Len(SubSeq(s, a, k)) = k - a + 1
      /\ \A j \in 1..(k - a + 1) : SubSeq(s, a, k)[j] = s[a + j - 1]
  BY SubSeqProperties, LenProperties
<1>3. s[k] \in STRING
  BY LenProperties
<1>4. /\ Append(SubSeq(s, a, k - 1), s[k]) \in Seq(STRING)
      /\ Len(Append(SubSeq(s, a, k - 1), s[k])) = k - a + 1
      /\ \A j \in 1..(k - a) :
            Append(SubSeq(s, a, k - 1), s[k])[j] = SubSeq(s, a, k - 1)[j]
      /\ Append(SubSeq(s, a, k - 1), s[k])[k - a + 1] = s[k]
  BY <1>1, <1>3, AppendProperties
<1>5. QED
  BY <1>1, <1>2, <1>4, SeqEqual

(* A blank string trims to nothing.                                        *)
LEMMA TrimEmpty == TrimSpace(<<>>) = <<>>
  BY DEF TrimSpace

(* Reading position k adds k to the cuts exactly when it is a top-level   *)
(* comma, which the loop tells by the character and the depth before it.  *)
LEMMA CutsBeforeStep ==
    ASSUME NEW s \in Seq(STRING), NEW k \in 1..Len(s)
    PROVE  CutsBefore(s, k + 1) =
              IF s[k] = "," /\ DepthBefore(s, k) = 0
                 THEN CutsBefore(s, k) \cup {k} ELSE CutsBefore(s, k)
<1>1. k \in DOMAIN s
  BY LenProperties
<1>2. k \in TopLevelCommas(s) <=> (s[k] = "," /\ DepthBefore(s, k) = 0)
  BY <1>1 DEF TopLevelCommas
<1>3. TopLevelCommas(s) \subseteq 1..Len(s)
  BY LenProperties DEF TopLevelCommas
<1>4. {c \in TopLevelCommas(s) : c < k + 1} =
        {c \in TopLevelCommas(s) : c < k} \cup
        (IF k \in TopLevelCommas(s) THEN {k} ELSE {})
  BY <1>3
<1>5. QED
  BY <1>2, <1>4 DEF CutsBefore

(* The depth after position k.                                             *)
LEMMA DepthStep ==
    ASSUME NEW s \in Seq(STRING), NEW k \in 1..Len(s)
    PROVE  /\ DepthBefore(s, k) \in Int
           /\ DepthBefore(s, k + 1) =
                 DepthBefore(s, k) + (IF s[k] = "<" THEN 1 ELSE 0)
                                   - (IF s[k] = ">" THEN 1 ELSE 0)
  BY CountStep DEF DepthBefore

-----------------------------------------------------------------------------
(* The first character read: no cut but the start, depth 0, nothing      *)
(* collected.                                                              *)
LEMMA InitIInv == Init => IInv
<1> SUFFICES ASSUME Init PROVE IInv
  OBVIOUS
<1>1. str \in Seq(STRING) /\ str \in Inputs /\ i = 1 /\ ~done
  BY InputsAssumption DEF Init
<1>2. CutsBefore(str, 1) = {} \cup {0}
  <2>1. TopLevelCommas(str) \subseteq 1..Len(str)
    BY <1>1, LenProperties DEF TopLevelCommas
  <2>2. QED
    BY <2>1 DEF CutsBefore
<1>3. /\ Cardinality(CutsBefore(str, 1)) = 1
      /\ Cuts(CutsBefore(str, 1))[1] = 0
  <2>1. IsFiniteSet({}) /\ Cardinality({}) = 0
    BY FS_EmptySet
  <2>2. /\ Cardinality({} \cup {0}) = 0 + 1
        /\ Cuts({} \cup {0})[0 + 1] = 0
    BY <2>1, CutsAdd
  <2>3. QED
    BY <1>2, <2>2
<1>4. DepthBefore(str, 1) = 0
  <2>1. ASSUME NEW c PROVE Count(str, c, 1) = 0
    <3>1. {j \in 1..(1 - 1) : str[j] = c} = {}
      OBVIOUS
    <3>2. QED
      BY <3>1, FS_EmptySet DEF Count
  <2>2. QED
    BY <2>1 DEF DepthBefore
<1>5. SubSeq(str, 0 + 1, 1 - 1) = <<>>
  BY SubSeqEmpty
<1>6. Pieces(str, Cuts(CutsBefore(str, 1)), 1) = <<>>
  <2>1. 1..(1 - 1) = {}
    OBVIOUS
  <2>2. QED
    BY <2>1 DEF Pieces
<1>7. LoopStart.depth = 0 /\ LoopStart.current = <<>> /\ LoopStart.result = <<>>
  BY DEF LoopStart
<1>8. \A j \in 1..1 : Cuts(CutsBefore(str, 1))[j] \in Int
  BY <1>3
<1>9. QED
  BY <1>1, <1>3, <1>4, <1>5, <1>6, <1>7, <1>8 DEF Init, IInv, LocalsMatchPrefix

(* One pass of the loop body, flattened: the depth moves on brackets, and  *)
(* either a top-level comma closes current into result or the character   *)
(* is appended to current.                                                 *)
LEMMA IterateEffect ==
    ASSUME Iterate, depth \in Int
    PROVE  /\ depth' = depth + (IF str[i] = "<" THEN 1 ELSE 0)
                             - (IF str[i] = ">" THEN 1 ELSE 0)
           /\ IF str[i] = "," /\ depth = 0
                 THEN /\ result' = Append(result, TrimSpace(current))
                      /\ current' = <<>>
                 ELSE /\ result' = result
                      /\ current' = Append(current, str[i])
<1> DEFINE ch == str[i]
           st == Consume(Locals, ch)
<1> USE DEF ch, st
<1>0. depth' = st.depth /\ current' = st.current /\ result' = st.result
  BY DEF Iterate
<1>1. CASE ch = "<"
  <2>1. st = [Locals EXCEPT !.depth = @ + 1, !.current = Append(@, ch)]
    BY <1>1 DEF Consume
  <2>2. st.depth = depth + 1 /\ st.current = Append(current, ch) /\ st.result = result
    BY <2>1 DEF Locals
  <2>3. ~(ch = "," /\ depth = 0)
    BY <1>1
  <2>4. (IF ch = "<" THEN 1 ELSE 0) - (IF ch = ">" THEN 1 ELSE 0) = 1
    BY <1>1
  <2>5. QED
    BY <1>0, <2>2, <2>3, <2>4
<1>2. CASE ch = ">"
  <2>1. st = [Locals EXCEPT !.depth = @ - 1, !.current = Append(@, ch)]
    BY <1>2 DEF Consume
  <2>2. st.depth = depth - 1 /\ st.current = Append(current, ch) /\ st.result = result
    BY <2>1 DEF Locals
  <2>3. ~(ch = "," /\ depth = 0)
    BY <1>2
  <2>4. (IF ch = "<" THEN 1 ELSE 0) - (IF ch = ">" THEN 1 ELSE 0) = -1
    BY <1>2
  <2>5. QED
    BY <1>0, <2>2, <2>3, <2>4
<1>3. CASE ch = "," /\ depth = 0
  <2>1. st = [Locals EXCEPT !.result = Append(@, TrimSpace(Locals.current)),
                            !.current = <<>>]
    BY <1>3 DEF Consume, Locals
  <2>2. /\ st.depth = depth
        /\ st.current = <<>>
        /\ st.result = Append(result, TrimSpace(current))
    BY <2>1 DEF Locals
  <2>3. (IF ch = "<" THEN 1 ELSE 0) = 0 /\ (IF ch = ">" THEN 1 ELSE 0) = 0
    BY <1>3
  <2>4. depth' = depth + (IF ch = "<" THEN 1 ELSE 0) - (IF ch = ">" THEN 1 ELSE 0)
    BY <1>0, <2>2, <2>3
  <2>5. QED
    BY <1>0, <1>3, <2>2, <2>4
<1>4. CASE ch # "<" /\ ch # ">" /\ ~(ch = "," /\ depth = 0)
  <2>1. st = [Locals EXCEPT !.current = Append(@, ch)]
    BY <1>4 DEF Consume, Locals
  <2>2. st.depth = depth /\ st.current = Append(current, ch) /\ st.result = result
    BY <2>1 DEF Locals
  <2>3. ~(ch = "," /\ depth = 0)
    BY <1>4
  <2>4. (IF ch = "<" THEN 1 ELSE 0) - (IF ch = ">" THEN 1 ELSE 0) = 0
    <3>1. (IF ch = "<" THEN 1 ELSE 0) = 0 /\ (IF ch = ">" THEN 1 ELSE 0) = 0
      BY <1>4
    <3>2. QED
      BY <3>1
  <2>5. depth' = depth + (IF ch = "<" THEN 1 ELSE 0) - (IF ch = ">" THEN 1 ELSE 0)
    BY <1>0, <2>2, <2>4
  <2>6. result' = result /\ current' = Append(current, ch)
    BY <1>0, <2>2
  <2>7. QED
    BY <2>3, <2>5, <2>6, Zenon
<1>5. QED
  BY <1>1, <1>2, <1>3, <1>4

(* The spec's split is the pieces between its sorted cuts.                 *)
LEMMA RefSplitPieces ==
    ASSUME NEW s \in Seq(STRING)
    PROVE  LET cut == TopLevelCommas(s) \cup {0, Len(s) + 1}
           IN  RefSplit(s) = Pieces(s, Cuts(cut), Cardinality(cut))
<1> DEFINE cut == TopLevelCommas(s) \cup {0, Len(s) + 1}
           N == Cardinality(cut)
           C == Cuts(cut)
<1> USE DEF cut, N, C
<1>1. N \in Nat
  <2>0. TopLevelCommas(s) \subseteq 1..Len(s)
    BY LenProperties DEF TopLevelCommas
  <2>1. cut \subseteq 0..(Len(s) + 1)
    BY <2>0, LenProperties
  <2>2. IsFiniteSet(0..(Len(s) + 1))
    BY LenProperties, FS_Interval
  <2>3. QED
    BY <2>1, <2>2, FS_Subset, FS_CardinalityType
<1>2. Len(C) = N
  <2> DEFINE X == {C[j] : j \in 1..N}
  <2>1. C \in [1..N -> X]
    BY DEF Cuts
  <2>2. C \in Seq(X)
    <3>1. C \in UNION {[1..k -> X] : k \in Nat}
      BY <1>1, <2>1
    <3>2. QED
      BY <3>1, SeqDef
  <2>3. DOMAIN C = 1..Len(C) /\ Len(C) \in Nat
    BY <2>2, LenProperties
  <2>4. DOMAIN C = 1..N
    BY DEF Cuts
  <2>5. QED
    BY <1>1, <2>3, <2>4
<1>3. QED
  BY <1>2 DEF RefSplit, Pieces, Cuts

-----------------------------------------------------------------------------
(* Reading one more character keeps the locals matching the longer        *)
(* prefix: a top-level comma is the next cut and closes a piece, any      *)
(* other character extends the text since the last cut.                   *)
LEMMA IterateIInv ==
    ASSUME IInv, Iterate
    PROVE  IInv'
<1> DEFINE S == CutsBefore(str, i)
           N == Cardinality(S)
           C == Cuts(S)
           ch == str[i]
<1> USE DEF N, C, ch
<1>1. /\ str \in Seq(STRING)
      /\ ~done /\ i \in 1..Len(str)
      /\ str' = str /\ i' = i + 1 /\ done' = done
      /\ Len(str) \in Nat /\ i \in Nat
  BY InputsAssumption, LenProperties DEF IInv, Iterate
<1>2. /\ depth = DepthBefore(str, i)
      /\ N \in Nat \ {0}
      /\ \A j \in 1..N : C[j] \in Int
      /\ C[N] \in 0..(i - 1)
      /\ current = SubSeq(str, C[N] + 1, i - 1)
      /\ result = Pieces(str, C, N)
  BY <1>1 DEF IInv, LocalsMatchPrefix, S
<1>3. S \subseteq 0..(i - 1) /\ IsFiniteSet(S)
  BY <1>1, CutsBeforeFacts DEF S
<1> USE <1>1
<1>4. /\ DepthBefore(str, i) \in Int
      /\ DepthBefore(str, i + 1) =
            DepthBefore(str, i) + (IF ch = "<" THEN 1 ELSE 0)
                                - (IF ch = ">" THEN 1 ELSE 0)
  BY <1>1, DepthStep
<1>5. /\ depth' = depth + (IF ch = "<" THEN 1 ELSE 0)
                        - (IF ch = ">" THEN 1 ELSE 0)
      /\ IF ch = "," /\ depth = 0
            THEN /\ result' = Append(result, TrimSpace(current))
                 /\ current' = <<>>
            ELSE /\ result' = result
                 /\ current' = Append(current, ch)
  BY <1>2, <1>4, IterateEffect
<1>6. depth' = DepthBefore(str, i + 1)
  BY <1>2, <1>4, <1>5
<1>7. SUFFICES LocalsMatchPrefix(str, i + 1, depth', current', result')
  BY <1>1 DEF IInv
<1>8. CASE ch = "," /\ depth = 0
  <2> DEFINE T == S \cup {i}
  <2>1. CutsBefore(str, i + 1) = T
    BY <1>1, <1>2, <1>8, CutsBeforeStep DEF S
  <2>2. /\ Cardinality(T) = N + 1
        /\ \A j \in 1..N : Cuts(T)[j] = C[j]
        /\ Cuts(T)[N + 1] = i
    <3>1. S \in SUBSET Int /\ \A x \in S : x < i
      BY <1>3
    <3>2. IsFiniteSet(S) /\ i \in Int
      BY <1>3
    <3>3. QED
      BY ONLY <3>1, <3>2, CutsAdd DEF T
  <2>3. result' = Pieces(str, Cuts(T), N + 1)
    <3>1. N \in Nat \ {0} /\ i \in Int /\ Cuts(T)[N + 1] = i
      BY <1>2, <2>2
    <3>5. \A j \in 1..N : C[j] \in Int /\ Cuts(T)[j] = C[j]
      <4>1. \A j \in 1..N : C[j] \in Int
        BY <1>2
      <4>2. \A j \in 1..N : Cuts(T)[j] = C[j]
        BY <2>2
      <4>3. QED
        BY <4>1, <4>2
    <3>2. Pieces(str, Cuts(T), N + 1)
             = Append(Pieces(str, C, N), TrimSpace(SubSeq(str, C[N] + 1, i - 1)))
      <4>1. PICK a, b : a = C /\ b = Cuts(T)
        OBVIOUS
      <4>2. /\ \A j \in 1..N : a[j] \in Int /\ b[j] = a[j]
            /\ b[N + 1] = i
        BY <3>1, <3>5, <4>1
      <4>3. Pieces(str, b, N + 1)
               = Append(Pieces(str, a, N), TrimSpace(SubSeq(str, a[N] + 1, i - 1)))
        BY <3>1, <4>2, PiecesExtend
      <4>4. QED
        BY <4>1, <4>3
    <3>3. result' = Append(result, TrimSpace(current))
      BY <1>5, <1>8, Zenon
    <3>4. QED
      BY <1>2, <3>2, <3>3
  <2>4. current' = SubSeq(str, Cuts(T)[N + 1] + 1, (i + 1) - 1)
    <3>1. SubSeq(str, i + 1, i) = <<>>
      BY SubSeqEmpty
    <3>2. SubSeq(str, Cuts(T)[N + 1] + 1, (i + 1) - 1) = SubSeq(str, i + 1, i)
      BY <2>2
    <3>3. current' = <<>>
      BY <1>5, <1>8, Zenon
    <3>4. QED
      BY <3>1, <3>2, <3>3
  <2>5. /\ N + 1 \in Nat \ {0}
        /\ \A j \in 1..(N + 1) : Cuts(T)[j] \in Int
        /\ Cuts(T)[N + 1] \in 0..((i + 1) - 1)
    <3>1. N + 1 \in Nat \ {0}
      BY <1>2
    <3>2. ASSUME NEW j \in 1..(N + 1) PROVE Cuts(T)[j] \in Int
      <4>1. CASE j \in 1..N
        BY <1>2, <2>2, <4>1
      <4>2. CASE j = N + 1
        BY <2>2, <4>2
      <4>3. QED
        BY <1>2, <4>1, <4>2
    <3>3. Cuts(T)[N + 1] \in 0..((i + 1) - 1)
      BY <2>2
    <3>4. QED
      BY <3>1, <3>2, <3>3
  <2>6. QED
    BY <1>6, <2>1, <2>2, <2>3, <2>4, <2>5 DEF LocalsMatchPrefix
<1>9. CASE ~(ch = "," /\ depth = 0)
  <2>1. CutsBefore(str, i + 1) = S
    BY <1>1, <1>2, <1>9, CutsBeforeStep DEF S
  <2>2. current' = SubSeq(str, C[N] + 1, (i + 1) - 1)
    <3>1. C[N] + 1 \in 1..i
      BY <1>2
    <3>2. Append(SubSeq(str, C[N] + 1, i - 1), str[i]) = SubSeq(str, C[N] + 1, i)
      BY <1>1, <3>1, SubSeqExtend
    <3>3. current' = Append(current, ch)
      BY <1>5, <1>9, Zenon
    <3>4. current = SubSeq(str, C[N] + 1, i - 1)
      BY <1>2
    <3>5. PICK a : a = C[N] + 1
      OBVIOUS
    <3>6. /\ current' = Append(SubSeq(str, a, i - 1), str[i])
          /\ Append(SubSeq(str, a, i - 1), str[i]) = SubSeq(str, a, i)
      BY <3>2, <3>3, <3>4, <3>5
    <3>7. (i + 1) - 1 = i
      BY ONLY <1>1
    <3>8. QED
      BY <3>5, <3>6, <3>7, Zenon
  <2>3. result' = result
    BY <1>5, <1>9
  <2>4. C[N] \in 0..((i + 1) - 1)
    BY <1>2
  <2>5. QED
    BY <1>2, <1>6, <2>1, <2>2, <2>3, <2>4 DEF LocalsMatchPrefix, S
<1>10. QED
  BY <1>8, <1>9

(* Returning flushes current as the last piece: the result is the spec's  *)
(* split when current is not empty, and when it is empty the spec's last  *)
(* piece is blank, so the argument list was not legal.                     *)
LEMMA ReturnIInv ==
    ASSUME IInv, Return
    PROVE  IInv'
<1> DEFINE L == Len(str)
           S == CutsBefore(str, i)
           N == Cardinality(S)
<1>1. /\ str \in Seq(STRING) /\ L \in Nat
      /\ ~done /\ i = L + 1
      /\ str' = str /\ i' = i /\ done' = TRUE /\ current' = current
      /\ result' = Flush(Locals)
  BY InputsAssumption, LenProperties DEF IInv, Return
<1> USE <1>1
<1>2. /\ N \in Nat \ {0}
      /\ \A j \in 1..N : Cuts(S)[j] \in Int
      /\ Cuts(S)[N] \in 0..(i - 1)
      /\ current = SubSeq(str, Cuts(S)[N] + 1, i - 1)
      /\ result = Pieces(str, Cuts(S), N)
  BY DEF IInv, LocalsMatchPrefix, S, N
<1>3. S \subseteq 0..L /\ IsFiniteSet(S)
  BY CutsBeforeFacts DEF S
<1>4. TopLevelCommas(str) \cup {0, L + 1} = S \cup {L + 1}
  <2>1. TopLevelCommas(str) \subseteq 1..L
    BY LenProperties DEF TopLevelCommas
  <2>2. QED
    BY <2>1 DEF S, CutsBefore
<1>5. /\ Cardinality(S \cup {L + 1}) = N + 1
      /\ \A j \in 1..N : Cuts(S \cup {L + 1})[j] = Cuts(S)[j]
      /\ Cuts(S \cup {L + 1})[N + 1] = L + 1
  <2>1. S \in SUBSET Int /\ IsFiniteSet(S) /\ L + 1 \in Int /\ \A x \in S : x < L + 1
    BY <1>3
  <2>2. QED
    BY ONLY <2>1, CutsAdd DEF N
<1>6. RefSplit(str) = Pieces(str, Cuts(S \cup {L + 1}), N + 1)
  BY <1>4, <1>5, RefSplitPieces
<1>7. PICK a, b, f : /\ a = Cuts(S)
                     /\ b = Cuts(S \cup {L + 1})
                     /\ f = RefSplit(str)
  OBVIOUS
<1>8. /\ \A j \in 1..N : a[j] \in Int /\ b[j] = a[j]
      /\ b[N + 1] = L + 1
      /\ current = SubSeq(str, a[N] + 1, L)
      /\ result = Pieces(str, a, N)
      /\ f = Pieces(str, b, N + 1)
  <2>1. \A j \in 1..N : a[j] \in Int /\ b[j] = a[j]
    <3>1. \A j \in 1..N : a[j] \in Int
      BY <1>2, <1>7, Zenon
    <3>2. \A j \in 1..N : b[j] = a[j]
      BY <1>5, <1>7, Zenon
    <3>3. QED
      BY <3>1, <3>2
  <2>2. b[N + 1] = L + 1
    BY <1>5, <1>7, Zenon
  <2>3. current = SubSeq(str, a[N] + 1, L)
    <3>1. i - 1 = L
      BY ONLY <1>1
    <3>2. QED
      BY <1>2, <1>7, <3>1, Zenon
  <2>4. result = Pieces(str, a, N) /\ f = Pieces(str, b, N + 1)
    BY <1>2, <1>6, <1>7, Zenon
  <2>5. QED
    BY <2>1, <2>2, <2>3, <2>4
<1>9. f = Append(result, TrimSpace(current))
  <2>1. Pieces(str, b, N + 1)
           = Append(Pieces(str, a, N), TrimSpace(SubSeq(str, a[N] + 1, (L + 1) - 1)))
    <3>1. PICK m, k : m = L + 1 /\ k = N
      OBVIOUS
    <3>2. k \in Nat \ {0} /\ m \in Int /\ b[k + 1] = m
      BY <1>2, <1>8, <3>1
    <3>3. \A j \in 1..k : a[j] \in Int /\ b[j] = a[j]
      BY <1>8, <3>1
    <3>4. Pieces(str, b, k + 1)
             = Append(Pieces(str, a, k), TrimSpace(SubSeq(str, a[k] + 1, m - 1)))
      BY ONLY <3>2, <3>3, PiecesExtend, SMTT(60)
    <3>5. QED
      BY <3>1, <3>4
  <2>2. (L + 1) - 1 = L
    BY ONLY <1>1
  <2>3. QED
    BY <1>8, <2>1, <2>2, Zenon
<1>10. /\ N \in DOMAIN f
       /\ f[N] = TrimSpace(current)
  <2>1. DOMAIN Pieces(str, b, N + 1) = 1..N
    BY <1>2 DEF Pieces
  <2>2. Pieces(str, b, N + 1)[N] = TrimSpace(SubSeq(str, b[N] + 1, b[N + 1] - 1))
    BY <1>2 DEF Pieces
  <2>3. b[N] = a[N] /\ b[N + 1] - 1 = L
    BY <1>2, <1>8
  <2>4. N \in 1..N
    BY <1>2
  <2>5. SubSeq(str, b[N] + 1, b[N + 1] - 1) = current
    BY <1>8, <2>3, Zenon
  <2>6. QED
    BY <1>8, <2>1, <2>2, <2>4, <2>5, Zenon
<1>11. LegalArgList(str) => result' = RefSplit(str)
  <2>1. CASE current # <<>>
    <3>1. result' = Append(result, TrimSpace(current))
      BY <2>1 DEF Flush, Locals
    <3>2. QED
      BY <1>7, <1>9, <3>1
  <2>2. CASE current = <<>>
    <3>1. f[N] = <<>>
      BY <1>10, <2>2, TrimEmpty
    <3>2. ~LegalArgList(str)
      BY <1>7, <1>10, <3>1 DEF LegalArgList
    <3>3. QED
      BY <3>2
  <2>3. QED
    BY <2>1, <2>2
<1>12. QED
  BY <1>11 DEF IInv, SplitMatchesReference

(* IInv is inductive: the loop body and the return keep it, and so does a *)
(* step that changes nothing.                                              *)
LEMMA NextIInv == IInv /\ [Next]_vars => IInv'
<1> SUFFICES ASSUME IInv, [Next]_vars PROVE IInv'
  OBVIOUS
<1>1. CASE Iterate
  BY <1>1, IterateIInv
<1>2. CASE Return
  BY <1>2, ReturnIInv
<1>3. CASE UNCHANGED vars
  BY <1>3 DEF IInv, vars, LocalsMatchPrefix, SplitMatchesReference
<1>4. QED
  BY <1>1, <1>2, <1>3 DEF Next

-----------------------------------------------------------------------------
(* SplitMatchesReference holds for inputs of every length: whenever the  *)
(* loop of SplitGenericParameters has returned on a legal argument list,  *)
(* its result is the spec's split at the top-level commas, trimmed.       *)
THEOREM SplitMatchesReferenceHolds == Spec => []SplitMatchesReference
<1>1. Init => IInv
  BY InitIInv
<1>2. IInv /\ [Next]_vars => IInv'
  BY NextIInv
<1>3. IInv => SplitMatchesReference
  BY DEF IInv, SplitMatchesReference
<1>4. QED
  BY <1>1, <1>2, <1>3, PTL DEF Spec
=============================================================================
