---------------------------- MODULE GenericSplit ----------------------------
(***************************************************************************)
(* SplitGenericParameters of bcs/utils.go: the depth-aware comma splitter *)
(* that ParseStructTypeArgs (bcs/serializer.go) applies to the text       *)
(* between the outer angle brackets of a struct tag.  A string is a       *)
(* sequence of characters; the splitter only tells "<", ">", "," and the  *)
(* white space that strings.TrimSpace removes from every other character, *)
(* so any other character stands for itself.                              *)
(***************************************************************************)
EXTENDS Integers, Sequences, SequencesExt

Space == " "

(* strings.TrimSpace: the string without its leading and trailing spaces. *)
TrimSpace(s) ==
    LET keep == {k \in DOMAIN s : s[k] # Space}
    IN  IF keep = {} THEN <<>> ELSE SubSeq(s, Min(keep), Max(keep))

(* The loop's locals before the first character.                          *)
LoopStart == [depth |-> 0, current |-> <<>>, result |-> <<>>]

(* Mutant: the depth test on a comma dropped, so a comma inside a nested *)
(* generic cuts the list.                                                  *)
ConsumeIgnoringDepth(st, c) ==
    CASE c = "<" -> [st EXCEPT !.depth = @ + 1, !.current = Append(@, c)]
      [] c = ">" -> [st EXCEPT !.depth = @ - 1, !.current = Append(@, c)]
      [] c = "," ->
            [st EXCEPT !.result = Append(@, TrimSpace(st.current)),
                       !.current = <<>>]
      [] OTHER -> [st EXCEPT !.current = Append(@, c)]

(* One iteration of the range loop on the character c: "<" and ">" move   *)
(* the depth, a comma at depth 0 closes the current parameter, and every  *)
(* other character, a nested comma included, is appended to it.          *)
Consume(st, c) ==
    CASE c = "<" -> [st EXCEPT !.depth = @ + 1, !.current = Append(@, c)]
      [] c = ">" -> [st EXCEPT !.depth = @ - 1, !.current = Append(@, c)]
      [] c = "," /\ st.depth = 0 ->
            [st EXCEPT !.result = Append(@, TrimSpace(st.current)),
                       !.current = <<>>]
      [] OTHER -> [st EXCEPT !.current = Append(@, c)]

(* After the loop: the last parameter is kept only if it is not empty     *)
(* before trimming.                                                        *)
Flush(st) ==
    IF st.current # <<>> THEN Append(st.result, TrimSpace(st.current))
    ELSE st.result

SplitGenericParameters(s) ==
    LET st[n \in 0..Len(s)] ==
            IF n = 0 THEN LoopStart ELSE Consume(st[n - 1], s[n])
    IN  Flush(st[Len(s)])

-----------------------------------------------------------------------------
(* The splitter spec.md (4.2) asks for: the list is cut at the commas     *)
(* that lie outside every pair of angle brackets, and each piece is       *)
(* trimmed.                                                                *)
Count(s, c, k) == Cardinality({j \in 1..(k - 1) : s[j] = c})
DepthBefore(s, k) == Count(s, "<", k) - Count(s, ">", k)

Balanced(s) ==
    /\ \A k \in 1..(Len(s) + 1) : DepthBefore(s, k) >= 0
    /\ DepthBefore(s, Len(s) + 1) = 0

TopLevelCommas(s) == {k \in DOMAIN s : s[k] = "," /\ DepthBefore(s, k) = 0}

RefSplit(s) ==
    LET cut == TopLevelCommas(s) \cup {0, Len(s) + 1}
        cuts == [j \in 1..Cardinality(cut) |->
                    CHOOSE x \in cut : Cardinality({y \in cut : y < x}) = j - 1]
    IN  [j \in 1..(Len(cuts) - 1) |->
            TrimSpace(SubSeq(s, cuts[j] + 1, cuts[j + 1] - 1))]

(* A legal argument list: balanced, and no parameter is blank.            *)
LegalArgList(s) ==
    /\ Balanced(s)
    /\ \A j \in DOMAIN RefSplit(s) : RefSplit(s)[j] # <<>>
=============================================================================
