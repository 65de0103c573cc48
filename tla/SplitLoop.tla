----------------------------- MODULE SplitLoop ------------------------------
(***************************************************************************)
(* The loop of SplitGenericParameters (bcs/utils.go, lines 7-37) one      *)
(* iteration per step, on an input string chosen from Inputs.             *)
(***************************************************************************)
EXTENDS GenericSplit

CONSTANT Inputs   \* the strings handed to the splitter

ASSUME InputsAssumption == Inputs \subseteq Seq(STRING)

VARIABLES
    str,      \* the argument str
    i,        \* index of the next character of the range loop
    depth,    \* the local depth
    current,  \* the local current
    result,   \* the local result
    done      \* the function has returned result

vars == <<str, i, depth, current, result, done>>

Locals == [depth |-> depth, current |-> current, result |-> result]

Init ==
    /\ str \in Inputs
    /\ i = 1
    /\ depth = LoopStart.depth
    /\ current = LoopStart.current
    /\ result = LoopStart.result
    /\ done = FALSE

(* One pass of the range loop's body (lines 12-30).                        *)
Iterate ==
    /\ ~done
    /\ i <= Len(str)
    /\ LET st == Consume(Locals, str[i])
       IN  /\ depth' = st.depth
           /\ current' = st.current
           /\ result' = st.result
    /\ i' = i + 1
    /\ UNCHANGED <<str, done>>

(* The loop has run out of characters: flush current and return.          *)
Return ==
    /\ ~done
    /\ i > Len(str)
    /\ result' = Flush(Locals)
    /\ done' = TRUE
    /\ UNCHANGED <<str, i, depth, current>>

Next == Iterate \/ Return

Spec == Init /\ [][Next]_vars

-----------------------------------------------------------------------------
(* On a legal argument list, what the loop returns is the spec's split:   *)
(* a comma nested inside angle brackets never cuts a parameter, every     *)
(* top-level comma does, and each parameter comes back trimmed.  It       *)
(* depends on the depth being counted over the whole prefix and current  *)
(* being reset at each cut.                                                *)
SplitMatchesReference == done /\ LegalArgList(str) => result = RefSplit(str)
=============================================================================
