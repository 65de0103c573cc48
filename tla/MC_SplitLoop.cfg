CONSTANT Inputs <- MCInputs
SPECIFICATION Spec
INVARIANT SplitMatchesReference
\* The function returns: a state with done = TRUE has no successor.
CHECK_DEADLOCK FALSE
