----------------------------- MODULE MC_Session -----------------------------
EXTENDS Session, TLC

CONSTANTS u1, g1, g2, noKey, noSession, noRestore

MCUserKeys == {u1}
MCGenKeys == {g1, g2}

(* No scopes (so RequiredScope is appended), an ordinary scope, the 0x3   *)
(* wildcard, a scope with one "::" (passes CREATE, fails build) and one   *)
(* without any (fails CREATE).                                             *)
MCScopeArgs ==
    {<<>>, <<<<"0x1", "m", "f">>>>, <<AllOx3>>, <<<<"0x1", "m">>>>, <<<<"0x1">>>>}

MCIntervals == {0, 60}

MCSymmetry == Permutations(MCGenKeys)
=============================================================================
