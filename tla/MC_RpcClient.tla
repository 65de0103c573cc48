---------------------------- MODULE MC_RpcClient ----------------------------
EXTENDS RpcClient, TLC

CONSTANTS c1, c2, noChain, noRet

MCCallers == {c1, c2}

MCSymmetry == Permutations(MCCallers)

(* Chain id 4 spelled as the node prints it, with a leading zero and a    *)
(* sign, and one answer SetString rejects.                                *)
MCChainAnswers == {<<"4">>, <<"0", "4">>, <<"+", "4">>, <<"x">>}
=============================================================================
