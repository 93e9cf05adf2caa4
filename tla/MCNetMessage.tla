---------------------------- MODULE MCNetMessage ----------------------------
EXTENDS NetMessage, TLC
CONSTANTS m1, m2
MCData == {<<1>>, <<1, 0>>}
MCJunk == {<<1, 1>>}
MCBehind == {<<0, 1>>, <<1, 0>>}
\* No step reads the history, so states that differ in nothing else are one.
\* A step that changes nothing is not checked: every message is seen after a
\* call that makes space and after another one, so that no call from it is.
MCView == <<message, call = "space">>
MCSymmetry == Permutations(Object)
=============================================================================
