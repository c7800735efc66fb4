----------------------------- MODULE MCSessions -----------------------------
EXTENDS SessionCookies, TLC

CONSTANTS s1, s2, r1, r2, i1, i2

MCSessionSet == {s1, s2}
MCRequestSet == {r1, r2}
MCIdSet == {i1, i2}
MCOneSession == {s1}
RequestSymmetry == Permutations({r1, r2})

\* Two sessions with ids of their own.
MCDistinct == (s1 :> i1) @@ (s2 :> i2)
MCOneId == s1 :> i1
=============================================================================
