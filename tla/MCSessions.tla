----------------------------- MODULE MCSessions -----------------------------
(* Small instances of Sessions for TLC.                                    *)
EXTENDS Sessions, TLC

\* Users, tokens and request slots are interchangeable.  Only runs of
\* invariants use the reduction.
Symmetry == Permutations(User) \cup Permutations(Token) \cup Permutations(Req)
=============================================================================
