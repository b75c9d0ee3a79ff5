--------------------------- MODULE MCSessionCache ---------------------------
(***************************************************************************)
(* Small instances of SessionCache for TLC: two requests at a time.        *)
(***************************************************************************)
EXTENDS SessionCache, TLC

CONSTANTS w1, w2, c1, c2

Symmetric == Permutations(Workers) \cup Permutations(Caches)

=============================================================================
