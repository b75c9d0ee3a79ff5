---------------------------- MODULE MCWebSession ----------------------------
(***************************************************************************)
(* Small instances of WebSession for TLC: two tabs of one browser.         *)
(***************************************************************************)
EXTENDS WebSession, TLC

CONSTANTS a, b

TabSymmetry == Permutations(Tabs)

=============================================================================
