---------------------------- MODULE MCAsyncTask -----------------------------
(***************************************************************************)
(* Small instances of AsyncTask for TLC.  Rows do not interact, so one row *)
(* and several workers show every interleaving.                            *)
(***************************************************************************)
EXTENDS AsyncTask, TLC

CONSTANTS t1, w1, w2

WorkerSymmetry == Permutations(Workers)

=============================================================================
