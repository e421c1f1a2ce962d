--------------------------- MODULE MCOracleRollup ---------------------------
(***************************************************************************)
(* The SampleOracle deployment with two off-chain workers racing for the   *)
(* same lock, two requests and one feed update.                            *)
(***************************************************************************)
EXTENDS OracleRollup, TLC

WorkerSymmetry == Permutations(Workers)

=============================================================================
