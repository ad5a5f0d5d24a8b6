-------------------------- MODULE MCLocationIngest --------------------------
(***************************************************************************)
(* Instances of LocationIngest for TLC.                                    *)
(***************************************************************************)
EXTENDS LocationIngest, TLC

IngestSymmetry == Permutations(Streams) \cup Permutations(Drivers)
=============================================================================
