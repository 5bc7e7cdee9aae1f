------------------------------ MODULE MCUciCli ------------------------------
(* Two processes and two packages with an option each for UciCli.              *)
EXTENDS UciCli, TLC

CONSTANTS c1, c2, oa, ob, pa, pb

MCPackage == (oa :> pa) @@ (ob :> pb)
MCConfigs == <<pa, pb>>
Symmetry == Permutations(Procs)
=============================================================================
