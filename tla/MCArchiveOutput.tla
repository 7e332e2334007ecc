--------------------------- MODULE MCArchiveOutput ---------------------------
(* The constants of the runs of ArchiveOutput.                             *)
EXTENDS ArchiveOutput, TLC

CONSTANTS j1, j2, j3, b1, b2, t1, t2, t3

(* One process runs all jobs, one after the other.  *)
OneProcess == [j \in Jobs |-> "p"]
(* Two processes; j1 and j2 run side by side.  *)
TwoProcesses == [j \in Jobs |-> IF j = j1 THEN "p" ELSE "q"]

(* Names of the folder: nothing, the bare name, volumes of the bare name.  *)
Nowhere == {}
Bare == {<<b1, 1, 0>>}
BareAndLast == {<<b1, 1, 0>>, <<b1, 1, 2>>}
FirstVolume == {<<b1, 1, 1>>}
LastVolume == {<<b1, 1, 2>>}
NextBare == {<<b1, 2, 0>>}

(* Staging tokens are interchangeable.  *)
TokenSymmetry == Permutations(Tokens)
=============================================================================
