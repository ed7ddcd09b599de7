------------------------------- MODULE MCPool -------------------------------
(* The instances of WorkerPool for TLC.                                    *)
EXTENDS PoolProperties, TLC

CONSTANTS j1, j2, j3, t1, t2

(* The third job is in the second of two relations.                        *)
TwoRelations == [j \in Jobs |-> IF j = j3 THEN 2 ELSE 1]

(* The jobs of the first relation are interchangeable, and so are threads. *)
Interchangeable == Permutations({j1, j2}) \cup Permutations({t1, t2})
=============================================================================
