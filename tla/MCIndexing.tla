----------------------------- MODULE MCIndexing -----------------------------
(* A page with three versions of two chunks each, every two of which share a   *)
(* chunk, so that a replacement keeps, adds and deletes a row, in batches of   *)
(* one.  It moves on, or it also goes back; one or two workers submit it.      *)
EXTENDS Indexing

CONSTANTS n1, n2, w1, w2, v1, v2, v3, a, b, c

MCOneNode == {n1}
MCTwoNodes == {n1, n2}
MCOneWorker == {w1}
MCTwoWorkers == {w1, w2}
MCVersions == {v1, v2, v3}
MCChunks == {a, b, c}
MCChunksOf == [v \in MCVersions |-> CASE v = v1 -> <<a, b>>
                                      [] v = v2 -> <<b, c>>
                                      [] v = v3 -> <<c, a>>]
MCOnward == [v \in MCVersions |-> CASE v = v1 -> {v2, v3}
                                    [] v = v2 -> {v3}
                                    [] v = v3 -> {}]
MCBack == [v \in MCVersions |-> IF v = v1 THEN {v2} ELSE {v1}]

=============================================================================
