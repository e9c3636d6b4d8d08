-------------------------- MODULE MCOffsetTracker --------------------------
(* Two members and one partition polled two records at a time: two records    *)
(* while partitions move, three while they do not.                            *)
EXTENDS OffsetTracker

CONSTANTS n1, n2, p1

MCNodes == {n1, n2}
MCPartitions == {p1}

MCRebalance == [kinds |-> {"revoke", "commitFails", "replyLost", "fence", "crash"},
                max |-> 2, log |-> 2]
MCSteady == [kinds |-> {"commitFails", "replyLost", "crash"}, max |-> 2, log |-> 3]
MCOrderly == [kinds |-> {"revoke", "crash"}, max |-> 1, log |-> 2]
MCPlans == {MCRebalance, MCOrderly, MCSteady}
MCMidBatch == {[kinds |-> {"revoke", "midBatch"}, max |-> 1, log |-> 2]}

=============================================================================
