--------------------------- MODULE MCRunDispatch ---------------------------
(* Two listeners and one slot.  Two runs, so that a run waits, gives up and is *)
(* queued again; or one run and one that can never crawl anything, with every  *)
(* kind of fault.                                                              *)
EXTENDS RunDispatch

CONSTANTS r1, r2, t, n1, n2

MCRuns == {r1, r2}
MCTasks == {t}
MCNodes == {n1, n2}
MCMaxLinks == [r \in MCRuns |-> 1]

MCPlans == {
    [unusable |-> {}, room |-> 3, kinds |-> {"redisDown"}, max |-> 2],
    [unusable |-> {r2}, room |-> 2, kinds |-> FaultKinds, max |-> 1]}

=============================================================================
