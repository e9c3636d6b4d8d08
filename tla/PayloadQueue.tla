---------------------------- MODULE PayloadQueue ----------------------------
(***************************************************************************)
(* What the producing half of a queue promises its callers, without its    *)
(* channel, its lock and its batches: a payload is accepted or refused;    *)
(* an accepted one is handed on exactly once; and the queue closes only    *)
(* when nothing it accepted is left.                                       *)
(***************************************************************************)
CONSTANT Payloads

VARIABLES
    pending,   \* accepted, not handed on
    flushed,   \* handed on to Kafka
    closed

vars == <<pending, flushed, closed>>

Init ==
    /\ pending = {}
    /\ flushed = {}
    /\ closed = FALSE

Accept(x) ==
    /\ ~closed
    /\ x \notin pending \cup flushed
    /\ pending' = pending \cup {x}
    /\ UNCHANGED <<flushed, closed>>

Flush(batch) ==
    /\ batch # {}
    /\ pending' = pending \ batch
    /\ flushed' = flushed \cup batch
    /\ UNCHANGED closed

Close ==
    /\ ~closed
    /\ pending = {}
    /\ closed' = TRUE
    /\ UNCHANGED <<pending, flushed>>

Next ==
    \/ \E x \in Payloads : Accept(x)
    \/ \E batch \in SUBSET pending : Flush(batch)
    \/ Close

Spec == Init /\ [][Next]_vars

=============================================================================
