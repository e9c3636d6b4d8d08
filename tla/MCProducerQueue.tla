-------------------------- MODULE MCProducerQueue --------------------------
(* Two callers with three payloads each on a channel of two: the channel      *)
(* fills, a caller blocks, and the queue stops while it does.                 *)
EXTENDS ProducerQueue

CONSTANTS c1, c2

MCTwoCallers == {c1, c2}

=============================================================================
