--------------------------- MODULE MCQueueProtocol ---------------------------
(* Three keys and two workers, so that an item can be added again while one *)
(* worker holds it and the other is idle.                                   *)
EXTENDS QueueProtocol
==============================================================================
