--------------------------- MODULE MCDelayingQueue ---------------------------
(* Two keys, two workers and a channel of three entries: enough for two     *)
(* copies of one key to be in flight with the other key between them.       *)
EXTENDS DelayingQueue
==============================================================================
