--------------------------- MODULE MCNginxCommand ---------------------------
(* The commands of the worker, one after the other, without an end.        *)
EXTENDS NginxCommand
==============================================================================
