---------------------------- MODULE MCLifecycle ----------------------------
(* The two factories of main.go and the kinds they watch.                  *)
EXTENDS Lifecycle

KindFactories == [k \in Kinds |-> IF k = "extendingresses" THEN "extend" ELSE "kube"]
==============================================================================
