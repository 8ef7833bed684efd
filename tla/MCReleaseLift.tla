---------------------------- MODULE MCReleaseLift ----------------------------
(***************************************************************************)
(* Small instances of ReleaseLift.  create and rival are plain deploys;     *)
(* update, patch and rollback run with --update, and the rollback carries   *)
(* the suite of the first deploy again.                                    *)
(***************************************************************************)
EXTENDS ReleaseLift

CONSTANTS create, rival, update, patch, rollback

MCSuites == {"v1", "v2", "v3"}
MCSpecs == {"provider"} \cup MCSuites

MCVersion(v) ==
  [suite |-> v, spec |-> [k \in Kinds |-> IF k = "Provider" THEN "provider" ELSE v]]

MCPackage ==
  [a \in Attempts |-> MCVersion(CASE a = update -> "v2" [] a = patch -> "v3" [] OTHER -> "v1")]

\* Every attempt on a host of its own, and all of them on one host.
MCApart == [a \in Attempts |-> a]
MCTogether == [a \in Attempts |-> 1]

MCEvaluatedSpec == MCVersion("v1").spec
MCAbsent == {{}}
MCAnyPair == SUBSET Kinds
==============================================================================
