---------------------------- MODULE MCSuiteCandidate ----------------------------
(***************************************************************************)
(* Small instances of SuiteCandidate: a suite of one case, repeated once,     *)
(* that needs one pass, and a suite of one Task.  Two evaluations differ in    *)
(* nothing but their names.                                                *)
(***************************************************************************)
EXTENDS SuiteCandidate

CONSTANTS r1, r2, o1

MCRepeated == <<[tasks |-> <<"t1", "t2">>, need |-> 1]>>
MCSingle == <<[tasks |-> <<"t1">>, need |-> 1]>>

EvaluationsAlike == Permutations(Runs)
===============================================================================
