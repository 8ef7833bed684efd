--------------------------- MODULE MCRetainedStore ---------------------------
(***************************************************************************)
(* Small instances of RetainedStore.                                        *)
(***************************************************************************)
EXTENDS RetainedStore, TLC

StoreSymmetry == Permutations(Processes) \cup Permutations(Handles)

\* Without power losses no step depends on what is flushed, and of the history
\* only `used' decides anything.
Volatile == <<dirs, names, torn, tree, family, lock, pc, op, arg, pub, then, used>>
==============================================================================
