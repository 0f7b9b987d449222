---- MODULE MCFileLocks ----
(* Instances of FileLocks for TLC. *)
EXTENDS FileLocks, TLC
SelfRefresh == [o \in Owners |-> o]
\* Every call refreshes the holds of one agent: a delegated child takes locks as
\* `agent#task` and its dispatcher refreshes `agent`.
ParentRefresh == [o \in Owners |-> CHOOSE q \in Owners : TRUE]
Symmetry == Permutations(Owners) \cup Permutations(Paths) \cup Permutations(Requests)
====
