---- MODULE MCWriteScopes ----
(* An instance of WriteScopes for TLC: a workspace with a directory of two     *)
(* files, one of them in a directory of its own, and a directory beside it.    *)
EXTENDS WriteScopes
CONSTANTS f1, f2, f3
Tree == {{f1, f2}, {f1}, {f3}}
Aims == {{f1}, {f1, f2}, {f3}}

\* Bound: mutation permits whose release failed.
OneLeak == Cardinality({p \in permits : p.kind = "mutation" /\ p.root # mut[p.id].target}) <= 1
====
