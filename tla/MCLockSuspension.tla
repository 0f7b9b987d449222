---- MODULE MCLockSuspension ----
(* An instance of LockSuspension for TLC: the agent a1 of one session, and     *)
(* b1 and b2 of another, between which the primary may be swapped.             *)
EXTENDS LockSuspension
CONSTANTS a1, b1, b2
SelfRefresh == [o \in Owners |-> o]
TwoSessions == {{a1}, {b1, b2}}
PrimarySwap == {<<b1, b2>>}
====
