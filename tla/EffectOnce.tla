---------------------------- MODULE EffectOnce ----------------------------
(***************************************************************************)
(* What the external journal promises about one ambiguous side effect: it  *)
(* is submitted at most once, only while its operation is durably marked   *)
(* as dispatched, and never after the operation was closed.                *)
(***************************************************************************)
EXTENDS Naturals

CONSTANT Ops    \* operations: one non-idempotent external effect each

VARIABLES
  phase,    \* what the durable record says of the operation
  sends     \* how often the provider or backend was called

Init ==
  /\ phase = [o \in Ops |-> "absent"]
  /\ sends = [o \in Ops |-> 0]

Move(o, from, to) ==
  /\ phase[o] = from
  /\ phase' = [phase EXCEPT ![o] = to]
  /\ UNCHANGED sends

Record(o) == Move(o, "absent", "undispatched") \/ Move(o, "absent", "dispatched")
Dispatch(o) == Move(o, "undispatched", "dispatched")
Close(o) == Move(o, "undispatched", "closed") \/ Move(o, "dispatched", "closed")

Send(o) ==
  /\ phase[o] = "dispatched"
  /\ sends[o] = 0
  /\ sends' = [sends EXCEPT ![o] = 1]
  /\ UNCHANGED phase

Next == \E o \in Ops : Record(o) \/ Dispatch(o) \/ Close(o) \/ Send(o)

Spec == Init /\ [][Next]_<<phase, sends>>
=============================================================================
