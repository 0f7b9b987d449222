---------------------------- MODULE SeenContent ----------------------------
(***************************************************************************)
(* FreshReads with a history variable: the content each agent last read    *)
(* with the `read` tool or wrote itself.                                   *)
(***************************************************************************)
EXTENDS FreshReads

VARIABLE seen

ReadsNow(o) == At(o, "idle") /\ op'[o].pc = "note"
LandsNow(o) == At(o, "checked") /\ op'[o].pc = "note"

SeenInit == Init /\ seen = NoRecords

SeenNext ==
  /\ Next
  /\ seen' = [o \in Owners |-> [p \in Paths |->
                IF (ReadsNow(o) \/ LandsNow(o)) /\ op'[o].path = p
                THEN content'[p] ELSE seen[o][p]]]

SeenSpec == SeenInit /\ [][SeenNext]_<<vars, seen>>

\* "A write that relies on a read record is rejected if the file changed after
\* the read" (locks/mod.rs): a blind overwrite or deletion replaces content its
\* agent has read or written.
NoBlindOverwrite ==
  \A o \in Owners :
    (At(o, "checked") /\ op[o].kind \in {"replace", "delete"})
       => content[Path(o)] = seen[o][Path(o)]
=============================================================================
