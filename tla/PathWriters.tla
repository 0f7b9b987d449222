--------------------------- MODULE PathWriters ---------------------------
(***************************************************************************)
(* What the file locks promise the tools that use them: a writer enters a  *)
(* path, changes the file and leaves, and nobody else is inside meanwhile. *)
(* A daemon restart throws every writer out.                               *)
(***************************************************************************)
CONSTANTS Writers, Paths

VARIABLE inside   \* the (writer, path) pairs between begin_write and the end

Init == inside = {}

Vacant(p) == \A x \in inside : x[2] # p

Enter(w, p) == Vacant(p) /\ inside' = inside \cup {<<w, p>>}

Leave(w, p) == <<w, p>> \in inside /\ inside' = inside \ {<<w, p>>}

Evict == inside' = {}

Next ==
  \/ \E w \in Writers, p \in Paths : Enter(w, p) \/ Leave(w, p)
  \/ Evict

Spec == Init /\ [][Next]_inside
=============================================================================
