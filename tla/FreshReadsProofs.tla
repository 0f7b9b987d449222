------------------------- MODULE FreshReadsProofs -------------------------
(***************************************************************************)
(* Proofs about FreshReads, for any owners, paths and contents, with calls *)
(* dropped, database writes lost, holds expiring and the daemon restarting *)
(* at any point.                                                           *)
(***************************************************************************)
EXTENDS FreshReads, TLAPS

\* The path a call without one names is a path.
LEMMA AnyPathInPaths == AnyPath \in Paths
BY FilesAssumption DEF AnyPath

\* The state of an owner in no call is a call state, and likewise a request's.
LEMMA IdleTypes ==
  /\ NoCall \in Calls
  /\ NoRequest \in [pc : {"idle", "in", "checked"}, path : Paths, base : Contents \cup {None}]
BY AnyPathInPaths DEF NoCall, NoRequest, Calls, ToolKinds, States

\* Changing one entry of a table of tables.
LEMMA TableUpdate ==
  ASSUME NEW A, NEW B, NEW C, NEW f \in [A -> [B -> C]],
         NEW x \in A, NEW y \in B, NEW z \in C, NEW g, g = [f EXCEPT ![x][y] = z]
  PROVE  /\ g \in [A -> [B -> C]]
         /\ \A a \in A, b \in B : g[a][b] = IF a = x /\ b = y THEN z ELSE f[a][b]
<1>1. g = [f EXCEPT ![x] = [f[x] EXCEPT ![y] = z]]
  OBVIOUS
<1> DEFINE h == [f[x] EXCEPT ![y] = z]
<1>2. h \in [B -> C] /\ \A b \in B : h[b] = IF b = y THEN z ELSE f[x][b]
  OBVIOUS
<1>3. g = [f EXCEPT ![x] = h]
  BY <1>1
<1> HIDE DEF h
<1>4. QED
  BY <1>2, <1>3

\* What a step leaves of a call when it moves on inside it.
LEMMA GotoCall ==
  ASSUME op \in [Owners -> Calls], NEW o \in Owners,
         NEW pc \in {"idle", "ready", "guard", "checked", "note", "notedb", "notemem"},
         Goto(o, pc)
  PROVE  /\ op' \in [Owners -> Calls]
         /\ op'[o] = [op[o] EXCEPT !.pc = pc]
         /\ op'[o].pc = pc /\ op'[o].kind = op[o].kind
         /\ op'[o].path = op[o].path /\ op'[o].bytes = op[o].bytes
         /\ \A q \in Owners \ {o} : op'[q] = op[q]
<1>1. op' = [op EXCEPT ![o] = [op[o] EXCEPT !.pc = pc]]
  BY DEF Goto
<1>2. op[o] \in Calls
  OBVIOUS
<1> DEFINE c == [op[o] EXCEPT !.pc = pc]
<1>3. /\ c \in Calls /\ c.pc = pc /\ c.kind = op[o].kind /\ c.path = op[o].path
      /\ c.bytes = op[o].bytes
  BY <1>2 DEF Calls
<1>4. op' = [op EXCEPT ![o] = c]
  BY <1>1
<1> HIDE DEF c
<1>5. op' \in [Owners -> Calls] /\ op'[o] = c /\ \A q \in Owners \ {o} : op'[q] = op[q]
  BY <1>3, <1>4
<1>6. QED
  BY <1>3, <1>5 DEF c

\* What a step leaves of a call when it ends it.
LEMMA EndedCall ==
  ASSUME op \in [Owners -> Calls], NEW o \in Owners, EndCall(o)
  PROVE  /\ op' \in [Owners -> Calls] /\ op'[o].pc = "idle"
         /\ \A q \in Owners \ {o} : op'[q] = op[q]
<1>1. NoCall \in Calls /\ NoCall.pc = "idle"
  BY IdleTypes DEF NoCall
<1>2. op' = [op EXCEPT ![o] = NoCall]
  BY DEF EndCall
<1>3. QED
  BY <1>1, <1>2

\* note_read keeps the hash it computed.
LEMMA HashedCall ==
  ASSUME op \in [Owners -> Calls], NEW o \in Owners, NEW b \in States,
         op' = [op EXCEPT ![o].pc = "notedb", ![o].bytes = b]
  PROVE  /\ op' \in [Owners -> Calls] /\ op'[o].pc = "notedb"
         /\ \A q \in Owners \ {o} : op'[q] = op[q]
BY DEF Calls

-----------------------------------------------------------------------------
(***************************************************************************)
(* The invariant. Whoever is between its gate and its mutation is the only *)
(* one on its path (GuardsInside, OnePerPath), so what it compared stays   *)
(* (ChecksHold) and what it knew stays (KnowsBytes): its own records move  *)
(* only in note_read after the release, or by a sweep that found it idle   *)
(* ever since (SweepFindsIdle). An expired hold has no record anywhere a   *)
(* later step could bring one back from (ExpiredGone).                     *)
(***************************************************************************)
InGuard(o) == op[o].pc \in {"guard", "checked"}

GuardsInside ==
  /\ \A o \in Owners : InGuard(o) => <<o, Path(o)>> \in inside
  /\ api.pc # "idle" => <<Api, api.path>> \in inside

OnePerPath == \A x, y \in inside : x[2] = y[2] => x = y

KnowsBytes ==
  \A o \in Owners : (InGuard(o) /\ ~Creates(o))
    => content[Path(o)] \in {reads[o][Path(o)], authored[o][Path(o)]}

Dropping(o, p) == /\ sweep # None /\ sweep.stage = "mem" /\ ~sweep.refreshed
                  /\ sweep.owner = o /\ sweep.path = p

SweepFindsIdle ==
  \A o \in Owners, p \in Paths :
    Dropping(o, p) => At(o, "idle") /\ dbReads[o][p] = None

ExpiredGone ==
  \A o \in Owners, p \in Paths : <<o, p>> \in expired =>
    /\ reads[o][p] = None /\ dbReads[o][p] = None
    /\ ~(At(o, "notemem") /\ Path(o) = p)
    /\ (sweep # None /\ sweep.owner = o /\ sweep.path = p) => sweep.grant = None

FreshInv == /\ TypeOK /\ GuardsInside /\ OnePerPath /\ CheckedContentStable
            /\ KnowsBytes /\ SweepFindsIdle /\ ExpiredGone

\* At the start nobody is in a call and nothing is recorded.
LEMMA FreshInit == Init => FreshInv
<1> SUFFICES ASSUME Init PROVE FreshInv
  OBVIOUS
<1> USE IdleTypes DEF Init
<1>1. TypeOK
  BY DEF TypeOK, NoRecords, Records
<1>2. \A o \in Owners : op[o].pc = "idle"
  BY DEF NoCall
<1>3. api.pc = "idle"
  BY DEF NoRequest
<1>4. QED
  BY <1>1, <1>2, <1>3 DEF FreshInv, GuardsInside, OnePerPath, CheckedContentStable,
     KnowsBytes, SweepFindsIdle, ExpiredGone, InGuard, Dropping, At

\* The types, one step of the proof per action.
LEMMA TypeNext == TypeOK /\ [Next]_vars => TypeOK'
<1> SUFFICES ASSUME TypeOK, [Next]_vars PROVE TypeOK'
  OBVIOUS
<1>0. \A o \in Owners : Path(o) \in Paths /\ op[o].bytes \in States /\ content[Path(o)] \in States
  BY DEF TypeOK, Calls, Path
<1> USE DEF TypeOK, At
<1>1. ASSUME NEW o \in Owners, NEW kind \in ToolKinds, NEW p \in Paths, StartCall(o, kind, p)
      PROVE  TypeOK'
  <2>1. op' \in [Owners -> Calls]
    <3>1. [NoCall EXCEPT !.pc = "note", !.path = p] \in Calls
      BY IdleTypes DEF Calls
    <3>2. [pc |-> "ready", kind |-> kind, path |-> p, bytes |-> content[p]] \in Calls
      BY DEF Calls
    <3>3. QED
      BY <1>1, <3>1, <3>2 DEF StartCall
  <2>2. sweep' \in Sweeps \cup {None}
    BY <1>1 DEF StartCall, Sweeps
  <2>3. QED
    BY <1>1, <2>1, <2>2 DEF StartCall, records
<1>2. ASSUME NEW o \in Owners, BeginGuard(o) PROVE TypeOK'
  <2>1. op' \in [Owners -> Calls]
    BY <1>2, GotoCall, EndedCall DEF BeginGuard
  <2>2. inside' \subseteq (Owners \cup {Api}) \X Paths
    BY <1>0, <1>2 DEF BeginGuard, Locks!Enter
  <2>3. QED
    BY <1>2, <2>1, <2>2 DEF BeginGuard, records
<1>3. ASSUME NEW o \in Owners, StabilityCheck(o) \/ GiveUp(o) PROVE TypeOK'
  <2>1. op' \in [Owners -> Calls]
    BY <1>3, GotoCall, EndedCall DEF StabilityCheck, GiveUp
  <2>2. inside' \subseteq inside
    BY <1>3 DEF StabilityCheck, GiveUp, Locks!Leave
  <2>3. QED
    BY <1>3, <2>1, <2>2 DEF StabilityCheck, GiveUp, records
<1>4. ASSUME NEW o \in Owners, DropCall(o) PROVE TypeOK'
  BY <1>4, IdleTypes DEF DropCall, EndCall, records
<1>5. ASSUME NEW o \in Owners, NEW c \in States, Land(o, c) PROVE TypeOK'
  <2> DEFINE k == IF Creates(o) THEN "create" ELSE "read"
  <2>1. [NoCall EXCEPT !.pc = "note", !.path = Path(o), !.kind = k] \in Calls
    BY <1>0, IdleTypes DEF Calls, ToolKinds
  <2>2. op' \in [Owners -> Calls]
    BY <1>5, <2>1 DEF Land
  <2>3. content' \in [Paths -> States]
    BY <1>0, <1>5 DEF Land, Put
  <2>4. inside' \subseteq inside
    BY <1>5 DEF Land, Locks!Leave
  <2>5. QED
    BY <1>5, <2>2, <2>3, <2>4 DEF Land, records
<1>6. ASSUME NEW o \in Owners, NoteHash(o) PROVE TypeOK'
  <2>1. op' \in [Owners -> Calls]
    BY <1>0, <1>6, HashedCall, EndedCall DEF NoteHash
  <2>2. authored' \in [Owners -> [Paths -> Contents \cup {None}]]
    <3>1. CASE authored' = authored
      BY <3>1
    <3>2. CASE /\ content[Path(o)] # NoFile
               /\ authored' = [authored EXCEPT ![o][Path(o)] = content[Path(o)]]
      <4>1. content[Path(o)] \in Contents \cup {None}
        BY <1>0, <3>2 DEF States
      <4>2. QED
        BY <1>0, <3>2, <4>1, TableUpdate
    <3>3. QED
      BY <1>6, <3>1, <3>2 DEF NoteHash, Authors
  <2>3. QED
    BY <1>6, <2>1, <2>2 DEF NoteHash
<1>7. ASSUME NEW o \in Owners, NoteDb(o) PROVE TypeOK'
  <2>1. op' \in [Owners -> Calls]
    BY <1>7, GotoCall, EndedCall DEF NoteDb
  <2>2. dbReads' \in [Owners -> [Paths -> Records]]
    <3>1. op[o].bytes \in Records
      BY <1>0 DEF Records
    <3>2. CASE dbReads' = [dbReads EXCEPT ![o][Path(o)] = op[o].bytes]
      BY <1>0, <3>1, <3>2, TableUpdate
    <3>3. QED
      BY <1>7, <3>2 DEF NoteDb
  <2>3. expired' \subseteq expired
    BY <1>7 DEF NoteDb
  <2>4. QED
    BY <1>7, <2>1, <2>2, <2>3 DEF NoteDb
<1>8. ASSUME NEW o \in Owners, NoteMemory(o) PROVE TypeOK'
  <2>1. op' \in [Owners -> Calls]
    BY <1>8, EndedCall DEF NoteMemory
  <2>2. reads' \in [Owners -> [Paths -> Records]]
    <3>1. op[o].bytes \in Records /\ reads' = [reads EXCEPT ![o][Path(o)] = op[o].bytes]
      BY <1>0, <1>8 DEF Records, NoteMemory
    <3>2. QED
      BY <1>0, <3>1, TableUpdate
  <2>3. QED
    BY <1>8, <2>1, <2>2 DEF NoteMemory
<1>9. ASSUME NEW o \in Owners, NEW p \in Paths, SweepDb(o, p) PROVE TypeOK'
  <2>1. dbReads' \in [Owners -> [Paths -> Records]]
    <3>1. None \in Records /\ dbReads' = [dbReads EXCEPT ![o][p] = None]
      BY <1>9 DEF Records, SweepDb, DeleteReadRow
    <3>2. QED
      BY <3>1, TableUpdate
  <2>2. sweep' \in Sweeps
    BY <1>9 DEF SweepDb, Sweeps, Records
  <2>3. QED
    BY <1>9, <2>1, <2>2 DEF SweepDb
<1>10. CASE SweepMemory
  <2>1. sweep \in Sweeps /\ sweep.owner \in Owners /\ sweep.path \in Paths
    BY <1>10 DEF SweepMemory, Sweeps
  <2>2. reads' \in [Owners -> [Paths -> Records]]
    <3>1. CASE reads' = [reads EXCEPT ![sweep.owner][sweep.path] = None]
      <4>1. None \in Records
        BY DEF Records
      <4>2. QED
        BY <2>1, <3>1, <4>1, TableUpdate
    <3>2. QED
      BY <1>10, <3>1 DEF SweepMemory
  <2>3. expired' \subseteq Owners \X Paths
    BY <1>10, <2>1 DEF SweepMemory
  <2>4. sweep' \in Sweeps \cup {None}
    <3>1. reads[sweep.owner][sweep.path] \in Records
      BY <2>1
    <3>2. [sweep EXCEPT !.stage = "restore", !.grant = reads[sweep.owner][sweep.path]] \in Sweeps
      BY <2>1, <3>1 DEF Sweeps
    <3>3. QED
      BY <1>10, <3>2 DEF SweepMemory
  <2>5. QED
    BY <1>10, <2>2, <2>3, <2>4 DEF SweepMemory
<1>11. CASE SweepRestore
  <2>1. sweep.owner \in Owners /\ sweep.path \in Paths /\ sweep.grant \in Records
    BY <1>11 DEF SweepRestore, Sweeps
  <2>2. dbReads' \in [Owners -> [Paths -> Records]]
    <3>1. CASE dbReads' = [dbReads EXCEPT ![sweep.owner][sweep.path] = sweep.grant]
      BY <2>1, <3>1, TableUpdate
    <3>2. QED
      BY <1>11, <3>1 DEF SweepRestore
  <2>3. QED
    BY <1>11, <2>2 DEF SweepRestore
<1>12. ASSUME NEW p \in Paths, NEW base \in Contents \cup {None}, ApiBegin(p, base) PROVE TypeOK'
  BY <1>12 DEF ApiBegin, Locks!Enter, records
<1>13. CASE ApiCheck
  BY <1>13, IdleTypes DEF ApiCheck, Locks!Leave, records
<1>14. ASSUME NEW c \in States, ApiWrite(c) PROVE TypeOK'
  BY <1>14, IdleTypes DEF ApiWrite, Put, Locks!Leave, records
<1>15. CASE Restart
  BY <1>15, IdleTypes DEF Restart, Locks!Evict, NoRecords
<1>16. CASE UNCHANGED vars
  BY <1>16 DEF vars, records
<1>17. QED
  BY <1>1, <1>2, <1>3, <1>4, <1>5, <1>6, <1>7, <1>8, <1>9, <1>10, <1>11, <1>12, <1>13, <1>14,
     <1>15, <1>16 DEF Next

-----------------------------------------------------------------------------
\* The four conjuncts about guards.
GuardInv == GuardsInside /\ OnePerPath /\ CheckedContentStable /\ KnowsBytes

\* A step of o outside its guard, that changes no other owner's records.
LEMMA OutsideStep ==
  ASSUME FreshInv, TypeOK', NEW o \in Owners, UNCHANGED <<content, inside, api>>,
         ~InGuard(o)', \A q \in Owners \ {o} : op'[q] = op[q],
         \A q \in Owners \ {o} : reads'[q] = reads[q] /\ authored'[q] = authored[q]
  PROVE  GuardInv'
BY DEF FreshInv, GuardInv, GuardsInside, OnePerPath, CheckedContentStable, KnowsBytes,
   InGuard, Path, At, Creates

\* A writer leaves its path, perhaps with the file changed.
LEMMA LeavingStep ==
  ASSUME FreshInv, NEW w \in Owners \cup {Api}, NEW p \in Paths,
         <<w, p>> \in inside, inside' = inside \ {<<w, p>>},
         \A x \in Paths \ {p} : content'[x] = content[x],
         UNCHANGED <<reads, authored>>,
         \A q \in Owners \ {w} : op'[q] = op[q],
         w \in Owners => ~InGuard(w)' /\ api' = api,
         w = Api => api'.pc = "idle"
  PROVE  GuardInv'
<1>0. \A q \in Owners : Path(q) \in Paths
  BY DEF FreshInv, TypeOK, Calls, Path
<1>1. \A q \in Owners : InGuard(q)' => q # w /\ op'[q] = op[q] /\ InGuard(q) /\ Path(q) # p
  <2> SUFFICES ASSUME NEW q \in Owners, InGuard(q)'
               PROVE  q # w /\ op'[q] = op[q] /\ InGuard(q) /\ Path(q) # p
    OBVIOUS
  <2>1. q # w
    BY WritersAssumption
  <2>2. op'[q] = op[q] /\ InGuard(q)
    BY <2>1 DEF InGuard
  <2>3. <<q, Path(q)>> \in inside
    BY <2>2 DEF FreshInv, GuardsInside
  <2>4. Path(q) = p => q = w
    BY <2>3 DEF FreshInv, OnePerPath
  <2>5. QED
    BY <2>1, <2>2, <2>4
<1>2. api'.pc # "idle" => api' = api /\ api.path # p
  <2> SUFFICES ASSUME api'.pc # "idle" PROVE api' = api /\ api.path # p
    OBVIOUS
  <2>1. w \in Owners /\ api' = api
    OBVIOUS
  <2>2. <<Api, api.path>> \in inside
    BY <2>1 DEF FreshInv, GuardsInside
  <2>3. api.path = p => w = Api
    BY <2>2 DEF FreshInv, OnePerPath
  <2>4. QED
    BY <2>1, <2>3, WritersAssumption
<1>3. GuardsInside'
  BY <1>1, <1>2 DEF FreshInv, GuardsInside, Path
<1>4. OnePerPath'
  BY DEF FreshInv, OnePerPath
<1>5. CheckedContentStable'
  <2>1. ASSUME NEW q \in Owners, At(q, "checked")', ~Creates(q)'
        PROVE  content'[Path(q)'] = op'[q].bytes
    <3>1. InGuard(q)'
      BY <2>1 DEF InGuard, At
    <3>2. op'[q] = op[q] /\ Path(q) # p
      BY <1>1, <3>1
    <3>3. QED
      BY <1>0, <2>1, <3>2 DEF FreshInv, CheckedContentStable, At, Creates, Path
  <2>2. ASSUME api'.pc = "checked", api'.base # None
        PROVE  HashOrEmpty(content'[api'.path]) = api'.base
    BY <1>2, <2>2 DEF FreshInv, TypeOK, CheckedContentStable
  <2>3. QED
    BY <2>1, <2>2 DEF CheckedContentStable
<1>6. KnowsBytes'
  BY <1>0, <1>1 DEF FreshInv, KnowsBytes, Path, Creates
<1>7. QED
  BY <1>3, <1>4, <1>5, <1>6 DEF GuardInv

\* Every step keeps the invariant about guards.
LEMMA GuardNext == FreshInv /\ [Next]_vars => GuardInv'
<1> SUFFICES ASSUME FreshInv, [Next]_vars PROVE GuardInv'
  OBVIOUS
<1>0. /\ TypeOK /\ TypeOK' /\ op \in [Owners -> Calls]
      /\ \A o \in Owners : Path(o) \in Paths
  BY TypeNext DEF FreshInv, TypeOK, Calls, Path
<1>1. ASSUME NEW o \in Owners, NEW kind \in ToolKinds, NEW p \in Paths, StartCall(o, kind, p)
      PROVE  GuardInv'
  <2>1. op'[o].pc \in {"note", "ready"}
    BY <1>0, <1>1 DEF StartCall, NoCall
  <2>2. \A q \in Owners \ {o} : op'[q] = op[q]
    BY <1>0, <1>1 DEF StartCall
  <2>3. ~InGuard(o)'
    BY <2>1 DEF InGuard
  <2>4. QED
    BY <1>0, <1>1, <2>2, <2>3, OutsideStep DEF StartCall, records
<1>2. ASSUME NEW o \in Owners, BeginGuard(o) PROVE GuardInv'
  <2>1. CASE EndCall(o) /\ UNCHANGED inside
    <3>1. ~InGuard(o)' /\ \A q \in Owners \ {o} : op'[q] = op[q]
      BY <1>0, <2>1, EndedCall DEF InGuard
    <3>2. QED
      BY <1>0, <1>2, <2>1, <3>1, OutsideStep DEF BeginGuard, records
  <2>2. CASE FreshRead(o) /\ Locks!Enter(o, Path(o)) /\ Goto(o, "guard")
    <3>1. /\ op'[o].pc = "guard" /\ op'[o].kind = op[o].kind
          /\ op'[o].path = op[o].path /\ op'[o].bytes = op[o].bytes
          /\ \A q \in Owners \ {o} : op'[q] = op[q]
      BY <1>0, <2>2, GotoCall
    <3>2. UNCHANGED <<content, reads, authored, api>>
      BY <1>2 DEF BeginGuard, records
    <3>3. /\ inside' = inside \cup {<<o, Path(o)>>}
          /\ \A x \in inside : x[2] # Path(o)
      BY <2>2 DEF Locks!Enter, Locks!Vacant
    <3>4. GuardsInside' /\ OnePerPath'
      BY <3>1, <3>2, <3>3 DEF FreshInv, GuardsInside, OnePerPath, InGuard, Path
    <3>5. CheckedContentStable'
      BY <3>1, <3>2 DEF FreshInv, CheckedContentStable, At, Creates, Path
    <3>6. Creates(o) \/ content[Path(o)] \in {reads[o][Path(o)], authored[o][Path(o)]}
      BY <2>2 DEF FreshRead
    <3>7. KnowsBytes'
      BY <3>1, <3>2, <3>6 DEF FreshInv, KnowsBytes, InGuard, Creates, Path
    <3>8. QED
      BY <3>4, <3>5, <3>7 DEF GuardInv
  <2>3. QED
    BY <1>2, <2>1, <2>2 DEF BeginGuard
<1>3. ASSUME NEW o \in Owners, StabilityCheck(o) PROVE GuardInv'
  <2>1. CASE Unchanged(o) /\ Goto(o, "checked") /\ UNCHANGED inside
    <3>1. /\ op'[o].pc = "checked" /\ op'[o].kind = op[o].kind
          /\ op'[o].path = op[o].path /\ op'[o].bytes = op[o].bytes
          /\ \A q \in Owners \ {o} : op'[q] = op[q]
      BY <1>0, <2>1, GotoCall
    <3>2. UNCHANGED <<content, reads, authored, api, inside>> /\ op[o].pc = "guard"
      BY <1>3, <2>1 DEF StabilityCheck, records, At
    <3>3. GuardsInside' /\ OnePerPath'
      BY <3>1, <3>2 DEF FreshInv, GuardsInside, OnePerPath, InGuard, Path
    <3>4. CheckedContentStable'
      BY <2>1, <3>1, <3>2 DEF FreshInv, CheckedContentStable, At, Creates, Path, Unchanged
    <3>5. KnowsBytes'
      BY <3>1, <3>2 DEF FreshInv, KnowsBytes, InGuard, Creates, Path
    <3>6. QED
      BY <3>3, <3>4, <3>5 DEF GuardInv
  <2>2. CASE EndCall(o) /\ Locks!Leave(o, Path(o))
    <3>1. ~InGuard(o)' /\ \A q \in Owners \ {o} : op'[q] = op[q]
      BY <1>0, <2>2, EndedCall DEF InGuard
    <3>2. QED
      BY <1>0, <1>3, <2>2, <3>1, LeavingStep, WritersAssumption
      DEF StabilityCheck, records, Locks!Leave
  <2>3. QED
    BY <1>3, <2>1, <2>2 DEF StabilityCheck
<1>4. ASSUME NEW o \in Owners, GiveUp(o) PROVE GuardInv'
  <2>1. ~InGuard(o)' /\ \A q \in Owners \ {o} : op'[q] = op[q]
    BY <1>0, <1>4, EndedCall DEF InGuard, GiveUp
  <2>2. QED
    BY <1>0, <1>4, <2>1, LeavingStep, WritersAssumption DEF GiveUp, records, Locks!Leave
<1>5. ASSUME NEW o \in Owners, NEW c \in States, Land(o, c) PROVE GuardInv'
  <2>1. op'[o].pc = "note" /\ \A q \in Owners \ {o} : op'[q] = op[q]
    BY <1>0, <1>5 DEF Land, NoCall
  <2>2. ~InGuard(o)'
    BY <2>1 DEF InGuard
  <2>3. \A x \in Paths \ {Path(o)} : content'[x] = content[x]
    BY <1>0, <1>5 DEF Land, Put, TypeOK
  <2>4. QED
    BY <1>0, <1>5, <2>1, <2>2, <2>3, LeavingStep, WritersAssumption DEF Land, records, Locks!Leave
<1>6. ASSUME NEW o \in Owners, DropCall(o) \/ NoteHash(o) \/ NoteDb(o) \/ NoteMemory(o)
      PROVE  GuardInv'
  <2>1. op'[o].pc \in {"idle", "notedb", "notemem"} /\ \A q \in Owners \ {o} : op'[q] = op[q]
    <3>1. CASE EndCall(o)
      BY <1>0, <3>1, EndedCall
    <3>2. CASE op' = [op EXCEPT ![o].pc = "notedb", ![o].bytes = content[Path(o)]]
      <4>1. content[Path(o)] \in States
        BY <1>0 DEF TypeOK
      <4>2. QED
        BY <1>0, <3>2, <4>1, HashedCall
    <3>3. CASE Goto(o, "notemem")
      BY <1>0, <3>3, GotoCall
    <3>4. QED
      BY <1>6, <3>1, <3>2, <3>3 DEF DropCall, NoteHash, NoteDb, NoteMemory
  <2>2. ~InGuard(o)'
    BY <2>1 DEF InGuard
  <2>3. UNCHANGED <<content, inside, api>>
    BY <1>6 DEF DropCall, NoteHash, NoteDb, NoteMemory
  <2>4. \A q \in Owners \ {o} : reads'[q] = reads[q] /\ authored'[q] = authored[q]
    BY <1>0, <1>6 DEF DropCall, NoteHash, Authors, NoteDb, NoteMemory, records, TypeOK
  <2>5. QED
    BY <1>0, <2>1, <2>2, <2>3, <2>4, OutsideStep
<1>7. CASE SweepMemory
  <2>1. UNCHANGED <<content, inside, authored, op, api>>
    BY <1>7 DEF SweepMemory
  <2>2. \A q \in Owners : InGuard(q) => reads'[q] = reads[q]
    <3>1. CASE UNCHANGED reads
      BY <3>1
    <3>2. CASE ~sweep.refreshed /\ reads' = [reads EXCEPT ![sweep.owner][sweep.path] = None]
      <4>1. Dropping(sweep.owner, sweep.path) /\ sweep.owner \in Owners /\ sweep.path \in Paths
        BY <1>0, <1>7, <3>2 DEF SweepMemory, Dropping, TypeOK, Sweeps
      <4>2. ~InGuard(sweep.owner)
        BY <4>1 DEF FreshInv, SweepFindsIdle, InGuard, At
      <4>3. QED
        BY <1>0, <3>2, <4>1, <4>2 DEF TypeOK
    <3>3. QED
      BY <1>7, <3>1, <3>2 DEF SweepMemory
  <2>3. QED
    BY <2>1, <2>2 DEF FreshInv, GuardInv, GuardsInside, OnePerPath, CheckedContentStable,
       KnowsBytes, InGuard, Path, At, Creates
<1>8. CASE UNCHANGED <<content, inside, reads, authored, op, api>>
  BY <1>8 DEF FreshInv, GuardInv, GuardsInside, OnePerPath, CheckedContentStable,
     KnowsBytes, InGuard, Path, At, Creates
<1>9. CASE SweepRestore \/ UNCHANGED vars \/ \E o \in Owners, p \in Paths : SweepDb(o, p)
  BY <1>8, <1>9 DEF SweepRestore, SweepDb, vars, records
<1>10. ASSUME NEW p \in Paths, NEW base \in Contents \cup {None}, ApiBegin(p, base)
       PROVE  GuardInv'
  <2>1. /\ inside' = inside \cup {<<Api, p>>} /\ \A x \in inside : x[2] # p
        /\ api' = [pc |-> "in", path |-> p, base |-> base] /\ api.pc = "idle"
        /\ UNCHANGED <<content, reads, authored, op>>
    BY <1>10 DEF ApiBegin, Locks!Enter, Locks!Vacant, records
  <2>2. GuardsInside' /\ OnePerPath'
    BY <2>1 DEF FreshInv, GuardsInside, OnePerPath, InGuard, Path
  <2>3. QED
    BY <2>1, <2>2 DEF FreshInv, GuardInv, CheckedContentStable, KnowsBytes, InGuard, Path, At, Creates
<1>11. CASE ApiCheck
  <2>1. CASE /\ api.base \in {None, HashOrEmpty(content[api.path])}
             /\ api' = [api EXCEPT !.pc = "checked"] /\ UNCHANGED inside
    <3>1. /\ api'.pc = "checked" /\ api'.path = api.path /\ api'.base = api.base
          /\ api.pc = "in" /\ UNCHANGED <<content, reads, authored, op>>
      BY <1>0, <1>11, <2>1 DEF ApiCheck, TypeOK, records
    <3>2. QED
      BY <2>1, <3>1 DEF FreshInv, GuardInv, GuardsInside, OnePerPath, CheckedContentStable,
         KnowsBytes, InGuard, Path, At, Creates
  <2>2. CASE api' = NoRequest /\ Locks!Leave(Api, api.path)
    <3>1. api'.pc = "idle" /\ api.path \in Paths /\ UNCHANGED <<content, reads, authored, op>>
      BY <1>0, <1>11, <2>2 DEF ApiCheck, NoRequest, TypeOK, records
    <3>2. QED
      BY <2>2, <3>1, LeavingStep, WritersAssumption DEF Locks!Leave
  <2>3. QED
    BY <1>11, <2>1, <2>2 DEF ApiCheck
<1>12. ASSUME NEW c \in States, ApiWrite(c) PROVE GuardInv'
  <2>1. /\ api'.pc = "idle" /\ api.path \in Paths /\ UNCHANGED <<reads, authored, op>>
        /\ \A x \in Paths \ {api.path} : content'[x] = content[x]
    BY <1>0, <1>12 DEF ApiWrite, Put, NoRequest, TypeOK, records
  <2>2. QED
    BY <1>12, <2>1, LeavingStep, WritersAssumption DEF ApiWrite, Locks!Leave
<1>13. CASE Restart
  <2>1. /\ inside' = {} /\ api'.pc = "idle" /\ \A q \in Owners : op'[q].pc = "idle"
    BY <1>13 DEF Restart, Locks!Evict, NoRequest, NoCall
  <2>2. QED
    BY <2>1 DEF GuardInv, GuardsInside, OnePerPath, CheckedContentStable, KnowsBytes, InGuard, At
<1>14. QED
  BY <1>1, <1>2, <1>3, <1>4, <1>5, <1>6, <1>7, <1>9, <1>10, <1>11, <1>12, <1>13 DEF Next

-----------------------------------------------------------------------------
\* The two conjuncts about records that go.
RecordInv == SweepFindsIdle /\ ExpiredGone

\* A step of a call that touches no record and does not start note_read's write
\* to memory keeps them, whoever it belongs to.
LEMMA CallKeepsRecords ==
  ASSUME FreshInv, NEW o \in Owners, UNCHANGED <<reads, dbReads, sweep, expired>>,
         op[o].pc # "idle", op'[o].pc # "notemem", \A q \in Owners \ {o} : op'[q] = op[q]
  PROVE  RecordInv'
<1>1. SweepFindsIdle'
  BY DEF FreshInv, SweepFindsIdle, Dropping, At
<1>2. ExpiredGone'
  BY DEF FreshInv, ExpiredGone, At, Path
<1>3. QED
  BY <1>1, <1>2 DEF RecordInv

\* Every step keeps the invariant about records that go.
LEMMA RecordNext == FreshInv /\ [Next]_vars => RecordInv'
<1> SUFFICES ASSUME FreshInv, [Next]_vars PROVE RecordInv'
  OBVIOUS
<1>0. /\ TypeOK /\ TypeOK' /\ op \in [Owners -> Calls]
      /\ reads \in [Owners -> [Paths -> Records]] /\ dbReads \in [Owners -> [Paths -> Records]]
      /\ sweep \in Sweeps \cup {None}
      /\ \A o \in Owners : Path(o) \in Paths /\ op[o].bytes \in Records
  BY TypeNext DEF FreshInv, TypeOK, Calls, Path, Records
<1>1. ASSUME NEW o \in Owners, NEW kind \in ToolKinds, NEW p \in Paths, StartCall(o, kind, p)
      PROVE  RecordInv'
  <2>1. /\ op'[o].pc \in {"note", "ready"} /\ op[o].pc = "idle"
        /\ \A q \in Owners \ {o} : op'[q] = op[q]
    BY <1>0, <1>1 DEF StartCall, NoCall, At
  <2>2. UNCHANGED <<reads, dbReads, expired>>
    BY <1>1 DEF StartCall, records
  <2>3. CASE sweep # None /\ sweep.owner = o
    <3>1. sweep \in Sweeps /\ sweep' = [sweep EXCEPT !.refreshed = TRUE]
      BY <1>0, <1>1, <2>3 DEF StartCall
    <3>2. /\ sweep'.refreshed = TRUE /\ sweep'.owner = o
          /\ sweep'.path = sweep.path /\ sweep'.grant = sweep.grant
      BY <2>3, <3>1 DEF Sweeps
    <3>3. SweepFindsIdle'
      BY <3>2 DEF SweepFindsIdle, Dropping
    <3>4. ExpiredGone'
      BY <2>1, <2>2, <2>3, <3>2 DEF FreshInv, ExpiredGone, At, Path
    <3>5. QED
      BY <3>3, <3>4 DEF RecordInv
  <2>4. CASE ~(sweep # None /\ sweep.owner = o)
    <3>1. sweep' = sweep
      BY <1>1, <2>4 DEF StartCall
    <3>2. SweepFindsIdle'
      BY <2>1, <2>2, <2>4, <3>1 DEF FreshInv, SweepFindsIdle, Dropping, At
    <3>3. ExpiredGone'
      BY <2>1, <2>2, <3>1 DEF FreshInv, ExpiredGone, At, Path
    <3>4. QED
      BY <3>2, <3>3 DEF RecordInv
  <2>5. QED
    BY <2>3, <2>4
<1>2. ASSUME NEW o \in Owners, NEW c \in States,
             BeginGuard(o) \/ StabilityCheck(o) \/ GiveUp(o) \/ DropCall(o)
             \/ NoteHash(o) \/ Land(o, c)
      PROVE  RecordInv'
  <2>1. UNCHANGED <<reads, dbReads, sweep, expired>> /\ op[o].pc # "idle"
    BY <1>2 DEF BeginGuard, StabilityCheck, GiveUp, DropCall, NoteHash, Land, records, At
  <2>2. op'[o].pc # "notemem" /\ \A q \in Owners \ {o} : op'[q] = op[q]
    <3>1. CASE EndCall(o)
      BY <1>0, <3>1, EndedCall
    <3>2. CASE Goto(o, "guard")
      BY <1>0, <3>2, GotoCall
    <3>3. CASE Goto(o, "checked")
      BY <1>0, <3>3, GotoCall
    <3>4. CASE op' = [op EXCEPT ![o].pc = "notedb", ![o].bytes = content[Path(o)]]
      <4>1. content[Path(o)] \in States
        BY <1>0 DEF TypeOK
      <4>2. QED
        BY <1>0, <3>4, <4>1, HashedCall
    <3>5. CASE Land(o, c)
      BY <1>0, <3>5 DEF Land, NoCall
    <3>6. QED
      BY <1>2, <3>1, <3>2, <3>3, <3>4, <3>5
      DEF BeginGuard, StabilityCheck, GiveUp, DropCall, NoteHash
  <2>3. QED
    BY <2>1, <2>2, CallKeepsRecords
<1>3. ASSUME NEW o \in Owners, NoteDb(o) PROVE RecordInv'
  <2>1. CASE EndCall(o) /\ UNCHANGED <<dbReads, expired>>
    <3>1. op'[o].pc = "idle" /\ \A q \in Owners \ {o} : op'[q] = op[q]
      BY <1>0, <2>1, EndedCall
    <3>2. QED
      BY <1>3, <2>1, <3>1, CallKeepsRecords DEF NoteDb, At
  <2>2. CASE /\ dbReads' = [dbReads EXCEPT ![o][Path(o)] = op[o].bytes]
             /\ expired' = expired \ {<<o, Path(o)>>}
             /\ Goto(o, "notemem")
    <3>1. /\ op'[o].pc = "notemem" /\ op'[o].path = op[o].path
          /\ \A q \in Owners \ {o} : op'[q] = op[q]
      BY <1>0, <2>2, GotoCall
    <3>2. \A q \in Owners, p \in Paths :
            dbReads'[q][p] = IF q = o /\ p = Path(o) THEN op[o].bytes ELSE dbReads[q][p]
      BY <1>0, <2>2, TableUpdate
    <3>3. UNCHANGED <<reads, sweep>> /\ op[o].pc = "notedb"
      BY <1>3 DEF NoteDb, At
    <3>4. SweepFindsIdle'
      BY <3>1, <3>2, <3>3 DEF FreshInv, SweepFindsIdle, Dropping, At
    <3>5. ExpiredGone'
      BY <2>2, <3>1, <3>2, <3>3 DEF FreshInv, ExpiredGone, At, Path
    <3>6. QED
      BY <3>4, <3>5 DEF RecordInv
  <2>3. QED
    BY <1>3, <2>1, <2>2 DEF NoteDb
<1>4. ASSUME NEW o \in Owners, NoteMemory(o) PROVE RecordInv'
  <2>1. op'[o].pc = "idle" /\ \A q \in Owners \ {o} : op'[q] = op[q]
    BY <1>0, <1>4, EndedCall DEF NoteMemory
  <2>2. \A q \in Owners, p \in Paths :
          reads'[q][p] = IF q = o /\ p = Path(o) THEN op[o].bytes ELSE reads[q][p]
    <3>1. reads' = [reads EXCEPT ![o][Path(o)] = op[o].bytes]
      BY <1>4 DEF NoteMemory
    <3>2. QED
      BY <1>0, <3>1, TableUpdate
  <2>3. UNCHANGED <<dbReads, sweep, expired>> /\ op[o].pc = "notemem"
    BY <1>4 DEF NoteMemory, At
  <2>4. SweepFindsIdle'
    BY <2>1, <2>3 DEF FreshInv, SweepFindsIdle, Dropping, At
  <2>5. ExpiredGone'
    BY <2>1, <2>2, <2>3 DEF FreshInv, ExpiredGone, At, Path
  <2>6. QED
    BY <2>4, <2>5 DEF RecordInv
<1>5. ASSUME NEW o \in Owners, NEW p \in Paths, SweepDb(o, p) PROVE RecordInv'
  <2>1. \A q \in Owners, x \in Paths :
          dbReads'[q][x] = IF q = o /\ x = p THEN None ELSE dbReads[q][x]
    <3>1. dbReads' = [dbReads EXCEPT ![o][p] = None] /\ None \in Records
      BY <1>5 DEF SweepDb, DeleteReadRow, Records
    <3>2. QED
      BY <1>0, <3>1, TableUpdate
  <2>2. /\ sweep'.owner = o /\ sweep'.path = p /\ sweep'.grant = None
        /\ op[o].pc = "idle" /\ UNCHANGED <<reads, op, expired>>
    BY <1>5 DEF SweepDb, At
  <2>3. SweepFindsIdle'
    BY <2>1, <2>2 DEF SweepFindsIdle, Dropping, At
  <2>4. ExpiredGone'
    BY <2>1, <2>2 DEF FreshInv, ExpiredGone, At, Path
  <2>5. QED
    BY <2>3, <2>4 DEF RecordInv
<1>6. CASE SweepMemory
  <2> DEFINE o == sweep.owner
             p == sweep.path
  <2>1. sweep \in Sweeps /\ sweep # None /\ sweep.stage = "mem" /\ o \in Owners /\ p \in Paths
        /\ UNCHANGED <<dbReads, op>>
    BY <1>0, <1>6 DEF SweepMemory, Sweeps
  <2>2. CASE /\ ~sweep.refreshed /\ reads' = [reads EXCEPT ![o][p] = None]
             /\ expired' = expired \cup {<<o, p>>} /\ sweep' = None
    <3>1. op[o].pc = "idle" /\ dbReads[o][p] = None
      BY <2>1, <2>2 DEF FreshInv, SweepFindsIdle, Dropping, At
    <3>2. None \in Records
      BY DEF Records
    <3> HIDE DEF o, p
    <3>3. \A q \in Owners, x \in Paths :
            reads'[q][x] = IF q = o /\ x = p THEN None ELSE reads[q][x]
      BY <1>0, <2>1, <2>2, <3>2, TableUpdate
    <3>4. SweepFindsIdle'
      BY <2>2 DEF SweepFindsIdle, Dropping
    <3>5. ExpiredGone'
      BY <2>1, <2>2, <3>1, <3>3 DEF FreshInv, ExpiredGone, At, Path
    <3>6. QED
      BY <3>4, <3>5 DEF RecordInv
  <2>3. CASE UNCHANGED <<reads, expired>> /\ sweep' = None
    BY <2>1, <2>3 DEF FreshInv, RecordInv, SweepFindsIdle, ExpiredGone, Dropping, At, Path
  <2>4. CASE /\ UNCHANGED <<reads, expired>>
             /\ sweep' = [sweep EXCEPT !.stage = "restore", !.grant = reads[o][p]]
    <3>1. /\ sweep'.stage = "restore" /\ sweep'.grant = reads[o][p]
          /\ sweep'.owner = o /\ sweep'.path = p
      BY <2>1, <2>4 DEF Sweeps
    <3>2. QED
      BY <2>1, <2>4, <3>1
      DEF FreshInv, RecordInv, SweepFindsIdle, ExpiredGone, Dropping, At, Path
  <2>5. QED
    BY <1>6, <2>2, <2>3, <2>4 DEF SweepMemory
<1>7. CASE SweepRestore
  <2> DEFINE o == sweep.owner
             p == sweep.path
  <2>1. /\ sweep # None /\ o \in Owners /\ p \in Paths /\ sweep.grant \in Records
        /\ sweep' = None /\ UNCHANGED <<reads, op, expired>>
    BY <1>0, <1>7 DEF SweepRestore, Sweeps
  <2>2. CASE UNCHANGED dbReads
    BY <2>1, <2>2 DEF FreshInv, RecordInv, SweepFindsIdle, ExpiredGone, Dropping, At, Path
  <2>3. CASE sweep.grant # None /\ dbReads' = [dbReads EXCEPT ![o][p] = sweep.grant]
    <3>1. <<o, p>> \notin expired
      BY <2>1, <2>3 DEF FreshInv, ExpiredGone
    <3> HIDE DEF o, p
    <3>2. \A q \in Owners, x \in Paths :
            dbReads'[q][x] = IF q = o /\ x = p THEN sweep.grant ELSE dbReads[q][x]
      BY <1>0, <2>1, <2>3, TableUpdate
    <3>3. QED
      BY <2>1, <3>1, <3>2 DEF FreshInv, RecordInv, SweepFindsIdle, ExpiredGone, Dropping, At, Path
  <2>4. QED
    BY <1>7, <2>2, <2>3 DEF SweepRestore
<1>8. CASE UNCHANGED <<reads, dbReads, op, sweep, expired>>
  BY <1>8 DEF FreshInv, RecordInv, SweepFindsIdle, ExpiredGone, Dropping, At, Path
<1>9. CASE \/ \E p \in Paths, base \in Contents \cup {None} : ApiBegin(p, base)
           \/ ApiCheck \/ (\E c \in States : ApiWrite(c)) \/ UNCHANGED vars
  BY <1>8, <1>9 DEF ApiBegin, ApiCheck, ApiWrite, vars, records
<1>10. CASE Restart
  <2>1. /\ reads' = dbReads /\ UNCHANGED <<dbReads, expired>> /\ sweep' = None
        /\ \A q \in Owners : op'[q].pc = "idle"
    BY <1>10 DEF Restart, NoCall
  <2>2. QED
    BY <2>1 DEF FreshInv, RecordInv, SweepFindsIdle, ExpiredGone, Dropping, At
<1>11. Contents # {} /\ States # {}
  BY ContentsAssumption DEF States
<1>12. QED
  BY <1>1, <1>2, <1>3, <1>4, <1>5, <1>6, <1>7, <1>9, <1>10, <1>11 DEF Next

-----------------------------------------------------------------------------
\* All of it together.
LEMMA FreshNext == FreshInv /\ [Next]_vars => FreshInv'
<1> SUFFICES ASSUME FreshInv, [Next]_vars PROVE FreshInv'
  OBVIOUS
<1>1. TypeOK'
  BY TypeNext DEF FreshInv
<1>2. QED
  BY <1>1, GuardNext, RecordNext DEF FreshInv, GuardInv, RecordInv

\* The invariant, which the theorems below read off.
LEMMA FreshHolds == Spec => []FreshInv
BY FreshInit, FreshNext, PTL DEF Spec

\* The records, the calls and the sweep keep their shape; in particular what
\* note_authored records is the hash of a file that existed.
THEOREM TypeCorrect == Spec => []TypeOK
<1>1. FreshInv => TypeOK
  BY DEF FreshInv
<1>2. QED
  BY <1>1, FreshHolds, PTL

\* Between the comparison of the bytes, or of the API's base hash, and the
\* mutation nobody else changes the file.
THEOREM ChecksStayTrue == Spec => []CheckedContentStable
<1>1. FreshInv => CheckedContentStable
  BY DEF FreshInv
<1>2. QED
  BY <1>1, FreshHolds, PTL

\* An agent that replaces, edits or deletes a file has a record, a read's or
\* its own creation's, of exactly the bytes it replaces, at the moment it does.
THEOREM MutationsKnowTheirBytes == Spec => []ReplacesKnownBytes
<1>1. FreshInv => ReplacesKnownBytes
  BY DEF FreshInv, KnowsBytes, ReplacesKnownBytes, InGuard, At
<1>2. QED
  BY <1>1, FreshHolds, PTL

\* A hold the sweeper reclaimed leaves no read record behind: not in memory, and
\* not in a place from which a restart or the sweeper's own restore step could
\* bring one back.
THEOREM ExpiryForgets == Spec => []ExpiredMustReread
<1>1. FreshInv => ExpiredMustReread
  BY DEF FreshInv, ExpiredGone, ExpiredMustReread
<1>2. QED
  BY <1>1, FreshHolds, PTL
=============================================================================
