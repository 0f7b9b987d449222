---------------------- MODULE ExternalJournalCapsules ----------------------
(***************************************************************************)
(* Two more proofs about ExternalJournal: the capsule a ticket relies on   *)
(* is kept, and a restart leaves no operation `dispatching`.               *)
(***************************************************************************)
EXTENDS ExternalJournalProofs

\* A capsule is of one operation.
CapsMatch ==
  /\ \A v, w \in Workers :
       (task[v].cap # None /\ task[v].cap = task[w].cap) => task[v].op = task[w].op
  /\ \A w \in Workers, o \in Ops :
       (task[w].cap # None /\ ledger[o] = task[w].cap) => task[w].op = o
RowsApart == \A o, p \in Ops : (ledger[o] # None /\ ledger[o] = ledger[p]) => o = p

\* Who reserved a row and who made a file.
MarksOf(w) ==
  /\ task[w].pc \in {"reread", "slots", "commit", "rollback_file"} => task[w].made
  /\ task[w].made => task[w].pc \in (Early \ {"reserve", "create"}) \cup {"ticket"}
  /\ task[w].pc = "rollback_row" => task[w].mine
  /\ task[w].mine => task[w].pc \in (Early \ {"reserve"}) \cup {"ticket"}

\* The caller that reserved the row finds it there until it rolls it back.
MineApart == \A v, w \in Workers :
               (v # w /\ task[v].mine /\ task[w].mine) => task[v].cap # task[w].cap
MineOf(w) == (task[w].mine /\ task[w].pc # "rollback_file" /\ ~Closed(task[w].op))
             => ledger[task[w].op] = task[w].cap

\* v is about to take the row or the file of capsule c away, or may come to.
Danger(v, c) == /\ task[v].cap = c
                /\ \/ task[v].pc \in {"rollback_row", "rollback_file"}
                   \/ task[v].made /\ task[v].pc \in Early

\* The caller whose capsule the operation was, or is to be, dispatched with keeps
\* its file and its row, and nobody else is about to take them.
Guarded(w) == task[w].pc \in Holding \cup {"ticket"} \/ task[w].made
KeepOf(w) ==
  (Guarded(w) /\ task[w].op \notin stray /\ ~Closed(task[w].op))
  => /\ files[task[w].cap] # None
     /\ task[w].pc # "rollback_file" => ledger[task[w].op] = task[w].cap
     /\ \A v \in Workers \ {w} : ~Danger(v, task[w].cap)

\* Nobody else is dispatching an operation that was prepared with its handoff.
FreshOf(w) ==
  task[w].pc = "materialize" =>
    /\ ledger[task[w].op] = task[w].cap
    /\ \A v \in Workers \ {w} : task[v].op = task[w].op => task[v].pc \notin Early

CapsuleOf(w) == MarksOf(w) /\ MineOf(w) /\ KeepOf(w) /\ FreshOf(w)
CapsuleInv == CapsMatch /\ RowsApart /\ MineApart /\ \A w \in Workers : CapsuleOf(w)

-----------------------------------------------------------------------------
(* What a step of one caller keeps for the others *)

\* A row goes when its operation is closed, or when the caller that reserved it rolls
\* it back; a file when its operation is closed, or when the caller that made it rolls
\* it back.
LosesRow(w, o) ==
  /\ ledger'[o] = None
  /\ Closed(o) \/ (task[w].pc = "rollback_row" /\ task[w].op = o /\ rec[o].state = "prepared")
GainsRow(w, o) ==
  ledger[o] = None /\ ledger'[o] \in Unused /\ task'[w].op = o /\ task'[w].cap = ledger'[o]
LosesFile(w, c) ==
  \/ task[w].pc = "rollback_file" /\ task[w].cap = c
  \/ \E o \in Ops : ledger[o] = c /\ Closed(o)

\* v made the file of capsule c and may still write or remove it.
Wrecks(v, c) == task[v].cap = c /\ task[v].made /\ task[v].pc \in Early

CapsuleStep(w) ==
  /\ OthersKept(w) /\ Running /\ RecStep /\ stray \subseteq stray'
  /\ \A o \in Ops : ledger'[o] = ledger[o] \/ LosesRow(w, o) \/ GainsRow(w, o)
  /\ \A c \in Capsules : files[c] = None \/ files'[c] # None \/ LosesFile(w, c)
  /\ \/ task'[w].cap = None
     \/ task'[w].cap = task[w].cap /\ task'[w].op = task[w].op
     \/ task'[w].cap \in Unused /\ ledger'[task'[w].op] = task'[w].cap /\ task'[w].op \in Ops
     \/ task'[w].cap = ledger[task'[w].op] /\ task'[w].op \in Ops
  /\ \A c \in Capsules : /\ Danger(w, c)' => Danger(w, c) \/ files[c] = None
                         /\ Wrecks(w, c)' => Wrecks(w, c) \/ files[c] = None
  /\ Guarded(w)' =>
       /\ task'[w].op = task[w].op /\ task'[w].cap = task[w].cap /\ task[w].pc # "rollback_file"
       /\ \/ Guarded(w)
          \/ /\ files'[task[w].cap] # None
             /\ task[w].pc = "materialize" \/ (task'[w].made /\ files[task[w].cap] = None)
  /\ task'[w].mine => (task[w].mine /\ task'[w].cap = task[w].cap) \/ task'[w].cap \in Unused
  /\ task'[w].pc \in Early =>
       \/ task[w].pc \in Early /\ task'[w].op = task[w].op
       \/ rec[task'[w].op].state = "prepared"

\* If the call of w itself ends well, everything the invariant says still holds.
LEMMA CapsuleFrame ==
  ASSUME CoreInv, CapsuleInv, NEW w \in Workers, CapsuleStep(w), CapsuleOf(w)'
  PROVE  CapsuleInv'
<1>0. TypeOK /\ \A v \in Workers : TaskWell(v) /\ EffectOf(v) /\ CapsuleOf(v)
  BY DEF CoreInv, CallersWell, CapsuleInv
<1>1. \A o \in Ops : Kept(o)
  BY <1>0, RecStepKeeps DEF CapsuleStep
<1>2. \A v \in Workers : task[v].pc # "idle" => task[v].op \in Ops /\ rec[task[v].op] # None
  BY <1>0 DEF TaskWell, Rec
<1>3. ASSUME NEW v \in Workers, task[v].pc # "idle", Closed(task[v].op)
      PROVE  is_terminal(rec'[task[v].op].state)
  BY <1>1, <1>2, <1>3 DEF Kept, Closed
<1>4. \A v \in Workers \ {w} : task'[v] = task[v]
  BY DEF CapsuleStep, OthersKept
<1>5. \A c \in Unused : /\ c \in Capsules /\ c # None /\ files[c] = None
                        /\ \A o \in Ops : ledger[o] # c
                        /\ \A v \in Workers : task[v].cap # c
  BY OpsAssumption DEF Unused
<1>6. RowsApart'
  <2>1. SUFFICES ASSUME NEW o \in Ops, NEW p \in Ops, ledger'[o] # None, ledger'[o] = ledger'[p], o # p
                 PROVE  FALSE
    BY DEF RowsApart
  <2>2. ledger'[o] = ledger[o] \/ GainsRow(w, o)
    BY <2>1 DEF CapsuleStep, LosesRow
  <2>3. ledger'[p] = ledger[p] \/ GainsRow(w, p)
    BY <2>1 DEF CapsuleStep, LosesRow
  <2> QED
    BY <1>5, <2>1, <2>2, <2>3 DEF CapsuleInv, RowsApart, GainsRow
<1>7. CapsMatch'
  <2>1. ASSUME NEW v \in Workers \ {w}, NEW o \in Ops, task[v].cap # None, ledger'[o] = task[v].cap
        PROVE  task[v].op = o
    <3>1. ledger'[o] = ledger[o]
      BY <1>5, <2>1 DEF CapsuleStep, LosesRow, GainsRow
    <3> QED
      BY <2>1, <3>1 DEF CapsuleInv, CapsMatch
  <2>2. ASSUME NEW v \in Workers \ {w}, task[v].cap # None, task'[w].cap = task[v].cap
        PROVE  task'[w].op = task[v].op
    <3>1. CASE task'[w].cap = task[w].cap /\ task'[w].op = task[w].op
      BY <2>2, <3>1 DEF CapsuleInv, CapsMatch
    <3>2. CASE task'[w].cap \in Unused
      BY <1>5, <2>2, <3>2
    <3>3. CASE task'[w].cap = ledger[task'[w].op] /\ task'[w].op \in Ops
      BY <2>2, <3>3 DEF CapsuleInv, CapsMatch
    <3> QED
      BY <2>2, <3>1, <3>2, <3>3 DEF CapsuleStep
  <2>3. ASSUME NEW o \in Ops, task'[w].cap # None, ledger'[o] = task'[w].cap
        PROVE  task'[w].op = o
    <3>1. CASE GainsRow(w, o)
      BY <3>1 DEF GainsRow
    <3>2. CASE ledger'[o] = ledger[o]
      <4>1. CASE task'[w].cap = task[w].cap /\ task'[w].op = task[w].op
        BY <2>3, <3>2, <4>1 DEF CapsuleInv, CapsMatch
      <4>2. CASE task'[w].cap \in Unused
        BY <1>5, <2>3, <3>2, <4>2
      <4>3. CASE task'[w].cap = ledger[task'[w].op] /\ task'[w].op \in Ops
        BY <2>3, <3>2, <4>3 DEF CapsuleInv, RowsApart
      <4> QED
        BY <2>3, <4>1, <4>2, <4>3 DEF CapsuleStep
    <3> QED
      BY <2>3, <3>1, <3>2 DEF CapsuleStep, LosesRow
  <2> QED
    BY <1>4, <2>1, <2>2, <2>3 DEF CapsMatch, CapsuleInv
<1>8. MineApart'
  <2>1. ASSUME NEW v \in Workers \ {w}, task[v].mine, task'[w].mine
        PROVE  task[v].cap # task'[w].cap
    BY <1>5, <2>1 DEF CapsuleStep, CapsuleInv, MineApart
  <2> QED
    BY <1>4, <2>1 DEF MineApart, CapsuleInv
<1>9. ASSUME NEW v \in Workers \ {w}
      PROVE  CapsuleOf(v)'
  <2>0. task'[v] = task[v] /\ CapsuleOf(v)
    BY <1>0, <1>4
  <2>1. MarksOf(v)'
    BY <2>0 DEF CapsuleOf, MarksOf
  <2>2. MineOf(v)'
    <3>1. SUFFICES ASSUME task[v].mine, task[v].pc # "rollback_file",
                          ~is_terminal(rec'[task[v].op].state)
                   PROVE  ledger'[task[v].op] = task[v].cap
      BY <2>0 DEF MineOf, Closed
    <3>2. task[v].pc # "idle" /\ task[v].cap \in Capsules
      BY <1>0, <2>0, <3>1 DEF CapsuleOf, MarksOf, TaskWell, Early, Committed
    <3>3. ~Closed(task[v].op) /\ task[v].op \in Ops
      BY <1>2, <1>3, <3>1, <3>2
    <3>4. ledger[task[v].op] = task[v].cap /\ task[v].cap # None
      BY <2>0, <3>1, <3>2, <3>3, OpsAssumption DEF CapsuleOf, MineOf
    <3>5. ~(task[w].pc = "rollback_row" /\ task[w].op = task[v].op /\ rec[task[v].op].state = "prepared")
      <4>1. SUFFICES ASSUME task[w].pc = "rollback_row", task[w].op = task[v].op
                     PROVE  FALSE
        OBVIOUS
      <4>2. task[w].mine /\ ledger[task[w].op] = task[w].cap
        BY <1>0, <3>3, <4>1 DEF CapsuleOf, MarksOf, MineOf
      <4> QED
        BY <3>1, <3>4, <4>1, <4>2 DEF CapsuleInv, MineApart
    <3> QED
      BY <3>3, <3>4, <3>5 DEF CapsuleStep, LosesRow, GainsRow
  <2>3. KeepOf(v)'
    <3>1. SUFFICES ASSUME Guarded(v), task[v].op \notin stray', ~is_terminal(rec'[task[v].op].state)
                   PROVE  /\ files'[task[v].cap] # None
                          /\ task[v].pc # "rollback_file" => ledger'[task[v].op] = task[v].cap
                          /\ \A u \in Workers \ {v} : ~Danger(u, task[v].cap)'
      BY <2>0 DEF KeepOf, Closed, Guarded, Danger
    <3>2. task[v].pc # "idle" /\ task[v].cap \in Capsules /\ task[v].cap # None
      BY <1>0, <2>0, <3>1, OpsAssumption DEF CapsuleOf, MarksOf, TaskWell, Guarded, Early, Committed, Holding
    <3>3. ~Closed(task[v].op) /\ task[v].op \in Ops /\ task[v].op \notin stray
      BY <1>2, <1>3, <3>1, <3>2 DEF CapsuleStep
    <3>4. /\ files[task[v].cap] # None
          /\ task[v].pc # "rollback_file" => ledger[task[v].op] = task[v].cap
          /\ \A u \in Workers \ {v} : ~Danger(u, task[v].cap)
      BY <2>0, <3>1, <3>3 DEF CapsuleOf, KeepOf
    <3>5. files'[task[v].cap] # None
      <4>1. ~(task[w].pc = "rollback_file" /\ task[w].cap = task[v].cap)
        BY <3>4 DEF Danger
      <4>2. ~\E o \in Ops : ledger[o] = task[v].cap /\ Closed(o)
        BY <3>2, <3>3 DEF CapsuleInv, CapsMatch
      <4> QED
        BY <3>2, <3>4, <4>1, <4>2 DEF CapsuleStep, LosesFile
    <3>6. ASSUME task[v].pc # "rollback_file"
          PROVE  ledger'[task[v].op] = task[v].cap
      <4>1. ~(task[w].pc = "rollback_row" /\ task[w].op = task[v].op)
        <5>1. SUFFICES ASSUME task[w].pc = "rollback_row", task[w].op = task[v].op
                       PROVE  FALSE
          OBVIOUS
        <5>2. ledger[task[w].op] = task[w].cap
          BY <1>0, <3>3, <5>1 DEF CapsuleOf, MarksOf, MineOf
        <5> QED
          BY <3>4, <3>6, <5>1, <5>2 DEF Danger
      <4> QED
        BY <3>2, <3>3, <3>4, <3>6, <4>1 DEF CapsuleStep, LosesRow, GainsRow
    <3>7. ASSUME NEW u \in Workers \ {v}
          PROVE  ~Danger(u, task[v].cap)'
      <4>1. CASE u = w
        <5>1. task'[v].cap = task[v].cap /\ task[v].cap \in Capsules /\ w \in Workers \ {v}
          BY <2>0, <3>2, <4>1
        <5>2. ~Danger(w, task[v].cap) /\ files[task[v].cap] # None
          BY <3>4, <5>1
        <5> QED
          BY <4>1, <5>1, <5>2 DEF CapsuleStep, Danger
      <4>2. CASE u # w
        <5>1. task'[u] = task[u]
          BY <1>4, <4>2
        <5> QED
          BY <2>0, <3>4, <5>1 DEF Danger
      <4> QED
        BY <4>1, <4>2
    <3> QED
      BY <3>5, <3>6, <3>7
  <2>4. FreshOf(v)'
    <3>1. SUFFICES ASSUME task[v].pc = "materialize"
                   PROVE  /\ ledger'[task[v].op] = task[v].cap
                          /\ \A u \in Workers \ {v} : task'[u].op = task[v].op => task'[u].pc \notin Early
      BY <2>0 DEF FreshOf
    <3>2. /\ task[v].op \in Ops /\ task[v].cap \in Capsules /\ task[v].cap # None
          /\ rec[task[v].op].state \in {"dispatching", "cancellation_requested"}
      BY <1>0, <3>1, OpsAssumption DEF TaskWell, EffectOf, Rec, Committed
    <3>3. ~Closed(task[v].op) /\ rec[task[v].op].state # "prepared"
      BY <3>2 DEF Closed, is_terminal, TerminalStates
    <3>4. /\ ledger[task[v].op] = task[v].cap
          /\ \A u \in Workers \ {v} : task[u].op = task[v].op => task[u].pc \notin Early
      BY <2>0, <3>1 DEF CapsuleOf, FreshOf
    <3>5. ledger'[task[v].op] = task[v].cap
      BY <3>2, <3>3, <3>4 DEF CapsuleStep, LosesRow, GainsRow
    <3>6. task'[w].op = task[v].op => task'[w].pc \notin Early
      BY <3>3, <3>4 DEF CapsuleStep
    <3> QED
      BY <1>4, <3>4, <3>5, <3>6
  <2> QED
    BY <2>1, <2>2, <2>3, <2>4 DEF CapsuleOf
<1> QED
  BY <1>6, <1>7, <1>8, <1>9 DEF CapsuleInv

\* A call that ends, with the rows and files it may take.
EndsCall(w) ==
  /\ task[w].pc # "idle" /\ task'[w] = Idle /\ OthersKept(w) /\ RecStep /\ stray \subseteq stray'
  /\ \A o \in Ops : ledger'[o] = ledger[o] \/ LosesRow(w, o)
  /\ \A c \in Capsules : files[c] = None \/ files'[c] # None \/ LosesFile(w, c)

\* It leaves nothing of its own to keep.
LEMMA EndsKeeps ==
  ASSUME CoreInv, CapsuleInv, NEW w \in Workers, EndsCall(w)
  PROVE  CapsuleInv' /\ CapsuleStep(w)
<1>1. Running
  BY DEF EndsCall, CoreInv, CallersWell, TaskWell
<1>2. /\ task'[w].pc = "idle" /\ task'[w].cap = None
      /\ task'[w].mine = FALSE /\ task'[w].made = FALSE
  BY IdleFacts DEF EndsCall
<1>3. ~Guarded(w)' /\ \A c \in Capsules : ~Danger(w, c)' /\ ~Wrecks(w, c)'
  BY <1>2 DEF Danger, Wrecks, Guarded, Holding
<1>4. CapsuleStep(w)
  BY <1>1, <1>2, <1>3 DEF CapsuleStep, EndsCall, Early
<1>5. CapsuleOf(w)'
  BY <1>2 DEF CapsuleOf, MarksOf, MineOf, KeepOf, FreshOf, Guarded, Holding
<1> QED
  BY <1>4, <1>5, CapsuleFrame

\* A call that goes on with its capsule. The row it rolls back may go, and the file of a
\* closed operation.
GoesOnWith(w) ==
  /\ task[w].pc \notin {"idle", "rollback_file"} /\ task'[w].pc # "materialize"
  /\ task'[w].op = task[w].op /\ task'[w].cap = task[w].cap
  /\ task'[w].mine => task[w].mine
  /\ OthersKept(w) /\ RecStep /\ stray \subseteq stray'
  /\ \/ ledger' = ledger
     \/ task'[w].pc = "rollback_file" /\ \A o \in Ops : ledger'[o] = ledger[o] \/ LosesRow(w, o)
  /\ \A c \in Capsules : \/ files[c] = None \/ files'[c] # None
                         \/ \E o \in Ops : ledger[o] = c /\ Closed(o)
  /\ Guarded(w)' => Guarded(w)
  /\ MarksOf(w)'
  /\ Danger(w, task[w].cap)' => Danger(w, task[w].cap) \/ files[task[w].cap] = None
  /\ task'[w].pc \in Early => task[w].pc \in Early

\* What was kept for it is still kept.
LEMMA GoesOnKeeps ==
  ASSUME CoreInv, CapsuleInv, NEW w \in Workers, GoesOnWith(w)
  PROVE  CapsuleInv' /\ CapsuleStep(w)
<1>0. TypeOK /\ TaskWell(w) /\ CapsuleOf(w)
  BY DEF CoreInv, CallersWell, CapsuleInv
<1>1. Running /\ task[w].op \in Ops /\ rec[task[w].op] # None
  BY <1>0 DEF GoesOnWith, TaskWell, Rec
<1>2. \A c \in Capsules : /\ Danger(w, c)' => Danger(w, c) \/ files[c] = None
                          /\ Wrecks(w, c)' => Wrecks(w, c) \/ files[c] = None
  BY DEF GoesOnWith, Danger, Wrecks, Guarded, Early, Holding
<1>3. CapsuleStep(w)
  BY <1>1, <1>2 DEF CapsuleStep, GoesOnWith, LosesFile
<1>4. ~is_terminal(rec'[task[w].op].state) => ~Closed(task[w].op)
  BY <1>0, <1>1, RecStepKeeps DEF Kept, Closed, GoesOnWith
<1>5. MineOf(w)'
  BY <1>0, <1>4 DEF GoesOnWith, CapsuleOf, MineOf, Closed
<1>6. KeepOf(w)'
  <2>1. SUFFICES ASSUME Guarded(w)', task[w].op \notin stray', ~is_terminal(rec'[task[w].op].state)
                 PROVE  /\ files'[task[w].cap] # None
                        /\ task'[w].pc # "rollback_file" => ledger'[task[w].op] = task[w].cap
                        /\ \A v \in Workers \ {w} : ~Danger(v, task[w].cap)
    BY DEF KeepOf, Closed, Danger, GoesOnWith, OthersKept
  <2>2. Guarded(w) /\ task[w].op \notin stray /\ ~Closed(task[w].op)
    BY <1>4, <2>1 DEF GoesOnWith
  <2>3. /\ files[task[w].cap] # None
        /\ ledger[task[w].op] = task[w].cap
        /\ \A v \in Workers \ {w} : ~Danger(v, task[w].cap)
    BY <1>0, <2>2 DEF CapsuleOf, KeepOf, GoesOnWith
  <2>4. task[w].cap \in Capsules /\ task[w].cap # None
    BY <1>0, <2>2, OpsAssumption DEF CapsuleOf, MarksOf, TaskWell, Guarded, Early, Committed, Holding
  <2>5. ~\E o \in Ops : ledger[o] = task[w].cap /\ Closed(o)
    BY <2>2, <2>4 DEF CapsuleInv, CapsMatch
  <2> QED
    BY <2>3, <2>4, <2>5 DEF GoesOnWith
<1>7. CapsuleOf(w)'
  BY <1>5, <1>6 DEF CapsuleOf, FreshOf, GoesOnWith
<1> QED
  BY <1>3, <1>7, CapsuleFrame

\* A step of no caller, while the calls, the rows and the files stay.
LEMMA BystanderKeeps ==
  ASSUME CoreInv, CapsuleInv, UNCHANGED <<task, ledger, files>>, RecStep, stray \subseteq stray'
  PROVE  CapsuleInv'
<1>1. CapsMatch' /\ RowsApart' /\ MineApart'
  BY DEF CapsuleInv, CapsMatch, RowsApart, MineApart
<1>2. ASSUME NEW w \in Workers
      PROVE  CapsuleOf(w)'
  <2>0. TypeOK /\ TaskWell(w) /\ CapsuleOf(w)
    BY DEF CoreInv, CallersWell, CapsuleInv
  <2>1. task[w].pc # "idle" /\ ~is_terminal(rec'[task[w].op].state) => ~Closed(task[w].op)
    BY <2>0, RecStepKeeps DEF Kept, Closed, TaskWell, Rec
  <2>2. task[w].mine \/ Guarded(w) => task[w].pc # "idle"
    BY <2>0 DEF CapsuleOf, MarksOf, Guarded, Early, Holding
  <2>3. MarksOf(w)' /\ MineOf(w)' /\ FreshOf(w)'
    BY <2>0, <2>1, <2>2 DEF CapsuleOf, MarksOf, MineOf, FreshOf, Closed
  <2>4. KeepOf(w)'
    BY <2>0, <2>1, <2>2 DEF CapsuleOf, KeepOf, Guarded, Danger, Closed
  <2> QED
    BY <2>3, <2>4 DEF CapsuleOf
<1> QED
  BY <1>1, <1>2 DEF CapsuleInv

\* Without callers, rows only go.
LEMMA IdleKeeps ==
  ASSUME CapsuleInv, \A w \in Workers : task'[w] = Idle,
         \A o \in Ops : ledger'[o] \in {ledger[o], None}
  PROVE  CapsuleInv'
<1>1. \A w \in Workers : /\ task'[w].pc = "idle" /\ task'[w].cap = None
                         /\ task'[w].mine = FALSE /\ task'[w].made = FALSE
  BY IdleFacts
<1>2. CapsMatch' /\ RowsApart' /\ MineApart'
  BY <1>1 DEF CapsuleInv, CapsMatch, RowsApart, MineApart
<1>3. \A w \in Workers : CapsuleOf(w)'
  BY <1>1 DEF CapsuleOf, MarksOf, MineOf, KeepOf, FreshOf, Guarded, Holding
<1> QED
  BY <1>2, <1>3 DEF CapsuleInv

-----------------------------------------------------------------------------
(* Every step of a caller *)

\* A call that begins without a capsule.
LEMMA BeginKeeps ==
  ASSUME CoreInv, CapsuleInv, NEW w \in Workers, OthersKept(w), Running, RecStep,
         stray \subseteq stray', ledger' = ledger, files' = files,
         task'[w].pc \in {"idle", "read", "confirm"}, task'[w].cap = None,
         task'[w].mine = FALSE, task'[w].made = FALSE
  PROVE  CapsuleInv' /\ CapsuleStep(w)
<1>1. ~Guarded(w)' /\ \A c \in Capsules : ~Danger(w, c)' /\ ~Wrecks(w, c)'
  BY DEF Danger, Wrecks, Guarded, Holding
<1>2. CapsuleStep(w)
  BY <1>1 DEF CapsuleStep, Early
<1>3. CapsuleOf(w)'
  BY DEF CapsuleOf, MarksOf, MineOf, KeepOf, FreshOf, Guarded, Holding
<1> QED
  BY <1>2, <1>3, CapsuleFrame

\* An idle caller begins a dispatch, expires an operation or cancels one.
LEMMA BeginsKeep ==
  ASSUME CoreInv, CapsuleInv, NEW w \in Workers, NEW o \in Ops, RecStep,
         \/ BeginDispatch(w, o) \/ Expire(w, o)
         \/ Cancel(w, o) /\ At(w, "idle")
  PROVE  CapsuleInv' /\ CapsuleStep(w)
<1>0. TypeOK /\ task[w] = Idle /\ Running
  BY DEF CoreInv, CallersWell, TaskWell, BeginDispatch, Expire, Cancel, At
<1>1. /\ OthersKept(w) /\ stray' = stray /\ ledger' = ledger /\ files' = files
      /\ task'[w].pc \in {"idle", "read", "confirm"} /\ task'[w].cap = None
      /\ task'[w].mine = FALSE /\ task'[w].made = FALSE
  <2>1. CASE BeginDispatch(w, o)
    <3>1. task'[w] = [Idle EXCEPT !.pc = "read", !.op = o] /\ OthersKept(w)
      BY <1>0, <2>1 DEF BeginDispatch, TypeOK, OthersKept
    <3>2. stray' = stray /\ ledger' = ledger /\ files' = files
      BY <2>1 DEF BeginDispatch, durable, history
    <3> QED
      BY <3>1, <3>2, IdleFacts DEF Tasks
  <2>2. CASE Expire(w, o)
    <3>1. task'[w] = [Idle EXCEPT !.pc = "confirm", !.op = o] /\ OthersKept(w)
      BY <1>0, <2>2 DEF Expire, TypeOK, OthersKept
    <3>2. stray' = stray /\ ledger' = ledger /\ files' = files
      BY <2>2 DEF Expire, history
    <3> QED
      BY <3>1, <3>2, IdleFacts DEF Tasks
  <2>3. CASE Cancel(w, o) /\ At(w, "idle")
    <3>1. /\ task'[w] = task[w] \/ task'[w] = [task[w] EXCEPT !.pc = "confirm", !.op = o]
          /\ \A v \in Workers \ {w} : task'[v] = task[v]
      BY <1>0, <2>3 DEF Cancel, TypeOK
    <3>2. stray' = stray /\ ledger' = ledger /\ files' = files
      BY <2>3 DEF Cancel
    <3>3. ticket' = ticket
      BY <2>3 DEF Cancel, At
    <3> QED
      BY <1>0, <3>1, <3>2, <3>3, IdleFacts DEF Tasks, OthersKept
  <2> QED
    BY <2>1, <2>2, <2>3
<1> QED
  BY <1>0, <1>1, BeginKeeps

\* The dispatch reads its record.
LEMMA ReadKeeps ==
  ASSUME CoreInv, CapsuleInv, NEW w \in Workers, RecStep, ReadPrepared(w)
  PROVE  CapsuleInv' /\ CapsuleStep(w)
<1>0. TypeOK /\ TaskWell(w) /\ CapsuleOf(w) /\ task[w].pc = "read" /\ Running
  BY DEF CoreInv, CallersWell, CapsuleInv, ReadPrepared, At, TaskWell
<1>1. UNCHANGED <<ledger, files, stray>>
  BY DEF ReadPrepared, durable, history
<1>2. CASE End(w)
  BY <1>0, <1>1, <1>2, EndFacts, EndsKeeps DEF EndsCall
<1>3. CASE /\ Rec(w).state = "prepared" /\ ticket' = ticket
           /\ task' = [task EXCEPT ![w] = [@ EXCEPT !.pc = "reserve", !.version = Rec(w).version]]
  <2>1. /\ task'[w].pc = "reserve" /\ task'[w].op = task[w].op /\ task'[w].cap = task[w].cap
        /\ task'[w].mine = task[w].mine /\ task'[w].made = task[w].made /\ OthersKept(w)
    BY <1>0, <1>3 DEF TypeOK, Tasks, OthersKept
  <2>2. ~task[w].mine /\ ~task[w].made
    BY <1>0 DEF CapsuleOf, MarksOf, Early
  <2>3. ~Guarded(w)' /\ \A c \in Capsules : ~Danger(w, c)' /\ ~Wrecks(w, c)'
    BY <2>1, <2>2 DEF Danger, Wrecks, Guarded, Holding
  <2>4. CapsuleStep(w)
    BY <1>0, <1>1, <1>3, <2>1, <2>2, <2>3 DEF CapsuleStep, Rec
  <2>5. CapsuleOf(w)'
    BY <2>1, <2>2 DEF CapsuleOf, MarksOf, MineOf, KeepOf, FreshOf, Guarded, Holding
  <2> QED
    BY <2>4, <2>5, CapsuleFrame
<1> QED
  BY <1>2, <1>3 DEF ReadPrepared

\* The reservation: a new capsule for the operation, or the one it has.
LEMMA ReserveKeeps ==
  ASSUME CoreInv, CapsuleInv, NEW w \in Workers, RecStep, Reserve(w)
  PROVE  CapsuleInv' /\ CapsuleStep(w)
<1>0. /\ TypeOK /\ TaskWell(w) /\ CapsuleOf(w) /\ task[w].pc = "reserve" /\ Running
      /\ task[w].op \in Ops
  BY DEF CoreInv, CallersWell, CapsuleInv, Reserve, At, TaskWell
<1>1. UNCHANGED <<files, stray>>
  BY DEF Reserve, history
<1>2. ~task[w].mine /\ ~task[w].made
  BY <1>0 DEF CapsuleOf, MarksOf, Early
<1>3. CASE End(w) /\ ledger' = ledger
  BY <1>0, <1>1, <1>3, EndFacts, EndsKeeps DEF EndsCall
<1>4. ASSUME NEW c \in Unused, ledger[task[w].op] = None, ticket' = ticket,
             ledger' = [ledger EXCEPT ![task[w].op] = c],
             task' = [task EXCEPT ![w] = [@ EXCEPT !.pc = "create", !.cap = c, !.mine = TRUE]]
      PROVE  CapsuleInv' /\ CapsuleStep(w)
  <2>1. /\ task'[w].pc = "create" /\ task'[w].op = task[w].op /\ task'[w].cap = c
        /\ task'[w].made = task[w].made /\ OthersKept(w)
    BY <1>0, <1>4 DEF TypeOK, Tasks, OthersKept
  <2>2. ledger'[task[w].op] = c /\ \A o \in Ops : o # task[w].op => ledger'[o] = ledger[o]
    BY <1>0, <1>4 DEF TypeOK
  <2>3. ~Guarded(w)' /\ \A d \in Capsules : ~Danger(w, d)' /\ ~Wrecks(w, d)'
    BY <1>2, <2>1 DEF Danger, Wrecks, Guarded, Holding
  <2>4. CapsuleStep(w)
    BY <1>0, <1>1, <1>2, <1>4, <2>1, <2>2, <2>3 DEF CapsuleStep, GainsRow, Early
  <2>5. CapsuleOf(w)'
    BY <1>2, <2>1, <2>2 DEF CapsuleOf, MarksOf, MineOf, KeepOf, FreshOf, Guarded, Holding, Early
  <2> QED
    BY <2>4, <2>5, CapsuleFrame
<1>5. CASE /\ ledger[task[w].op] # None /\ ledger' = ledger /\ ticket' = ticket
           /\ task' = [task EXCEPT ![w] = [@ EXCEPT !.pc = "create", !.cap = ledger[task[w].op]]]
  <2>1. /\ task'[w].pc = "create" /\ task'[w].op = task[w].op /\ task'[w].cap = ledger[task[w].op]
        /\ task'[w].made = task[w].made /\ task'[w].mine = task[w].mine /\ OthersKept(w)
    BY <1>0, <1>5 DEF TypeOK, Tasks, OthersKept
  <2>3. ~Guarded(w)' /\ \A d \in Capsules : ~Danger(w, d)' /\ ~Wrecks(w, d)'
    BY <1>2, <2>1 DEF Danger, Wrecks, Guarded, Holding
  <2>4. CapsuleStep(w)
    BY <1>0, <1>1, <1>2, <1>5, <2>1, <2>3 DEF CapsuleStep, Early
  <2>5. CapsuleOf(w)'
    BY <1>2, <2>1 DEF CapsuleOf, MarksOf, MineOf, KeepOf, FreshOf, Guarded, Holding, Early
  <2> QED
    BY <2>4, <2>5, CapsuleFrame
<1> QED
  BY <1>3, <1>4, <1>5 DEF Reserve

\* The exclusive create: whoever makes the file is the only one that may take it away,
\* unless the row is already being rolled back (stray).
LEMMA CreateKeeps ==
  ASSUME CoreInv, CapsuleInv, NEW w \in Workers, RecStep, CreateCapsule(w)
  PROVE  CapsuleInv' /\ CapsuleStep(w)
<1> DEFINE c == task[w].cap
           o == task[w].op
           unbacked == \/ ledger[o] # c
                       \/ \E v \in Workers \ {w} : At(v, "rollback_row") /\ task[v].cap = c
<1>0. /\ TypeOK /\ TaskWell(w) /\ CapsuleOf(w) /\ task[w].pc = "create" /\ Running
      /\ o \in Ops /\ c \in Capsules /\ c # None /\ rec[o] # None
  BY OpsAssumption DEF CoreInv, CallersWell, CapsuleInv, CreateCapsule, At, TaskWell, Early, Rec
<1>1. UNCHANGED <<ledger, rec, ticket>>
  BY DEF CreateCapsule
<1>2. ~task[w].made
  BY <1>0 DEF CapsuleOf, MarksOf
<1>3. CASE Goto(w, "rollback") /\ files' = files /\ stray' = stray
  <2>1. /\ task'[w].pc = "rollback" /\ task'[w].op = o /\ task'[w].cap = c
        /\ task'[w].mine = task[w].mine /\ task'[w].made = task[w].made
        /\ \A v \in Workers \ {w} : task'[v] = task[v]
    BY <1>0, <1>3, GotoFacts DEF PCs
  <2>2. GoesOnWith(w)
    BY <1>0, <1>1, <1>2, <1>3, <2>1 DEF GoesOnWith, OthersKept, Guarded, MarksOf, Danger, Early, Holding
  <2> QED
    BY <2>2, GoesOnKeeps
<1>4. CASE /\ files[c] = None
           /\ files' = [files EXCEPT ![c] = Sentinels(o)]
           /\ task' = [task EXCEPT ![w] = [@ EXCEPT !.pc = "reread", !.made = TRUE]]
           /\ stray' = IF unbacked THEN stray \cup {o} ELSE stray
  <2>1. /\ task'[w].pc = "reread" /\ task'[w].op = o /\ task'[w].cap = c
        /\ task'[w].mine = task[w].mine /\ OthersKept(w)
    BY <1>0, <1>1, <1>4 DEF TypeOK, Tasks, OthersKept
  <2>2. task'[w].made
    BY <1>0, <1>4 DEF TypeOK, Tasks
  <2>3. Sentinels(o) \in Contents
    BY <1>0 DEF Sentinels, Contents
  <2>4. files'[c] # None /\ \A d \in Capsules : files[d] = None \/ files'[d] # None
    BY <1>0, <1>4, <2>3, NoneAssumption DEF TypeOK
  <2>5. \A d \in Capsules : /\ Danger(w, d)' => Danger(w, d) \/ files[d] = None
                            /\ Wrecks(w, d)' => Wrecks(w, d) \/ files[d] = None
    BY <1>4, <2>1 DEF Danger, Wrecks
  <2>6. CapsuleStep(w)
    BY <1>0, <1>1, <1>4, <2>1, <2>2, <2>4, <2>5 DEF CapsuleStep, Early
  <2>7. MarksOf(w)' /\ MineOf(w)' /\ FreshOf(w)'
    BY <1>0, <1>1, <2>1, <2>2 DEF CapsuleOf, MarksOf, MineOf, FreshOf, Closed, Early
  <2>8. KeepOf(w)'
    <3>1. SUFFICES ASSUME o \notin stray', ~Closed(o)
                   PROVE  ledger[o] = c /\ \A v \in Workers \ {w} : ~Danger(v, c)
      BY <1>1, <2>1, <2>4 DEF KeepOf, Closed, Danger, OthersKept
    <3>2. ~unbacked /\ o \notin stray
      BY <1>4, <3>1
    <3>3. ASSUME NEW v \in Workers \ {w}, Danger(v, c)
          PROVE  FALSE
      <4>1. task[v].cap = c /\ task[v].pc # "rollback_row"
        BY <3>2, <3>3 DEF Danger, At
      <4>2. CapsuleOf(v)
        BY DEF CapsuleInv
      <4>3. task[v].made
        BY <3>3, <4>1, <4>2 DEF Danger, CapsuleOf, MarksOf
      <4>4. task[v].op = o
        BY <1>0, <4>1 DEF CapsuleInv, CapsMatch
      <4> QED
        BY <1>4, <3>1, <3>2, <4>1, <4>2, <4>3, <4>4 DEF CapsuleOf, KeepOf, Guarded
    <3> QED
      BY <3>2, <3>3
  <2> QED
    BY <2>6, <2>7, <2>8, CapsuleFrame DEF CapsuleOf
<1> QED
  BY <1>3, <1>4 DEF CreateCapsule

\* The call goes on at another step with everything it has.
LEMMA GoesToKeeps ==
  ASSUME CoreInv, CapsuleInv, NEW w \in Workers, RecStep, stray' = stray, ledger' = ledger,
         ticket' = ticket, FilesStay, NEW pc \in PCs, Goto(w, pc),
         \/ task[w].pc \in {"reread", "slots", "commit"} /\ pc \in {"slots", "commit", "ticket", "rollback"}
         \/ /\ task[w].pc = "rollback" /\ pc \in {"rollback_row", "rollback_file"}
            /\ pc = "rollback_row" => task[w].mine
            /\ pc = "rollback_file" => task[w].made
            /\ task[w].made \/ files[task[w].cap] = None
  PROVE  CapsuleInv' /\ CapsuleStep(w)
<1>0. TypeOK /\ CapsuleOf(w)
  BY DEF CoreInv, CapsuleInv
<1>1. /\ task'[w].pc = pc /\ task'[w].op = task[w].op /\ task'[w].cap = task[w].cap
      /\ task'[w].mine = task[w].mine /\ task'[w].made = task[w].made /\ OthersKept(w)
  BY <1>0, GotoFacts DEF OthersKept
<1>2. task[w].pc # "rollback" => task[w].made
  BY <1>0 DEF CapsuleOf, MarksOf
<1>3. Guarded(w)' => Guarded(w)
  BY <1>1, <1>2 DEF Guarded, Holding
<1>4. MarksOf(w)'
  BY <1>0, <1>1, <1>2 DEF CapsuleOf, MarksOf, Early
<1>5. Danger(w, task[w].cap)' => Danger(w, task[w].cap) \/ files[task[w].cap] = None
  BY <1>1, <1>2 DEF Danger, Early
<1>6. GoesOnWith(w)
  BY <1>1, <1>3, <1>4, <1>5 DEF GoesOnWith, FilesStay, Early
<1> QED
  BY <1>6, GoesOnKeeps

\* The record is read again.
LEMMA RereadKeeps ==
  ASSUME CoreInv, CapsuleInv, NEW w \in Workers, RecStep, Reread(w)
  PROVE  CapsuleInv' /\ CapsuleStep(w)
<1>0. TypeOK /\ task[w].pc = "reread"
  BY DEF CoreInv, Reread, At
<1>1. UNCHANGED <<ledger, files, stray>> /\ FilesStay
  BY DEF Reread, durable, history, FilesStay
<1>2. CASE End(w)
  BY <1>0, <1>1, <1>2, EndFacts, EndsKeeps DEF EndsCall
<1>3. ASSUME NEW pc \in {"slots", "rollback"}, Goto(w, pc), ticket' = ticket
      PROVE  CapsuleInv' /\ CapsuleStep(w)
  BY <1>0, <1>1, <1>3, GoesToKeeps DEF PCs
<1> QED
  BY <1>2, <1>3 DEF Reread

\* The slots are written.
LEMMA WriteSlotsKeeps ==
  ASSUME CoreInv, CapsuleInv, NEW w \in Workers, RecStep, WriteSlots(w)
  PROVE  CapsuleInv' /\ CapsuleStep(w)
<1>1. task[w].pc = "slots" /\ UNCHANGED <<ledger, ticket, stray>> /\ FilesStay
  BY WriteSlotsStep DEF WriteSlots, At, history
<1>2. PICK pc \in {"commit", "rollback"} : Goto(w, pc)
  BY DEF WriteSlots
<1> QED
  BY <1>1, <1>2, GoesToKeeps DEF PCs

\* The compare-and-set to `dispatching`.
LEMMA CommitKeeps ==
  ASSUME CoreInv, CapsuleInv, NEW w \in Workers, RecStep, CommitDispatch(w)
  PROVE  CapsuleInv' /\ CapsuleStep(w)
<1>1. task[w].pc = "commit" /\ UNCHANGED <<ledger, files, ticket, stray>> /\ FilesStay
  BY DEF CommitDispatch, At, history, FilesStay
<1>2. PICK pc \in {"ticket", "rollback"} : Goto(w, pc)
  BY DEF CommitDispatch
<1> QED
  BY <1>1, <1>2, GoesToKeeps DEF PCs

\* roll_back_undispatched: only the caller that reserved the row, or made the file, and
\* nobody else made the file.
LEMMA RollbackKeeps ==
  ASSUME CoreInv, CapsuleInv, NEW w \in Workers, RecStep, Rollback(w)
  PROVE  CapsuleInv' /\ CapsuleStep(w)
<1>0. TypeOK /\ task[w].pc = "rollback" /\ quarantine = {}
  BY DEF CoreInv, Rollback, At, CallersWell, TaskWell, BootWell
<1>1. UNCHANGED <<ledger, files, stray>> /\ FilesStay
  BY DEF Rollback, durable, history, FilesStay
<1>2. CASE End(w)
  BY <1>0, <1>1, <1>2, EndFacts, EndsKeeps DEF EndsCall
<1>3. CASE /\ ~file_of_another(w) /\ (task[w].mine \/ task[w].made) /\ ticket' = ticket
           /\ Goto(w, IF task[w].mine THEN "rollback_row" ELSE "rollback_file")
  <2>1. task[w].made \/ files[task[w].cap] = None
    BY <1>0, <1>3 DEF file_of_another, Present
  <2>2. CASE task[w].mine
    BY <1>0, <1>1, <1>3, <2>1, <2>2, GoesToKeeps DEF PCs
  <2>3. CASE ~task[w].mine
    BY <1>0, <1>1, <1>3, <2>1, <2>3, GoesToKeeps DEF PCs
  <2> QED
    BY <2>2, <2>3
<1> QED
  BY <1>2, <1>3 DEF Rollback

\* The row goes while the record is `prepared`, and then the file.
LEMMA RollbackRowKeeps ==
  ASSUME CoreInv, CapsuleInv, NEW w \in Workers, RecStep, RollbackRow(w)
  PROVE  CapsuleInv' /\ CapsuleStep(w)
<1>0. TypeOK /\ CapsuleOf(w) /\ task[w].pc = "rollback_row" /\ task[w].op \in Ops
  BY DEF CoreInv, CapsuleInv, RollbackRow, At, CallersWell, TaskWell
<1>1. UNCHANGED <<files, stray>>
  BY DEF RollbackRow, history
<1>2. \A o \in Ops : ledger'[o] = ledger[o] \/ LosesRow(w, o)
  BY <1>0 DEF RollbackRow, LosesRow, TypeOK, Rec
<1>3. CASE End(w)
  BY <1>0, <1>1, <1>2, <1>3, EndFacts, EndsKeeps DEF EndsCall
<1>4. CASE task[w].made /\ Goto(w, "rollback_file") /\ ticket' = ticket
  <2>1. /\ task'[w].pc = "rollback_file" /\ task'[w].op = task[w].op /\ task'[w].cap = task[w].cap
        /\ task'[w].mine = task[w].mine /\ task'[w].made = task[w].made /\ OthersKept(w)
    BY <1>0, <1>4, GotoFacts DEF PCs, OthersKept
  <2>2. MarksOf(w)'
    BY <1>0, <1>4, <2>1 DEF CapsuleOf, MarksOf, Early
  <2>3. GoesOnWith(w)
    BY <1>0, <1>1, <1>2, <1>4, <2>1, <2>2 DEF GoesOnWith, Guarded, Danger, Early
  <2> QED
    BY <2>3, GoesOnKeeps
<1> QED
  BY <1>3, <1>4 DEF RollbackRow

\* The file goes last.
LEMMA RollbackFileKeeps ==
  ASSUME CoreInv, CapsuleInv, NEW w \in Workers, RecStep, RollbackFile(w)
  PROVE  CapsuleInv' /\ CapsuleStep(w)
<1>0. TypeOK /\ task[w].pc = "rollback_file" /\ End(w)
  BY DEF CoreInv, RollbackFile, At
<1>1. UNCHANGED <<ledger, stray>>
  BY DEF RollbackFile, history
<1>2. \A c \in Capsules : files[c] = None \/ files'[c] # None \/ LosesFile(w, c)
  BY <1>0, RemoveFacts DEF RollbackFile, LosesFile, TypeOK
<1> QED
  BY <1>0, <1>1, <1>2, EndFacts, EndsKeeps DEF EndsCall

\* A call that is dropped.
LEMMA DropKeeps ==
  ASSUME CoreInv, CapsuleInv, NEW w \in Workers, RecStep, Drop(w)
  PROVE  CapsuleInv' /\ CapsuleStep(w)
<1>1. TypeOK /\ End(w) /\ task[w].pc # "idle" /\ UNCHANGED <<ledger, files, stray>>
  BY DEF CoreInv, Drop, At, durable, history
<1> QED
  BY <1>1, EndFacts, EndsKeeps DEF EndsCall

\* prepare_external_handoff: a new operation with a new capsule.
LEMMA AtomicKeeps ==
  ASSUME CoreInv, CapsuleInv, NEW w \in Workers, NEW o \in Ops, RecStep, AtomicDispatch(w, o)
  PROVE  CapsuleInv' /\ CapsuleStep(w)
<1>0. TypeOK /\ task[w].pc = "idle" /\ Running /\ rec[o] = None
  BY DEF CoreInv, AtomicDispatch, At
<1>1. UNCHANGED <<files, stray, ticket>> /\ ledger[o] = None
  BY <1>0 DEF AtomicDispatch, history, CoreInv, RowsWell
<1>2. PICK c \in Unused :
        /\ ledger' = [ledger EXCEPT ![o] = c]
        /\ task' = [task EXCEPT ![w] = [Idle EXCEPT !.pc = "materialize",
                                          !.op = o, !.cap = c, !.version = 1]]
  BY DEF AtomicDispatch
<1>3. /\ task'[w].pc = "materialize" /\ task'[w].op = o /\ task'[w].cap = c
      /\ task'[w].mine = FALSE /\ task'[w].made = FALSE
  BY <1>0, <1>2, IdleFacts DEF TypeOK, Tasks
<1>4. OthersKept(w)
  BY <1>0, <1>1, <1>2 DEF TypeOK, OthersKept
<1>5. ledger'[o] = c /\ \A p \in Ops : p # o => ledger'[p] = ledger[p]
  BY <1>0, <1>2 DEF TypeOK
<1>6. ~Guarded(w)' /\ \A d \in Capsules : ~Danger(w, d)' /\ ~Wrecks(w, d)'
  BY <1>3 DEF Danger, Wrecks, Guarded, Early, Holding
<1>7. CapsuleStep(w)
  BY <1>0, <1>1, <1>3, <1>4, <1>5, <1>6 DEF CapsuleStep, GainsRow, Early
<1>8. \A v \in Workers \ {w} : task'[v].op = o => task'[v].pc \notin Early
  BY <1>0, <1>4 DEF OthersKept, CoreInv, CallersWell, TaskWell, Rec, Early
<1>9. CapsuleOf(w)'
  BY <1>3, <1>5, <1>8 DEF CapsuleOf, MarksOf, MineOf, KeepOf, FreshOf, Guarded, Holding, Early
<1> QED
  BY <1>7, <1>9, CapsuleFrame

\* materialize_preprovisioned takes no file.
LEMMA MaterializeFills ==
  ASSUME CoreInv, NEW w \in Workers, Materialize(w)
  PROVE  \A d \in Capsules : files[d] = None \/ files'[d] # None
<1>0. TypeOK /\ task[w].cap \in Capsules /\ task[w].op \in Ops
  BY DEF CoreInv, Materialize, At, CallersWell, TaskWell, Committed
<1>1. ASSUME NEW s \in PartSlots(1) \cup {BothSlots(1)},
             files' = [files EXCEPT ![task[w].cap] = [op |-> task[w].op, slots |-> s]]
      PROVE  \A d \in Capsules : files[d] = None \/ files'[d] # None
  <2>1. s \in [{0, 1} -> Facts \cup {Blank}]
    BY BothSlotsType, PartSlotsType
  <2>2. [op |-> task[w].op, slots |-> s] \in Contents
    BY <1>0, <2>1 DEF Contents
  <2> QED
    BY <1>0, <1>1, <2>2, NoneAssumption DEF TypeOK
<1> QED
  BY <1>1 DEF Materialize

\* Its capsule is made; nobody else is after it.
LEMMA MaterializeKeeps ==
  ASSUME CoreInv, CapsuleInv, NEW w \in Workers, RecStep, Materialize(w)
  PROVE  CapsuleInv' /\ CapsuleStep(w)
<1> DEFINE c == task[w].cap
<1>0. /\ TypeOK /\ CapsuleOf(w) /\ task[w].pc = "materialize" /\ task[w].op \in Ops /\ Running
      /\ c \in Capsules /\ c # None
  BY OpsAssumption DEF CoreInv, CapsuleInv, Materialize, At, CallersWell, TaskWell, Committed
<1>1. UNCHANGED <<ledger, stray>>
  BY DEF Materialize, history
<1>2. CASE End(w)
  <2>1. \A d \in Capsules : files[d] = None \/ files'[d] # None
    BY <1>0, MaterializeFills
  <2> QED
    BY <1>0, <1>1, <1>2, <2>1, EndFacts, EndsKeeps DEF EndsCall
<1>3. CASE /\ files' = [files EXCEPT ![c] = [op |-> task[w].op, slots |-> BothSlots(1)]]
           /\ Goto(w, "ticket") /\ ticket' = ticket
  <2>1. /\ task'[w].pc = "ticket" /\ task'[w].op = task[w].op /\ task'[w].cap = c
        /\ task'[w].mine = task[w].mine /\ task'[w].made = task[w].made /\ OthersKept(w)
    BY <1>0, <1>3, GotoFacts DEF PCs, OthersKept
  <2>2. ~task[w].mine /\ ~task[w].made
    BY <1>0 DEF CapsuleOf, MarksOf, Early
  <2>3. [op |-> task[w].op, slots |-> BothSlots(1)] \in Contents
    <3>1. BothSlots(1) \in [{0, 1} -> Facts \cup {Blank}]
      BY BothSlotsType
    <3> QED
      BY <1>0, <3>1 DEF Contents
  <2>4. files'[c] # None /\ \A d \in Capsules : files[d] = None \/ files'[d] # None
    BY <1>0, <1>3, <2>3, NoneAssumption DEF TypeOK
  <2>5. \A d \in Capsules : ~Danger(w, d)' /\ ~Wrecks(w, d)'
    BY <2>1 DEF Danger, Wrecks, Early
  <2>6. CapsuleStep(w)
    BY <1>0, <1>1, <2>1, <2>2, <2>4, <2>5 DEF CapsuleStep, Early
  <2>7. ledger[task[w].op] = c /\ \A v \in Workers \ {w} : ~Danger(v, c)
    <3>1. /\ ledger[task[w].op] = c
          /\ \A v \in Workers \ {w} : task[v].op = task[w].op => task[v].pc \notin Early
      BY <1>0 DEF CapsuleOf, FreshOf
    <3>2. ASSUME NEW v \in Workers \ {w}, Danger(v, c)
          PROVE  FALSE
      BY <1>0, <3>1, <3>2 DEF Danger, Early, CapsuleInv, CapsMatch
    <3> QED
      BY <3>1, <3>2
  <2>8. MarksOf(w)' /\ MineOf(w)' /\ FreshOf(w)'
    BY <2>1, <2>2 DEF MarksOf, MineOf, FreshOf, Early
  <2>9. KeepOf(w)'
    BY <1>1, <2>1, <2>4, <2>7 DEF KeepOf, Danger, OthersKept
  <2> QED
    BY <2>6, <2>8, <2>9, CapsuleFrame DEF CapsuleOf
<1> QED
  BY <1>2, <1>3 DEF Materialize

\* A call with a ticket, which reserved and made its capsule before, or at the release of a
\* closed operation.
LEMMA HeldKeeps ==
  ASSUME CoreInv, CapsuleInv, NEW w \in Workers, RecStep, stray' = stray, ledger' = ledger,
         OthersKept(w), task'[w].op = task[w].op, task'[w].cap = task[w].cap,
         task'[w].mine => task[w].mine, task'[w].made => task[w].made,
         \/ task[w].pc \in Holding /\ task'[w].pc \in Holding \cup {"confirm"}
         \/ task[w].pc = "ticket" /\ task'[w].pc = "sent" /\ ~task'[w].mine /\ ~task'[w].made
         \/ task[w].pc = "confirm" /\ task'[w].pc = "release",
         \A c \in Capsules : \/ files[c] = None \/ files'[c] # None
                             \/ \E o \in Ops : ledger[o] = c /\ Closed(o)
  PROVE  CapsuleInv' /\ CapsuleStep(w)
<1>0. CapsuleOf(w)
  BY DEF CapsuleInv
<1>1. ~task'[w].mine /\ ~task'[w].made
  BY <1>0 DEF CapsuleOf, MarksOf, Early, Holding
<1>2. task[w].pc \notin {"idle", "rollback_file"}
  BY DEF Holding
<1>3. task'[w].pc \notin Early \cup {"materialize", "rollback_file"}
  BY DEF Holding, Early
<1>4. Guarded(w)' => Guarded(w)
  BY <1>1 DEF Guarded, Holding
<1>5. MarksOf(w)'
  BY <1>1, <1>3 DEF MarksOf, Early
<1>6. ~Danger(w, task[w].cap)'
  BY <1>1, <1>3 DEF Danger, Early
<1>7. GoesOnWith(w)
  BY <1>1, <1>2, <1>3, <1>4, <1>5, <1>6 DEF GoesOnWith
<1> QED
  BY <1>7, GoesOnKeeps

\* What the steps of such a call do to it.
SameCall(w) ==
  /\ task'[w].op = task[w].op /\ task'[w].cap = task[w].cap
  /\ task'[w].mine => task[w].mine
  /\ task'[w].made => task[w].made
  /\ \A v \in Workers \ {w} : task'[v] = task[v]

\* A step that only assigns to the call's own fields.
LEMMA SameCallFacts ==
  ASSUME TypeOK, NEW w \in Workers
  PROVE  /\ \A pc \in PCs : Goto(w, pc) => SameCall(w) /\ task'[w].pc = pc
         /\ Return(w) => SameCall(w) /\ task'[w].pc = "sent" /\ ~task'[w].mine /\ ~task'[w].made
         /\ \A pc \in PCs, q \in Seq(Facts) :
              task' = [task EXCEPT ![w] = [@ EXCEPT !.pc = pc, !.chain = q]]
              => SameCall(w) /\ task'[w].pc = pc
         /\ \A pc \in PCs, s \in States :
              task' = [task EXCEPT ![w] = [@ EXCEPT !.want = s, !.pc = pc]]
              => SameCall(w) /\ task'[w].pc = pc
         /\ \A pc \in PCs, r \in Records :
              task' = [task EXCEPT ![w] = [@ EXCEPT !.pc = pc, !.seen = r]]
              => SameCall(w) /\ task'[w].pc = pc
<1>0. task \in [Workers -> Tasks] /\ task[w] \in Tasks
  BY DEF TypeOK
<1>1. ASSUME NEW pc \in PCs, Goto(w, pc)
      PROVE  SameCall(w) /\ task'[w].pc = pc
  BY <1>1, GotoFacts DEF SameCall
<1>2. ASSUME Return(w)
      PROVE  SameCall(w) /\ task'[w].pc = "sent" /\ ~task'[w].mine /\ ~task'[w].made
  BY <1>2, ReturnFacts DEF SameCall
<1>3. ASSUME NEW pc \in PCs, NEW q \in Seq(Facts),
             task' = [task EXCEPT ![w] = [@ EXCEPT !.pc = pc, !.chain = q]]
      PROVE  SameCall(w) /\ task'[w].pc = pc
  BY <1>0, <1>3 DEF SameCall, Tasks
<1>4. ASSUME NEW pc \in PCs, NEW s \in States,
             task' = [task EXCEPT ![w] = [@ EXCEPT !.want = s, !.pc = pc]]
      PROVE  SameCall(w) /\ task'[w].pc = pc
  BY <1>0, <1>4 DEF SameCall, Tasks
<1>5. ASSUME NEW pc \in PCs, NEW r \in Records,
             task' = [task EXCEPT ![w] = [@ EXCEPT !.pc = pc, !.seen = r]]
      PROVE  SameCall(w) /\ task'[w].pc = pc
  BY <1>0, <1>5 DEF SameCall, Tasks
<1> QED
  BY <1>1, <1>2, <1>3, <1>4, <1>5

\* The provider is called.
LEMMA HandoffKeeps ==
  ASSUME CoreInv, CapsuleInv, NEW w \in Workers, RecStep, Handoff(w)
  PROVE  CapsuleInv' /\ CapsuleStep(w)
<1>0. TypeOK /\ task[w].pc = "ticket" /\ Return(w)
  BY DEF CoreInv, Handoff, At
<1>1. UNCHANGED <<ledger, files, stray>>
  BY DEF Handoff, durable
<1>2. \A v \in Workers \ {w} : ticket'[v] = ticket[v]
  BY <1>0 DEF Handoff, TypeOK
<1>3. SameCall(w) /\ task'[w].pc = "sent" /\ ~task'[w].mine /\ ~task'[w].made
  BY <1>0, SameCallFacts
<1>4. OthersKept(w)
  BY <1>2, <1>3 DEF OthersKept, SameCall
<1> QED
  BY <1>0, <1>1, <1>3, <1>4, HeldKeeps DEF SameCall

\* adopt_committed keeps the call.
LEMMA AdoptSame ==
  ASSUME TypeOK, NEW w \in Workers, NEW r, Adopt(w, r)
  PROVE  /\ SameCall(w) /\ task'[w].pc \in {"sent", "confirm"}
         /\ \A v \in Workers \ {w} : ticket'[v] = ticket[v]
<1>1. "confirm" \in PCs
  BY DEF PCs
<1>2. CASE Goto(w, "confirm")
  BY <1>1, <1>2, SameCallFacts DEF Adopt, TypeOK
<1>3. CASE Return(w)
  BY <1>3, SameCallFacts DEF Adopt, TypeOK
<1> QED
  BY <1>2, <1>3 DEF Adopt

\* The steps of record_outcome keep the call, the row and the file.
LEMMA OutcomeSame ==
  ASSUME CoreInv, NEW w \in Workers,
         \/ \E s \in Outcomes : RecordOutcome(w, s)
         \/ Drain(w) \/ Import(w) \/ Refresh(w) \/ RecordDb(w) \/ Look(w) \/ Retarget(w) \/ Fallback(w)
  PROVE  /\ SameCall(w) /\ OthersKept(w) /\ FilesStay /\ ledger' = ledger /\ stray' = stray
         /\ task[w].pc \in Holding /\ task'[w].pc \in Holding \cup {"confirm"}
<1>0. /\ TypeOK /\ TaskWell(w)
      /\ \A s \in {"drain", "record", "import", "refresh", "retarget", "look", "confirm"} : s \in PCs
  BY DEF CoreInv, CallersWell, PCs
<1>1. ASSUME NEW s \in Outcomes, RecordOutcome(w, s)
      PROVE  SameCall(w) /\ OthersKept(w) /\ task[w].pc = "sent" /\ task'[w].pc \in {"drain", "record"}
  <2>1. PICK t \in States, pc \in {"drain", "record"} :
          task' = [task EXCEPT ![w] = [@ EXCEPT !.want = t, !.pc = pc]]
    <3>1. s \in States /\ "completed_after_cancel" \in States
      BY OutcomesAssumption DEF States
    <3> QED
      BY <1>1, <3>1 DEF RecordOutcome
  <2>2. SameCall(w) /\ task'[w].pc = pc
    BY <1>0, <2>1, SameCallFacts
  <2>3. \A v \in Workers \ {w} : ticket'[v] = ticket[v]
    BY <1>0, <1>1 DEF RecordOutcome, TypeOK
  <2> QED
    BY <1>1, <2>2, <2>3 DEF RecordOutcome, At, OthersKept, SameCall
<1>2. ASSUME Drain(w)
      PROVE  SameCall(w) /\ OthersKept(w) /\ task[w].pc = "drain" /\ task'[w].pc \in {"record", "sent", "import"}
  <2>1. task[w].pc = "drain" /\ ticket' = ticket
    BY <1>2 DEF Drain, At
  <2>2. task[w].cap \in Capsules
    BY <1>0, <2>1 DEF TaskWell, Holding
  <2>3. CASE Goto(w, "record") \/ Return(w)
    BY <1>0, <2>1, <2>3, SameCallFacts DEF OthersKept, SameCall
  <2>4. ASSUME Present(task[w].cap), NEW chain \in authentic_slots(task[w].cap),
               task' = [task EXCEPT ![w] = [@ EXCEPT !.pc = "import", !.chain = chain]]
        PROVE  SameCall(w) /\ OthersKept(w) /\ task'[w].pc = "import"
    <3>1. chain \in Seq(Facts)
      BY <1>0, <2>2, <2>4, AuthenticType DEF Present
    <3>2. SameCall(w) /\ task'[w].pc = "import"
      BY <1>0, <2>4, <3>1, SameCallFacts
    <3> QED
      BY <2>1, <3>2 DEF OthersKept, SameCall
  <2>5. CASE ~Goto(w, "record") /\ ~Return(w)
    <3>1. Present(task[w].cap)
      BY <1>2, <2>5 DEF Drain
    <3>2. PICK chain \in authentic_slots(task[w].cap) :
            task' = [task EXCEPT ![w] = [@ EXCEPT !.pc = "import", !.chain = chain]]
      BY <1>2, <2>5 DEF Drain
    <3> QED
      BY <2>1, <2>4, <3>1, <3>2
  <2>6. SameCall(w) /\ OthersKept(w) /\ task'[w].pc \in {"record", "sent", "import"}
    BY <1>0, <2>1, <2>3, <2>5, GotoFacts, ReturnFacts
  <2> QED
    BY <2>1, <2>6
<1>3. ASSUME Import(w)
      PROVE  SameCall(w) /\ OthersKept(w) /\ task[w].pc = "import"
             /\ task'[w].pc \in {"record", "sent", "import", "refresh"}
  <2>1. task[w].pc = "import" /\ ticket' = ticket
    BY <1>3 DEF Import, At
  <2>2. CASE Return(w)
    BY <1>0, <2>1, <2>2, SameCallFacts DEF OthersKept, SameCall
  <2>3. CASE task' = [task EXCEPT ![w] = [@ EXCEPT !.pc = "record", !.chain = <<>>]]
    <3>1. <<>> \in Seq(Facts)
      OBVIOUS
    <3>2. SameCall(w) /\ task'[w].pc = "record"
      BY <1>0, <2>3, <3>1, SameCallFacts
    <3> QED
      BY <2>1, <3>2 DEF OthersKept, SameCall
  <2>4. ASSUME NEW pc \in {"refresh", "import"},
               task' = [task EXCEPT ![w] = [@ EXCEPT !.chain = Tail(task[w].chain), !.pc = pc]]
        PROVE  SameCall(w) /\ OthersKept(w) /\ task'[w].pc = pc
    <3>1. task \in [Workers -> Tasks] /\ task[w] \in Tasks
      BY <1>0 DEF TypeOK
    <3> QED
      BY <2>1, <2>4, <3>1 DEF SameCall, OthersKept, Tasks
  <2> QED
    BY <1>3, <2>1, <2>2, <2>3, <2>4 DEF Import
<1>4. ASSUME Refresh(w)
      PROVE  SameCall(w) /\ OthersKept(w) /\ task[w].pc = "refresh" /\ task'[w].pc = "record"
  <2>1. SameCall(w) /\ task'[w].pc = "record"
    BY <1>0, <1>4, SameCallFacts DEF Refresh
  <2>2. \A v \in Workers \ {w} : ticket'[v] = ticket[v]
    BY <1>0, <1>4 DEF Refresh, TypeOK
  <2> QED
    BY <1>4, <2>1, <2>2 DEF Refresh, At, OthersKept, SameCall
<1>5. ASSUME RecordDb(w)
      PROVE  SameCall(w) /\ OthersKept(w) /\ task[w].pc = "record"
             /\ task'[w].pc \in {"sent", "confirm", "retarget", "look"}
  <2>0. task[w].pc = "record" /\ Rec(w) \in Records
    BY <1>0, <1>5 DEF RecordDb, At, TaskWell, TypeOK, Rec
  <2>1. ASSUME NEW r, Adopt(w, r)
        PROVE  SameCall(w) /\ OthersKept(w) /\ task'[w].pc \in {"sent", "confirm"}
    BY <1>0, <2>1, AdoptSame DEF OthersKept, SameCall
  <2>2. CASE task' = [task EXCEPT ![w] = [@ EXCEPT !.pc = "retarget", !.seen = Rec(w)]] /\ ticket' = ticket
    <3>1. SameCall(w) /\ task'[w].pc = "retarget"
      BY <1>0, <2>0, <2>2, SameCallFacts
    <3> QED
      BY <2>0, <2>2, <3>1 DEF OthersKept, SameCall
  <2>3. CASE Goto(w, "look") /\ ticket' = ticket
    BY <1>0, <2>0, <2>3, SameCallFacts DEF OthersKept, SameCall
  <2> QED
    BY <1>5, <2>0, <2>1, <2>2, <2>3 DEF RecordDb
<1>6. ASSUME Look(w)
      PROVE  SameCall(w) /\ OthersKept(w) /\ task[w].pc = "look" /\ task'[w].pc \in {"sent", "retarget"}
  <2>0. task[w].pc = "look" /\ Rec(w) \in Records /\ ticket' = ticket
    BY <1>0, <1>6 DEF Look, At, TaskWell, TypeOK, Rec
  <2>1. SameCall(w) /\ task'[w].pc \in {"sent", "retarget"}
    BY <1>0, <1>6, <2>0, SameCallFacts DEF Look
  <2> QED
    BY <2>0, <2>1 DEF OthersKept, SameCall
<1>7. ASSUME Retarget(w)
      PROVE  SameCall(w) /\ OthersKept(w) /\ task[w].pc = "retarget" /\ task'[w].pc \in {"sent", "confirm"}
  <2>0. task[w].pc = "retarget"
    BY <1>7 DEF Retarget, At
  <2>1. ASSUME NEW r, Adopt(w, r)
        PROVE  SameCall(w) /\ OthersKept(w) /\ task'[w].pc \in {"sent", "confirm"}
    BY <1>0, <2>1, AdoptSame DEF OthersKept, SameCall
  <2>2. CASE Return(w) /\ ticket' = ticket
    BY <1>0, <2>0, <2>2, SameCallFacts DEF OthersKept, SameCall
  <2> QED
    BY <1>7, <2>0, <2>1, <2>2 DEF Retarget
<1>8. ASSUME Fallback(w)
      PROVE  SameCall(w) /\ OthersKept(w) /\ task[w].pc = "record" /\ task'[w].pc = "sent" /\ FilesStay
  <2>1. SameCall(w) /\ task'[w].pc = "sent"
    BY <1>0, <1>8, SameCallFacts DEF Fallback
  <2>2. \A v \in Workers \ {w} : ticket'[v] = ticket[v]
    BY <1>0, <1>8 DEF Fallback, TypeOK
  <2> QED
    BY <1>8, <2>1, <2>2, FallbackStep DEF Fallback, At, OthersKept, SameCall
<1>9. /\ UNCHANGED <<ledger, stray>>
      /\ ~Fallback(w) => UNCHANGED files
  BY DEF RecordOutcome, Drain, Import, Refresh, RecordDb, Look, Retarget, Fallback, durable, history
<1> QED
  BY <1>1, <1>2, <1>3, <1>4, <1>5, <1>6, <1>7, <1>8, <1>9 DEF Holding, FilesStay

\* So they keep what is kept.
LEMMA OutcomeKeeps ==
  ASSUME CoreInv, CapsuleInv, NEW w \in Workers, RecStep,
         \/ \E s \in Outcomes : RecordOutcome(w, s)
         \/ Drain(w) \/ Import(w) \/ Refresh(w) \/ RecordDb(w) \/ Look(w) \/ Retarget(w) \/ Fallback(w)
  PROVE  CapsuleInv' /\ CapsuleStep(w)
  BY OutcomeSame, HeldKeeps DEF SameCall, FilesStay

\* confirm_and_release takes the file of a closed operation.
LEMMA ConfirmKeeps ==
  ASSUME CoreInv, CapsuleInv, NEW w \in Workers, RecStep, Confirm(w)
  PROVE  CapsuleInv' /\ CapsuleStep(w)
<1>0. TypeOK /\ task[w].pc = "confirm" /\ task[w].op \in Ops /\ Closed(task[w].op)
  BY DEF CoreInv, Confirm, At, CallersWell, TaskWell, EffectOf
<1>1. UNCHANGED <<ledger, stray>>
  BY DEF Confirm, history
<1>2. CASE End(w) /\ files' = files
  BY <1>0, <1>1, <1>2, EndFacts, EndsKeeps DEF EndsCall
<1>3. CASE /\ Goto(w, "release") /\ ticket' = ticket
           /\ \/ files' = files
              \/ files' = [files EXCEPT ![ledger[task[w].op]] = None]
  <2>1. SameCall(w) /\ task'[w].pc = "release"
    BY <1>0, <1>3, SameCallFacts DEF PCs
  <2>2. \A c \in Capsules : \/ files[c] = None \/ files'[c] # None
                            \/ \E o \in Ops : ledger[o] = c /\ Closed(o)
    BY <1>0, <1>3 DEF TypeOK
  <2> QED
    BY <1>0, <1>1, <1>3, <2>1, <2>2, HeldKeeps DEF SameCall, OthersKept
<1> QED
  BY <1>0, <1>2, <1>3, RemoveFacts DEF Confirm

\* And then its row.
LEMMA ReleaseKeeps ==
  ASSUME CoreInv, CapsuleInv, NEW w \in Workers, RecStep, Release(w)
  PROVE  CapsuleInv' /\ CapsuleStep(w)
<1>0. TypeOK /\ task[w].pc = "release" /\ task[w].op \in Ops /\ Closed(task[w].op) /\ End(w)
  BY DEF CoreInv, Release, At, CallersWell, TaskWell, EffectOf
<1>1. UNCHANGED <<files, stray>>
  BY DEF Release, history
<1>2. \A o \in Ops : ledger'[o] = ledger[o] \/ LosesRow(w, o)
  BY <1>0 DEF Release, TypeOK, LosesRow
<1> QED
  BY <1>0, <1>1, <1>2, EndFacts, EndsKeeps DEF EndsCall

\* The holder of a ticket cancels its operation.
LEMMA HolderCancelKeeps ==
  ASSUME CoreInv, CapsuleInv, NEW w \in Workers, NEW o \in Ops, RecStep,
         Cancel(w, o), task[w].op = o, At(w, "sent")
  PROVE  CapsuleInv' /\ CapsuleStep(w)
<1>0. TypeOK /\ task[w].pc = "sent" /\ task \in [Workers -> Tasks] /\ task[w] \in Tasks
  BY DEF CoreInv, At, TypeOK
<1>1. UNCHANGED <<ledger, files, stray>>
  BY DEF Cancel
<1>2. \A v \in Workers \ {w} : ticket'[v] = ticket[v]
  BY <1>0 DEF Cancel, TypeOK
<1>3. CASE task' = task
  BY <1>0, <1>1, <1>2, <1>3, HeldKeeps DEF OthersKept, Holding
<1>4. CASE task' = [task EXCEPT ![w] = [@ EXCEPT !.pc = "confirm", !.op = o]]
  <2>1. SameCall(w) /\ task'[w].pc = "confirm"
    BY <1>0, <1>4 DEF SameCall, Tasks
  <2> QED
    BY <1>0, <1>1, <1>2, <2>1, HeldKeeps DEF OthersKept, SameCall, Holding
<1> QED
  BY <1>3, <1>4 DEF Cancel

-----------------------------------------------------------------------------
(* Every step *)

\* A record moves along an edge, whatever the step.
LEMMA AnyRecStep ==
  ASSUME CoreInv, [Next]_vars
  PROVE  RecStep
<1>1. CASE rec' = rec
  BY <1>1 DEF RecStep
<1>2. CASE OneMove
  BY <1>2 DEF OneMove
<1>3. ASSUME NEW w \in Workers, Handoff(w)
      PROVE  rec' = rec
  BY <1>3 DEF Handoff, durable
<1> QED
  BY <1>1, <1>2, <1>3, MovesOrHandoff

\* Recovery has no callers, and only takes rows away.
LEMMA RecoveryKeeps ==
  ASSUME CoreInv, CapsuleInv, BootStep \/ Crash
  PROVE  CapsuleInv'
<1>0. TypeOK /\ BootWell
  BY DEF CoreInv
<1>1. \A w \in Workers : task'[w] = Idle
  <2>1. CASE Crash
    BY <2>1 DEF Crash
  <2>2. CASE BootStep
    <3>1. ~Running /\ task' = task
      BY <2>2 DEF BootStep, BootList, BootScan, BootReclaim, BootImport, BootFlag, BootLatch,
         BootConvert, BootSettle, BootFree, BootOrphans, BootGate, BootFails, Scanning, Running
    <3> QED
      BY <3>1 DEF CoreInv, CallersWell, TaskWell
  <2> QED
    BY <2>1, <2>2
<1>2. \A o \in Ops : ledger'[o] \in {ledger[o], None}
  <2>1. CASE \E o \in Ops : BootScan(o)
    BY <1>0, <2>1 DEF BootScan, TypeOK
  <2>2. CASE BootReclaim \/ BootFree
    BY <1>0, <2>2 DEF BootReclaim, BootFree, TypeOK
  <2>3. CASE ledger' = ledger
    BY <2>3
  <2> QED
    BY <2>1, <2>2, <2>3 DEF BootStep, BootList, BootImport, BootFlag, BootLatch,
       BootConvert, BootSettle, BootOrphans, BootGate, BootFails, Crash, durable
<1> QED
  BY <1>1, <1>2, IdleKeeps

\* Every step keeps the invariant.
LEMMA CapsuleNext ==
  ASSUME CoreInv, CapsuleInv, [Next]_vars
  PROVE  CapsuleInv'
<1>0. RecStep
  BY AnyRecStep
<1>1. ASSUME NEW w \in Workers, DispatchStep(w)
      PROVE  CapsuleInv'
  BY <1>0, <1>1, ReadKeeps, ReserveKeeps, CreateKeeps, RereadKeeps, WriteSlotsKeeps, CommitKeeps,
     HandoffKeeps, RollbackKeeps, RollbackRowKeeps, RollbackFileKeeps, MaterializeKeeps DEF DispatchStep
<1>2. ASSUME NEW w \in Workers, OutcomeStep(w)
      PROVE  CapsuleInv'
  BY <1>0, <1>2, OutcomeKeeps, ConfirmKeeps, ReleaseKeeps DEF OutcomeStep
<1>3. ASSUME NEW w \in Workers, NEW o \in Ops, Cancel(w, o)
      PROVE  CapsuleInv'
  BY <1>0, <1>3, BeginsKeep, HolderCancelKeeps DEF Cancel
<1>4. ASSUME \/ \E o \in Ops : Prepare(o)
             \/ DbFails \/ DbHeals \/ UNCHANGED vars
      PROVE  CapsuleInv'
  <2>1. UNCHANGED <<task, ledger, files, stray>>
    BY <1>4 DEF Prepare, DbFails, DbHeals, vars, durable, history
  <2> QED
    BY <1>0, <2>1, BystanderKeeps
<1> QED
  BY <1>0, <1>1, <1>2, <1>3, <1>4, BeginsKeep, AtomicKeeps, DropKeeps, RecoveryKeeps DEF Next

\* The journal starts without calls and rows.
LEMMA CapsuleInit == Init => CapsuleInv
<1>1. SUFFICES ASSUME Init PROVE CapsuleInv
  OBVIOUS
<1>2. \A w \in Workers : /\ task[w].pc = "idle" /\ task[w].cap = None
                         /\ task[w].mine = FALSE /\ task[w].made = FALSE
  BY <1>1, IdleFacts DEF Init
<1>3. CapsMatch /\ RowsApart /\ MineApart
  BY <1>1, <1>2 DEF Init, CapsMatch, RowsApart, MineApart
<1>4. \A w \in Workers : CapsuleOf(w)
  BY <1>2 DEF CapsuleOf, MarksOf, MineOf, KeepOf, FreshOf, Guarded, Holding
<1> QED
  BY <1>3, <1>4 DEF CapsuleInv

\* Both invariants hold in every state of every behaviour.
LEMMA CapsuleHolds == Spec => [](CoreInv /\ CapsuleInv)
<1>1. Init => CoreInv /\ CapsuleInv
  BY CoreInit, CapsuleInit
<1>2. CoreInv /\ CapsuleInv /\ [Next]_vars => (CoreInv /\ CapsuleInv)'
  BY CoreNext, CapsuleNext
<1> QED
  BY <1>1, <1>2, PTL DEF Spec

\* A ticket held for an unfinished operation has its row in SQLite and its capsule in the
\* spool: no rollback of another dispatcher (roll_back_undispatched) and no release
\* (confirm_and_release) takes the fallback medium away, for any number of callers,
\* failures and restarts, except from an operation dispatched while its row was being
\* rolled back (stray).
THEOREM TicketsKeepCapsules == Spec => []TicketKeepsCapsule
<1>1. CoreInv /\ CapsuleInv => TicketKeepsCapsule
  <2>1. SUFFICES ASSUME CoreInv, CapsuleInv, NEW w \in Workers, ticket[w] # None,
                        ~is_terminal(Rec(w).state), task[w].op \notin stray
                 PROVE  ledger[task[w].op] = task[w].cap /\ Present(task[w].cap)
    BY DEF TicketKeepsCapsule
  <2>2. TaskWell(w) /\ EffectOf(w) /\ KeepOf(w) /\ ~Closed(task[w].op)
    BY <2>1 DEF CoreInv, CallersWell, CapsuleInv, CapsuleOf, Closed, Rec
  <2>3. task[w].pc \in Holding
    BY <2>1, <2>2 DEF TaskWell, EffectOf
  <2>4. quarantine = {}
    BY <2>1, <2>2, <2>3 DEF TaskWell, Holding, CoreInv, BootWell
  <2> QED
    BY <2>1, <2>2, <2>3, <2>4 DEF KeepOf, Guarded, Present, Holding
<1> QED
  BY <1>1, CapsuleHolds, PTL

-----------------------------------------------------------------------------
(* Recovery *)

\* An operation left `dispatching` has its row, so that a scan lists it, and recovery comes
\* to it or finds the journal unfit to open. BootWell and CapsuleInv say nothing of what a
\* scan still has to do.
Dispatching(o) == rec[o] # None /\ rec[o].state = "dispatching"
Listed(o) ==
  (o \notin stray /\ Dispatching(o)) =>
    /\ ledger[o] # None \/ (boot.pc = "convert" /\ boot.op = o)
    /\ boot.pc \notin {"open", "off", "list"} => o \in boot.todo \/ quarantine # {}
ScanWell ==
  /\ boot.pc \in PerOp => boot.op \in boot.todo
  /\ boot.pc \in {"settle", "free", "reclaim"} => ~Dispatching(boot.op)
  /\ boot.pc = "latch" => quarantine # {}
  /\ boot.pc = "gate" => boot.todo = {}
ResolveInv == ScanWell /\ \A o \in Ops : Listed(o)

\* A step that changes neither records, rows nor the state of recovery.
LEMMA ResolveStays ==
  ASSUME ResolveInv, UNCHANGED <<rec, ledger, boot, quarantine>>, stray \subseteq stray'
  PROVE  ResolveInv'
<1>1. ScanWell'
  BY DEF ResolveInv, ScanWell, Dispatching
<1>2. \A o \in Ops : Listed(o)'
  BY DEF ResolveInv, Listed, Dispatching
<1> QED
  BY <1>1, <1>2 DEF ResolveInv

\* A step of a caller leaves its row to every operation it leaves `dispatching`.
LEMMA CallerResolves ==
  ASSUME ResolveInv, Running, boot' = boot, stray' = stray,
         \A o \in Ops \ stray : Dispatching(o)' =>
           ledger'[o] # None \/ (Dispatching(o) /\ ledger'[o] = ledger[o])
  PROVE  ResolveInv'
<1>1. boot.pc = "open" /\ boot'.pc = "open"
  BY DEF Running
<1>2. ScanWell'
  BY <1>1 DEF ScanWell, PerOp
<1>3. \A o \in Ops : Listed(o)'
  BY <1>1 DEF ResolveInv, Listed
<1> QED
  BY <1>2, <1>3 DEF ResolveInv

\* A move of one record, with the rows as they are.
LEMMA MoveResolves ==
  ASSUME ResolveInv, Running, boot' = boot, stray' = stray, ledger' = ledger, NEW o \in Ops,
         \A p \in Ops : p # o => rec'[p] = rec[p],
         rec'[o] = rec[o] \/ rec'[o].state # "dispatching" \/ ledger[o] # None \/ o \in stray
  PROVE  ResolveInv'
<1>1. \A p \in Ops \ stray : Dispatching(p)' =>
           ledger'[p] # None \/ (Dispatching(p) /\ ledger'[p] = ledger[p])
  BY DEF Dispatching
<1> QED
  BY <1>1, CallerResolves

\* The steps that cancel or expire an operation leave none `dispatching`, and the handoff
\* reserves its row at once.
LEMMA OpeningResolves ==
  ASSUME CoreInv, ResolveInv, NEW w \in Workers, NEW o \in Ops,
         AtomicDispatch(w, o) \/ Cancel(w, o) \/ Expire(w, o)
  PROVE  ResolveInv'
<1>0. TypeOK /\ Running /\ boot' = boot /\ stray' = stray
  BY DEF CoreInv, AtomicDispatch, Cancel, Expire, history
<1>1. CASE AtomicDispatch(w, o)
  <2>1. ledger'[o] # None /\ \A p \in Ops : p # o => rec'[p] = rec[p] /\ ledger'[p] = ledger[p]
    BY <1>0, <1>1, OpsAssumption DEF AtomicDispatch, TypeOK, Unused
  <2> QED
    BY <1>0, <2>1, CallerResolves DEF Dispatching
<1>2. CASE Cancel(w, o)
  <2>1. /\ rec'[o] = rec[o] \/ rec'[o].state # "dispatching"
        /\ \A p \in Ops : p # o => rec'[p] = rec[p]
    BY <1>0, <1>2 DEF Cancel, commit, TypeOK, moved
  <2> QED
    BY <1>0, <1>2, <2>1, MoveResolves DEF Cancel
<1>3. CASE Expire(w, o)
  <2>1. /\ rec'[o].state # "dispatching"
        /\ \A p \in Ops : p # o => rec'[p] = rec[p]
    BY <1>0, <1>3 DEF Expire, commit, TypeOK, next_record, moved
  <2> QED
    BY <1>0, <1>3, <2>1, MoveResolves DEF Expire
<1> QED
  BY <1>1, <1>2, <1>3

\* The steps of a dispatch that reserve a row, commit `dispatching` or roll the row back:
\* who commits has its row.
LEMMA DispatchResolves ==
  ASSUME CoreInv, CapsuleInv, ResolveInv, NEW w \in Workers,
         Reserve(w) \/ CommitDispatch(w) \/ RollbackRow(w) \/ Release(w)
  PROVE  ResolveInv'
<1>0. /\ TypeOK /\ TaskWell(w) /\ EffectOf(w) /\ CapsuleOf(w) /\ boot' = boot /\ stray' = stray
      /\ Running /\ task[w].op \in Ops /\ Rec(w) # None
  BY DEF CoreInv, CallersWell, CapsuleInv, TaskWell, Reserve, CommitDispatch, RollbackRow, Release,
         At, history
<1>1. CASE Reserve(w)
  <2>1. rec' = rec /\ \A p \in Ops : ledger'[p] = ledger[p] \/ ledger'[p] # None
    BY <1>0, <1>1, OpsAssumption DEF Reserve, TypeOK, Unused
  <2> QED
    BY <1>0, <2>1, CallerResolves DEF Dispatching
<1>2. CASE CommitDispatch(w)
  <2>1. ledger' = ledger /\ \A p \in Ops : p # task[w].op => rec'[p] = rec[p]
    BY <1>0, <1>2 DEF CommitDispatch, commit, TypeOK
  <2>2. CASE UNCHANGED rec
    BY <1>0, <2>1, <2>2, MoveResolves
  <2>3. CASE dispatch_won(w)
    <3>1. ~Closed(task[w].op)
      <4>1. allows_transition_to(Rec(w).state, "dispatching")
        BY <2>3 DEF dispatch_won, transition_external_operation, validate_external_transition
      <4> QED
        BY <4>1, EdgeFacts DEF Closed, Rec
    <3>2. task[w].pc = "commit" /\ task[w].made /\ task[w].cap # None
      BY <1>0, <1>2, OpsAssumption DEF CommitDispatch, At, CapsuleOf, MarksOf, TaskWell, Early
    <3>3. task[w].op \in stray \/ ledger[task[w].op] # None
      BY <1>0, <3>1, <3>2 DEF CapsuleOf, KeepOf, Guarded
    <3> QED
      BY <1>0, <2>1, <3>3, MoveResolves
  <2> QED
    BY <1>2, <2>2, <2>3 DEF CommitDispatch
<1>3. CASE RollbackRow(w)
  <2>1. /\ rec' = rec
        /\ \A p \in Ops : ledger'[p] = ledger[p] \/ rec[p].state = "prepared"
    BY <1>0, <1>3 DEF RollbackRow, TypeOK, Rec
  <2> QED
    BY <1>0, <2>1, CallerResolves DEF Dispatching
<1>4. CASE Release(w)
  <2>1. rec' = rec /\ Closed(task[w].op) /\ \A p \in Ops : ledger'[p] = ledger[p] \/ Closed(p)
    BY <1>0, <1>4 DEF Release, TypeOK, EffectOf, At
  <2>2. \A p \in Ops : Closed(p) => ~Dispatching(p)
    BY DEF Closed, is_terminal, TerminalStates, Dispatching
  <2> QED
    BY <1>0, <2>1, <2>2, CallerResolves DEF Dispatching
<1> QED
  BY <1>1, <1>2, <1>3, <1>4

\* An outcome never makes an operation `dispatching` again.
LEMMA OutcomeResolves ==
  ASSUME CoreInv, ResolveInv, NEW w \in Workers, RecStep, Import(w) \/ RecordDb(w) \/ Retarget(w)
  PROVE  ResolveInv'
<1>0. /\ TypeOK /\ TaskWell(w) /\ EffectOf(w) /\ boot' = boot /\ stray' = stray /\ ledger' = ledger
      /\ task[w].pc \in Holding /\ Running /\ task[w].op \in Ops /\ Rec(w) # None
  BY DEF CoreInv, CallersWell, TaskWell, Import, RecordDb, Retarget, At, history, Holding
<1>1. \A p \in Ops : p # task[w].op => rec'[p] = rec[p]
  BY <1>0 DEF Import, RecordDb, Retarget, ImportFact, commit, TypeOK
<1>2. rec[task[w].op].state # "prepared" /\ rec[task[w].op] # None
  BY <1>0 DEF EffectOf, Rec
<1>3. \/ rec'[task[w].op] = rec[task[w].op]
      \/ allows_transition_to(rec[task[w].op].state, rec'[task[w].op].state)
      \/ rec'[task[w].op].state = rec[task[w].op].state
  BY <1>0, <1>2 DEF RecStep, Edge
<1>4. CASE rec'[task[w].op].state = rec[task[w].op].state
  <2>1. \A p \in Ops \ stray : Dispatching(p)' =>
           ledger'[p] # None \/ (Dispatching(p) /\ ledger'[p] = ledger[p])
    BY <1>0, <1>1, <1>2, <1>4 DEF Dispatching
  <2> QED
    BY <1>0, <2>1, CallerResolves
<1>5. CASE rec'[task[w].op] = rec[task[w].op] \/ rec'[task[w].op].state # "dispatching"
  BY <1>0, <1>1, <1>5, MoveResolves
<1> QED
  BY <1>2, <1>3, <1>4, <1>5, EdgeFacts

\* A step of recovery within a scan, on to the next step of the same reservation or to the
\* next reservation: rows and records change only for the reservation at hand.
LEMMA ScanResolves ==
  ASSUME ResolveInv, stray' = stray, quarantine \subseteq quarantine',
         boot.pc \in PerOp, NEW b \in Ops, b = boot.op,
         \A o \in Ops : o # b => rec'[o] = rec[o] /\ ledger'[o] = ledger[o],
         \/ /\ boot'.op = b /\ boot'.todo = boot.todo /\ boot'.pc \in PerOp
            /\ boot'.pc \in {"settle", "free", "reclaim"} => ~Dispatching(b)'
            /\ boot'.pc = "latch" => quarantine' # {}
         \/ /\ boot'.pc = "scan" /\ boot'.todo = boot.todo \ {b}
            /\ ~Dispatching(b)' \/ quarantine' # {},
         Dispatching(b)' => ledger'[b] # None \/ (boot'.pc = "convert" /\ boot'.op = b)
  PROVE  ResolveInv'
<1>1. b \in boot.todo
  BY DEF ResolveInv, ScanWell
<1>2. ScanWell'
  BY <1>1 DEF ScanWell, PerOp, Dispatching
<1>3. ASSUME NEW o \in Ops
      PROVE  Listed(o)'
  <2>1. SUFFICES ASSUME o \notin stray, Dispatching(o)'
                 PROVE  /\ ledger'[o] # None \/ (boot'.pc = "convert" /\ boot'.op = o)
                        /\ o \in boot'.todo \/ quarantine' # {}
    BY DEF Listed
  <2>2. CASE o = b
    BY <1>1, <2>1, <2>2
  <2>3. CASE o # b
    <3>1. Dispatching(o)
      BY <2>1, <2>3 DEF Dispatching
    <3>2. ledger[o] # None /\ (o \in boot.todo \/ quarantine # {})
      BY <2>1, <2>3, <3>1 DEF ResolveInv, Listed, PerOp
    <3> QED
      BY <2>3, <3>2
  <2> QED
    BY <2>2, <2>3
<1> QED
  BY <1>2, <1>3 DEF ResolveInv

\* The steps of one reservation: the record is converted before the scan goes on, unless
\* what is in the capsule keeps the journal shut.
LEMMA ReservationResolves ==
  ASSUME CoreInv, ResolveInv,
         BootReclaim \/ BootImport \/ BootFlag \/ BootLatch \/ BootConvert \/ BootSettle \/ BootFree
  PROVE  ResolveInv'
<1>0. TypeOK /\ BootWell /\ ScanWell /\ stray' = stray
  BY DEF CoreInv, ResolveInv, BootReclaim, BootImport, BootFlag, BootLatch, BootConvert,
         BootSettle, BootFree, history
<1>1. boot.pc \in PerOp
  BY DEF BootReclaim, BootImport, BootFlag, BootLatch, BootConvert, BootSettle, BootFree,
         Scanning, PerOp
<1>2. PICK b \in Ops : b = boot.op /\ rec[b] # None
  BY <1>0, <1>1 DEF BootWell
<1>3. CASE BootReclaim \/ BootFree
  <2>1. /\ rec' = rec /\ quarantine' = quarantine /\ ~Dispatching(b)
        /\ \A o \in Ops : o # b => ledger'[o] = ledger[o]
    BY <1>0, <1>2, <1>3 DEF BootReclaim, BootFree, Scanning, ScanWell, TypeOK
  <2>2. ~Dispatching(b)'
    BY <2>1 DEF Dispatching
  <2>3. boot'.pc = "scan" /\ boot'.todo = boot.todo \ {b}
    BY <1>0, <1>2, <1>3, BootNextFacts DEF BootReclaim, BootFree
  <2> QED
    BY <1>0, <1>1, <1>2, <2>1, <2>2, <2>3, ScanResolves
<1>4. CASE BootImport
  <2>1. /\ boot.pc = "import" /\ boot.chain # <<>> /\ ledger[b] # None /\ ledger' = ledger
        /\ boot \in Boots
    BY <1>0, <1>2, <1>4 DEF BootImport, Scanning, BootWell, TypeOK
  <2>2. \A o \in Ops : o # b => rec'[o] = rec[o]
    BY <1>0, <1>2, <1>4 DEF BootImport, ImportFact, commit, TypeOK
  <2>3. /\ boot'.pc \in {"latch", "convert", "import"}
        /\ boot'.pc = "latch" => quarantine' = quarantine \cup {ledger[b]}
        /\ boot'.op = b /\ boot'.todo = boot.todo
    BY <1>2, <1>4, <2>1 DEF BootImport, Boots
  <2>4. quarantine \subseteq quarantine' /\ (boot'.pc = "latch" => quarantine' # {})
    BY <1>4, <2>3 DEF BootImport
  <2>5. boot'.pc \in PerOp /\ boot'.pc \notin {"settle", "free", "reclaim"}
    BY <2>3 DEF PerOp
  <2> QED
    BY <1>0, <1>1, <1>2, <2>1, <2>2, <2>3, <2>4, <2>5, ScanResolves
<1>5. CASE BootFlag
  <2>1. boot.pc = "flag" /\ UNCHANGED <<rec, ledger, quarantine>>
    BY <1>5 DEF BootFlag, Scanning, durable
  <2>2. boot'.pc = "convert" /\ boot'.op = b /\ boot'.todo = boot.todo
    BY <1>0, <1>2, <1>5, BootGotoFacts DEF BootFlag, BootPCs
  <2> QED
    BY <1>0, <1>1, <1>2, <2>1, <2>2, ScanResolves DEF PerOp
<1>6. CASE BootLatch
  <2>1. boot.pc = "latch" /\ UNCHANGED <<rec, ledger, quarantine>> /\ quarantine # {}
    BY <1>0, <1>6 DEF BootLatch, Scanning, ScanWell
  <2>2. boot'.pc = "scan" /\ boot'.todo = boot.todo \ {b} /\ boot'.op = None
    BY <1>0, <1>2, <1>6, BootNextFacts DEF BootLatch
  <2>3. ScanWell'
    BY <2>2 DEF ScanWell, PerOp
  <2>4. \A o \in Ops : Listed(o)'
    BY <1>0, <2>1, <2>2 DEF ResolveInv, Listed, Dispatching
  <2> QED
    BY <2>3, <2>4 DEF ResolveInv
<1>7. CASE BootConvert
  <2>1. boot.pc = "convert" /\ UNCHANGED <<ledger, quarantine>>
    BY <1>7 DEF BootConvert, Scanning
  <2>2. boot'.pc = "settle" /\ boot'.op = b /\ boot'.todo = boot.todo
    BY <1>0, <1>2, <1>7, BootGotoFacts DEF BootConvert, BootPCs
  <2>3. rec'[b].state # "dispatching" /\ \A o \in Ops : o # b => rec'[o] = rec[o]
    BY <1>0, <1>2, <1>7, ConvertFacts DEF BootConvert
  <2>4. ~Dispatching(b)'
    BY <2>3 DEF Dispatching
  <2> QED
    BY <1>0, <1>1, <1>2, <2>1, <2>2, <2>3, <2>4, ScanResolves DEF PerOp
<1>8. CASE BootSettle
  <2>1. boot.pc = "settle" /\ UNCHANGED <<rec, ledger, quarantine>> /\ ~Dispatching(b)
    BY <1>0, <1>2, <1>8 DEF BootSettle, Scanning, ScanWell
  <2>2. ~Dispatching(b)'
    BY <2>1 DEF Dispatching
  <2>3. CASE BootGoto("free")
    <3>1. boot'.pc = "free" /\ boot'.op = b /\ boot'.todo = boot.todo
      BY <1>0, <1>2, <2>3, BootGotoFacts DEF BootPCs
    <3> QED
      BY <1>0, <1>1, <1>2, <2>1, <2>2, <3>1, ScanResolves DEF PerOp
  <2>4. CASE BootNext
    <3>1. boot'.pc = "scan" /\ boot'.todo = boot.todo \ {b}
      BY <1>0, <1>2, <2>4, BootNextFacts
    <3> QED
      BY <1>0, <1>1, <1>2, <2>1, <2>2, <3>1, ScanResolves DEF PerOp
  <2> QED
    BY <1>8, <2>3, <2>4 DEF BootSettle
<1> QED
  BY <1>3, <1>4, <1>5, <1>6, <1>7, <1>8

\* The list has every row, and the scan takes a listed reservation.
LEMMA ListResolves ==
  ASSUME CoreInv, ResolveInv, BootList
  PROVE  ResolveInv'
<1>0. TypeOK /\ boot.pc = "list" /\ UNCHANGED <<rec, ledger, quarantine, stray>>
  BY DEF CoreInv, BootList, Scanning, durable, history
<1>1. boot'.pc = "scan" /\ boot'.todo = {o \in Ops : ledger[o] # None}
  BY <1>0 DEF BootList, TypeOK, Boots
<1>2. ScanWell'
  BY <1>1 DEF ScanWell, PerOp
<1>3. \A o \in Ops : Listed(o)'
  BY <1>0, <1>1 DEF ResolveInv, Listed, Dispatching
<1> QED
  BY <1>2, <1>3 DEF ResolveInv

\* A missing capsule's row goes, and the conversion of its record is next.
LEMMA TakeResolves ==
  ASSUME CoreInv, ResolveInv, NEW b \in Ops, BootScan(b)
  PROVE  ResolveInv'
<1>0. /\ TypeOK /\ boot.pc = "scan" /\ b \in boot.todo /\ boot \in Boots
      /\ UNCHANGED <<rec, stray>> /\ quarantine \subseteq quarantine'
  BY DEF CoreInv, BootScan, Scanning, history, TypeOK
<1>1. \A o \in Ops : o # b => ledger'[o] = ledger[o]
  BY <1>0 DEF BootScan, TypeOK
<1>2. PICK pc \in {"convert", "reclaim", "import", "flag"} :
        /\ boot'.pc = pc /\ boot'.op = b /\ boot'.todo = boot.todo
        /\ pc = "reclaim" => rec[b].state = "prepared"
        /\ pc # "convert" => ledger' = ledger
  <2>1. "convert" \in BootPCs /\ "reclaim" \in BootPCs /\ "import" \in BootPCs /\ "flag" \in BootPCs
    BY DEF BootPCs
  <2> QED
    BY <1>0, <2>1 DEF BootScan, Boots
<1>3. ScanWell'
  BY <1>0, <1>2 DEF ScanWell, PerOp, Dispatching
<1>4. \A o \in Ops : Listed(o)'
  BY <1>0, <1>1, <1>2 DEF ResolveInv, Listed, Dispatching
<1> QED
  BY <1>3, <1>4 DEF ResolveInv

\* The end of the scan and the gate.
LEMMA GateResolves ==
  ASSUME CoreInv, ResolveInv, BootOrphans \/ BootGate
  PROVE  ResolveInv'
<1>0. TypeOK /\ UNCHANGED <<rec, ledger, stray>> /\ quarantine \subseteq quarantine'
  BY DEF CoreInv, BootOrphans, BootGate, durable, history
<1>1. CASE BootOrphans
  <2>1. boot.pc = "scan" /\ boot'.pc = "gate" /\ boot.todo = {} /\ boot'.todo = {}
    BY <1>0, <1>1, BootGotoFacts DEF BootOrphans, BootPCs
  <2>2. ScanWell'
    BY <2>1 DEF ScanWell, PerOp
  <2>3. \A o \in Ops : Listed(o)'
    BY <1>0, <2>1 DEF ResolveInv, Listed, Dispatching
  <2> QED
    BY <2>2, <2>3 DEF ResolveInv
<1>2. CASE BootGate
  <2>1. boot.pc = "gate" /\ boot'.pc \in {"open", "off"}
    BY <1>2, OpenFacts DEF BootGate, BootPCs, Scanning
  <2>2. ScanWell'
    BY <2>1 DEF ScanWell, PerOp
  <2>3. \A o \in Ops : Listed(o)'
    BY <1>0, <2>1 DEF ResolveInv, Listed, Dispatching
  <2> QED
    BY <2>2, <2>3 DEF ResolveInv
<1> QED
  BY <1>1, <1>2

\* A stop between the release of a missing capsule's row and the conversion makes the
\* operation one that no scan lists.
LEMMA StopResolves ==
  ASSUME CoreInv, ResolveInv, BootFails \/ Crash
  PROVE  ResolveInv'
<1>0. TypeOK /\ UNCHANGED <<rec, ledger, quarantine>> /\ stray' = stray \cup Unlisted
  BY DEF CoreInv, BootFails, Crash, durable
<1>1. boot'.pc \in {"off", "list"}
  <2>1. PICK pc \in {"off", "list"} : boot' = [Open EXCEPT !.pc = pc]
    BY DEF BootFails, Crash
  <2> QED
    BY <2>1, OpenFacts DEF BootPCs
<1>2. ScanWell'
  BY <1>1 DEF ScanWell, PerOp
<1>3. ASSUME NEW o \in Ops
      PROVE  Listed(o)'
  <2>1. SUFFICES ASSUME o \notin stray', Dispatching(o)
                 PROVE  ledger[o] # None
    BY <1>0, <1>1 DEF Listed, Dispatching
  <2>2. Listed(o) /\ o \notin stray /\ o \notin Unlisted
    BY <1>0, <2>1 DEF ResolveInv
  <2> QED
    BY <2>1, <2>2 DEF Listed, Unlisted, Dispatching
<1> QED
  BY <1>2, <1>3 DEF ResolveInv

\* Every step keeps the invariant.
LEMMA ResolveNext ==
  ASSUME CoreInv, CapsuleInv, ResolveInv, [Next]_vars
  PROVE  ResolveInv'
<1>0. RecStep
  BY AnyRecStep
<1>1. ASSUME NEW w \in Workers, DispatchStep(w)
      PROVE  ResolveInv'
  <2>1. CASE Reserve(w) \/ CommitDispatch(w) \/ RollbackRow(w)
    BY <2>1, DispatchResolves
  <2>2. CASE CreateCapsule(w)
    <3>1. UNCHANGED <<rec, ledger, boot, quarantine>> /\ stray \subseteq stray'
      BY <2>2 DEF CreateCapsule
    <3> QED
      BY <3>1, ResolveStays
  <2>3. CASE UNCHANGED <<rec, ledger, boot, quarantine, stray>>
    BY <2>3, ResolveStays
  <2> QED
    BY <1>1, <2>1, <2>2, <2>3 DEF DispatchStep, ReadPrepared, Reread, WriteSlots, Handoff, Rollback,
       RollbackFile, Materialize, durable, history
<1>2. ASSUME NEW w \in Workers, OutcomeStep(w)
      PROVE  ResolveInv'
  <2>1. CASE Import(w) \/ RecordDb(w) \/ Retarget(w)
    BY <1>0, <2>1, OutcomeResolves
  <2>2. CASE Release(w)
    BY <2>2, DispatchResolves
  <2>3. CASE UNCHANGED <<rec, ledger, boot, quarantine, stray>>
    BY <2>3, ResolveStays
  <2> QED
    BY <1>2, <2>1, <2>2, <2>3 DEF OutcomeStep, RecordOutcome, Drain, Refresh, Look, Fallback,
       Confirm, durable, history
<1>3. ASSUME BootStep
      PROVE  ResolveInv'
  BY <1>3, ListResolves, TakeResolves, ReservationResolves, GateResolves, StopResolves DEF BootStep
<1>4. ASSUME NEW o \in Ops, Prepare(o)
      PROVE  ResolveInv'
  <2>1. TypeOK /\ Running /\ boot' = boot /\ stray' = stray /\ ledger' = ledger
    BY <1>4 DEF CoreInv, Prepare, history
  <2>2. /\ rec'[o].state = "prepared"
        /\ \A p \in Ops : p # o => rec'[p] = rec[p]
    BY <1>4, <2>1 DEF Prepare, commit, TypeOK
  <2> QED
    BY <2>1, <2>2, MoveResolves
<1>5. ASSUME \/ \E w \in Workers, o \in Ops : BeginDispatch(w, o)
             \/ \E w \in Workers : Drop(w)
             \/ DbFails \/ DbHeals \/ UNCHANGED vars
      PROVE  ResolveInv'
  <2>1. UNCHANGED <<rec, ledger, boot, quarantine, stray>>
    BY <1>5 DEF BeginDispatch, Drop, DbFails, DbHeals, vars, durable, history
  <2> QED
    BY <2>1, ResolveStays
<1> QED
  BY <1>1, <1>2, <1>3, <1>4, <1>5, OpeningResolves, StopResolves DEF Next

\* The three invariants hold in every state of every behaviour.
LEMMA ResolveHolds == Spec => [](CoreInv /\ ResolveInv)
<1>1. Init => ResolveInv
  <2>1. SUFFICES ASSUME Init PROVE ResolveInv
    OBVIOUS
  <2>2. boot.pc = "open" /\ \A o \in Ops : rec[o] = None
    BY <2>1 DEF Init, Open
  <2> QED
    BY <2>2 DEF ResolveInv, ScanWell, Listed, Dispatching, PerOp
<1>2. CoreInv /\ CapsuleInv /\ ResolveInv /\ [Next]_vars => ResolveInv'
  BY ResolveNext
<1> QED
  BY <1>1, <1>2, CapsuleHolds, PTL DEF Spec

\* When recovery opens the journal (start_at), no operation with its row is left
\* `dispatching`: each was converted, settled from its capsule, or keeps the journal shut by
\* what was put in quarantine, through any number of outages and restarts in the middle of
\* a recovery.
THEOREM RestartsResolve == Spec => RestartResolves
<1>1. CoreInv /\ ResolveInv /\ [Next]_vars =>
        [boot.pc = "gate" /\ boot'.pc = "open" =>
           \A o \in Ops \ stray : rec[o] = None \/ rec[o].state # "dispatching"]_vars
  <2>1. SUFFICES ASSUME CoreInv, ResolveInv, Next, boot.pc = "gate", boot'.pc = "open",
                        NEW o \in Ops \ stray, Dispatching(o)
                 PROVE  FALSE
    BY DEF Dispatching
  <2>2. quarantine # {}
    BY <2>1 DEF ResolveInv, Listed, ScanWell
  <2>3. BootStep
    <3>1. boot' # boot
      BY <2>1
    <3>2. ~Crash
      BY <2>1, OpenFacts DEF Crash, BootPCs
    <3>3. ASSUME NEW w \in Workers
          PROVE  ~DispatchStep(w) /\ ~OutcomeStep(w) /\ ~Drop(w)
      BY <3>1 DEF DispatchStep, ReadPrepared, Reserve, CreateCapsule, Reread, WriteSlots,
         CommitDispatch, Handoff, Rollback, RollbackRow, RollbackFile, Materialize, OutcomeStep,
         RecordOutcome, Drain, Import, Refresh, RecordDb, Look, Retarget, Fallback, Confirm,
         Release, Drop
    <3> QED
      BY <2>1, <3>1, <3>2, <3>3 DEF Next, Prepare, BeginDispatch, AtomicDispatch, Cancel, Expire,
         DbFails, DbHeals
  <2>4. BootGate \/ BootFails
    BY <2>1, <2>3 DEF BootStep, BootList, BootScan, BootReclaim, BootImport, BootFlag, BootLatch,
       BootConvert, BootSettle, BootFree, BootOrphans, Scanning
  <2>5. CASE BootGate
    BY <2>1, <2>2, <2>5, OpenFacts DEF BootGate, BootPCs, dispatch_allowed
  <2>6. CASE BootFails
    BY <2>1, <2>6, OpenFacts DEF BootFails, BootPCs
  <2> QED
    BY <2>4, <2>5, <2>6
<1> QED
  BY <1>1, ResolveHolds, PTL DEF Spec, RestartResolves
====
