----------------------- MODULE ExternalJournalProofs -----------------------
(***************************************************************************)
(* Proofs about ExternalJournal, for any operations, workers and capsules, *)
(* and any number of outages, file faults, restarts and outcomes.          *)
(***************************************************************************)
EXTENDS ExternalJournal, TLAPS

\* From the reservation to the commit or the rollback; between the commit and the
\* handoff; with a ticket.
Early == {"reserve", "create", "reread", "slots", "commit", "rollback",
          "rollback_row", "rollback_file"}
Committed == {"materialize", "ticket"}
Holding == {"sent", "drain", "import", "refresh", "record", "look", "retarget"}

Closed(o) == is_terminal(rec[o].state)

\* A call is about an operation that exists, with the capsule, the ticket and the
\* reads its step uses; only a published journal has callers.
TaskWell(w) ==
  /\ task[w].pc = "idle" => task[w] = Idle
  /\ task[w].pc # "idle" => Running /\ task[w].op \in Ops /\ Rec(w) # None
  /\ task[w].pc \in (Early \ {"reserve"}) \cup Committed \cup Holding
       => task[w].cap \in Capsules
  /\ ticket[w] # None => task[w].pc \in Holding \cup {"confirm", "release"}
  /\ task[w].pc \in Holding => ticket[w] # None
  /\ task[w].pc = "import" => task[w].chain # <<>>
  /\ task[w].pc = "retarget" => task[w].seen # None

\* A row is the row of an operation that exists.
RowsWell == \A o \in Ops : ledger[o] # None => rec[o] # None

PerOp == {"reclaim", "import", "flag", "latch", "convert", "settle", "free"}

\* What recovery has listed is there until it comes to it.
BootWell ==
  /\ boot.pc \in PerOp => boot.op \in Ops /\ rec[boot.op] # None
  /\ boot.pc \in {"list", "scan"} => boot.op = None
  /\ \A o \in boot.todo : o # boot.op => ledger[o] # None
  /\ boot.pc = "import" => /\ boot.chain # <<>>
                           /\ ledger[boot.op] # None /\ Present(ledger[boot.op])
  /\ Running => quarantine = {} /\ boot.todo = {}

\* One caller at most is past the commit of an operation. Before the handoff the
\* operation is open and nothing was sent, and a terminal record is final.
EffectOf(w) ==
  /\ task[w].pc \in Committed \cup Holding => Rec(w).state # "prepared"
  /\ task[w].pc \in Committed =>
       /\ Rec(w).state \in {"dispatching", "cancellation_requested"}
       /\ sends[task[w].op] = 0
  /\ task[w].pc \in {"confirm", "release"} => Closed(task[w].op)
  /\ (task[w].pc = "retarget" /\ is_terminal(task[w].seen.state)) => Closed(task[w].op)
Unsent == \A o \in Ops : (rec[o] = None \/ rec[o].state = "prepared") => sends[o] = 0
OneCaller ==
  \A v, w \in Workers :
    (/\ v # w /\ task[v].pc \in Committed \cup Holding
     /\ task[w].pc \in Committed \cup Holding)
    => task[v].op # task[w].op

CallersWell == (\A w \in Workers : TaskWell(w) /\ EffectOf(w)) /\ Unsent /\ OneCaller
CoreInv == TypeOK /\ CallersWell /\ RowsWell /\ BootWell

-----------------------------------------------------------------------------
(* The state graph and the records *)

\* The graph never returns to `prepared`, leaves it only to dispatch, cancel or
\* expire, and never leaves a terminal state.
LEMMA EdgeFacts ==
  ASSUME NEW s, NEW t, allows_transition_to(s, t)
  PROVE  /\ s \in States /\ t \in States /\ s # t
         /\ ~is_terminal(s) /\ t # "prepared"
         /\ t = "dispatching" => s = "prepared"
         /\ s = "prepared" => t \in {"dispatching", "cancelled", "expired"}
  BY DEF allows_transition_to, LegalEdges, States, is_terminal, TerminalStates

\* A record that moves is a record, with the state and the version it moves to.
LEMMA MovedFacts ==
  ASSUME NEW r \in Records, NEW t \in States, NEW v \in Nat, NEW c \in BOOLEAN
  PROVE  /\ moved(r, t, v, c) \in Records
         /\ moved(r, t, v, c).state = t /\ moved(r, t, v, c).version = v
  BY DEF moved, Records

\* The same for the compare-and-set transition.
LEMMA NextFacts ==
  ASSUME NEW r \in Records, NEW t \in States
  PROVE  /\ next_record(r, t) \in Records
         /\ next_record(r, t).state = t
         /\ next_record(r, t).version = r.version + 1
<1>1. r.version + 1 \in Nat
  BY DEF Records
<1> QED
  BY <1>1, MovedFacts DEF next_record

\* A commit changes the record of one operation and keeps the tables typed.
LEMMA CommitFacts ==
  ASSUME TypeOK, NEW o \in Ops, NEW r \in Records, commit(o, r)
  PROVE  /\ rec' = [rec EXCEPT ![o] = r]
         /\ rec' \in [Ops -> Records \cup {None}]
         /\ events' \in [Ops -> SUBSET Facts]
         /\ rec'[o] = r /\ r # None
         /\ \A p \in Ops : p # o => rec'[p] = rec[p]
<1>1. [version |-> r.version, state |-> r.state] \in Facts
  BY DEF Records, Facts
<1>2. rec' \in [Ops -> Records \cup {None}] /\ rec'[o] = r
  BY DEF commit, TypeOK
<1>3. events' \in [Ops -> SUBSET Facts]
  BY <1>1 DEF commit, TypeOK
<1> QED
  BY <1>2, <1>3, NoneAssumption DEF commit, TypeOK

\* The records an operation may get in one step of worker w: a new one, one more
\* edge of the graph, or the same state again with the cancellation noted. Only the
\* holder of the ticket moves a dispatched operation other than to
\* `cancellation_requested`.
Edge(o) ==
  \/ rec[o] = None /\ rec'[o].state \in {"prepared", "dispatching"}
  \/ rec[o] # None /\ (rec'[o].state = rec[o].state \/ allows_transition_to(rec[o].state, rec'[o].state))
May(w, o) ==
  \/ rec[o] = None \/ rec[o].state = "prepared"
  \/ rec'[o].state = "cancellation_requested"
  \/ task[w].pc \in Holding /\ task[w].op = o
RecStep == \A o \in Ops : rec'[o] = rec[o] \/ (rec'[o] \in Records /\ Edge(o))
OneMove == RecStep /\ \E o \in Ops : \A p \in Ops : p # o => rec'[p] = rec[p]
Kept(o) == rec[o] # None => /\ rec'[o] # None
                            /\ rec[o].state # "prepared" => rec'[o].state # "prepared"
                            /\ is_terminal(rec[o].state) => rec'[o].state = rec[o].state

\* What any such step keeps: an operation stays recorded, never goes back to
\* `prepared`, and a closed one stays as it is.
LEMMA RecStepKeeps ==
  ASSUME TypeOK, RecStep, NEW o \in Ops
  PROVE  Kept(o)
  BY NoneAssumption, EdgeFacts DEF RecStep, Edge, Kept, TypeOK

-----------------------------------------------------------------------------
(* How a step moves its own call *)

OthersKept(w) == \A v \in Workers \ {w} : task'[v] = task[v] /\ ticket'[v] = ticket[v]

\* Goto changes the step of one call.
LEMMA GotoFacts ==
  ASSUME TypeOK, NEW w \in Workers, NEW pc \in PCs, Goto(w, pc)
  PROVE  /\ task' \in [Workers -> Tasks]
         /\ task'[w] = [task[w] EXCEPT !.pc = pc]
         /\ task'[w].pc = pc
         /\ task'[w].op = task[w].op /\ task'[w].cap = task[w].cap
         /\ task'[w].chain = task[w].chain /\ task'[w].seen = task[w].seen
         /\ task'[w].mine = task[w].mine /\ task'[w].made = task[w].made
         /\ \A v \in Workers \ {w} : task'[v] = task[v]
<1> DEFINE T == [task[w] EXCEPT !.pc = pc]
<1>0. task[w] \in Tasks /\ task \in [Workers -> Tasks]
  BY DEF TypeOK
<1>1. /\ T \in Tasks /\ T.pc = pc
      /\ T.op = task[w].op /\ T.cap = task[w].cap
      /\ T.chain = task[w].chain /\ T.seen = task[w].seen
      /\ T.mine = task[w].mine /\ T.made = task[w].made
  BY <1>0 DEF Tasks
<1>2. task' = [task EXCEPT ![w] = T]
  BY DEF Goto
<1> QED
  BY <1>0, <1>1, <1>2

\* The idle call, and what a call made from it keeps.
LEMMA IdleFacts ==
  /\ Idle \in Tasks /\ Idle.pc = "idle" /\ Idle.op = None /\ Idle.cap = None
  /\ Idle.mine = FALSE /\ Idle.made = FALSE
  BY DEF Idle, Tasks, PCs

\* A call that ends leaves nothing behind in memory.
LEMMA EndFacts ==
  ASSUME TypeOK, NEW w \in Workers, End(w)
  PROVE  /\ task' \in [Workers -> Tasks] /\ ticket' \in [Workers -> Tickets \cup {None}]
         /\ task'[w] = Idle /\ task'[w].pc = "idle" /\ ticket'[w] = None
         /\ OthersKept(w)
  BY IdleFacts DEF End, TypeOK, OthersKept

\* A call that returns keeps the operation and the capsule of its ticket.
LEMMA ReturnFacts ==
  ASSUME TypeOK, NEW w \in Workers, Return(w)
  PROVE  /\ task' \in [Workers -> Tasks]
         /\ task'[w].pc = "sent" /\ task'[w].op = task[w].op /\ task'[w].cap = task[w].cap
         /\ task'[w].mine = FALSE /\ task'[w].made = FALSE
         /\ \A v \in Workers \ {w} : task'[v] = task[v]
<1> DEFINE T == [Idle EXCEPT !.pc = "sent", !.op = task[w].op, !.cap = task[w].cap]
<1>0. task[w] \in Tasks /\ task \in [Workers -> Tasks] /\ "sent" \in PCs
  BY DEF TypeOK, PCs
<1>1. /\ T \in Tasks /\ T.pc = "sent" /\ T.op = task[w].op /\ T.cap = task[w].cap
      /\ T.mine = FALSE /\ T.made = FALSE
  BY <1>0, IdleFacts DEF Tasks
<1>2. task' = [task EXCEPT ![w] = T]
  BY DEF Return
<1> QED
  BY <1>0, <1>1, <1>2

-----------------------------------------------------------------------------
(* What the step of one call keeps of the others *)

\* Worker w moves its own call and possibly one record, and calls a provider only
\* between the commit and the handoff. It comes past the commit of an operation only
\* where nobody was.
StepOf(w) ==
  /\ OthersKept(w)
  /\ Running /\ UNCHANGED <<boot, quarantine>>
  /\ RecStep /\ \A o \in Ops : rec'[o] = rec[o] \/ May(w, o)
  /\ \A o \in Ops : sends'[o] = sends[o] \/ (task[w].op = o /\ task[w].pc \in Committed)
  /\ \A o \in Ops : ledger'[o] \in {ledger[o], None} \/ rec'[o] # None
  /\ task'[w].pc \in Committed \cup Holding =>
       \/ task[w].pc \in Committed \cup Holding /\ task'[w].op = task[w].op
       \/ rec[task'[w].op] = None \/ rec[task'[w].op].state = "prepared"

\* If the call of w itself ends well, everything the invariant says still holds.
LEMMA WorkerFrame ==
  ASSUME CoreInv, NEW w \in Workers, StepOf(w), TaskWell(w)', EffectOf(w)'
  PROVE  CallersWell' /\ RowsWell' /\ BootWell'
<1> USE DEF CoreInv
<1>1. \A o \in Ops : Kept(o)
  BY RecStepKeeps DEF StepOf
<1>2. ASSUME NEW v \in Workers \ {w}
      PROVE  TaskWell(v)'
  BY <1>1, <1>2 DEF StepOf, OthersKept, Kept, TaskWell, CallersWell, Running, Rec
<1>3. ASSUME NEW v \in Workers \ {w}
      PROVE  EffectOf(v)'
  <2>0. task'[v] = task[v]
    BY DEF StepOf, OthersKept
  <2>1. task[v].pc # "idle" => task[v].op \in Ops /\ rec[task[v].op] # None
    BY DEF CallersWell, TaskWell, Rec
  <2>2. ASSUME task[v].pc \in Committed \cup Holding
        PROVE  rec'[task[v].op].state # "prepared"
    BY <1>1, <2>1, <2>2 DEF Kept, CallersWell, EffectOf, Rec, Committed, Holding
  <2>3. ASSUME task[v].pc \in Committed
        PROVE  /\ rec'[task[v].op].state \in {"dispatching", "cancellation_requested"}
               /\ sends'[task[v].op] = 0
    <3>1. task[v].op \in Ops /\ rec[task[v].op] # None
      BY <2>1, <2>3 DEF Committed
    <3>2. /\ rec[task[v].op].state \in {"dispatching", "cancellation_requested"}
          /\ sends[task[v].op] = 0
      BY <2>3 DEF CallersWell, EffectOf, Rec
    <3>3. task[w].pc \in Committed \cup Holding => task[w].op # task[v].op
      BY <2>3 DEF CallersWell, OneCaller
    <3>4. rec'[task[v].op] = rec[task[v].op] \/ rec'[task[v].op].state = "cancellation_requested"
      BY <3>1, <3>2, <3>3 DEF StepOf, May
    <3>5. sends'[task[v].op] = sends[task[v].op]
      BY <3>1, <3>3 DEF StepOf
    <3> QED
      BY <3>2, <3>4, <3>5
  <2>4. ASSUME task[v].pc \in {"confirm", "release"}
        PROVE  is_terminal(rec'[task[v].op].state)
    <3>1. task[v].op \in Ops /\ rec[task[v].op] # None
      BY <2>1, <2>4
    <3>2. is_terminal(rec[task[v].op].state)
      BY <2>4 DEF CallersWell, EffectOf, Closed
    <3> QED
      BY <1>1, <3>1, <3>2 DEF Kept
  <2>5. ASSUME task[v].pc = "retarget", is_terminal(task[v].seen.state)
        PROVE  is_terminal(rec'[task[v].op].state)
    <3>1. task[v].op \in Ops /\ rec[task[v].op] # None
      BY <2>1, <2>5
    <3>2. is_terminal(rec[task[v].op].state)
      BY <2>5 DEF CallersWell, EffectOf, Closed
    <3> QED
      BY <1>1, <3>1, <3>2 DEF Kept
  <2> QED
    BY <2>0, <2>2, <2>3, <2>4, <2>5 DEF EffectOf, Rec, Closed
<1>4. Unsent'
  <2>1. SUFFICES ASSUME NEW o \in Ops, rec'[o] = None \/ rec'[o].state = "prepared"
                 PROVE  sends'[o] = 0
    BY DEF Unsent
  <2>2. rec[o] = None \/ rec[o].state = "prepared"
    BY <1>1, <2>1 DEF Kept
  <2>3. ~(task[w].op = o /\ task[w].pc \in Committed)
    BY <2>2 DEF CallersWell, TaskWell, EffectOf, Rec, Committed
  <2> QED
    BY <2>2, <2>3 DEF StepOf, CallersWell, Unsent
<1>5. OneCaller'
  <2>1. ASSUME NEW v \in Workers \ {w}, task[v].pc \in Committed \cup Holding,
               task'[w].pc \in Committed \cup Holding
        PROVE  task[v].op # task'[w].op
    <3>1. rec[task[v].op] # None /\ rec[task[v].op].state # "prepared"
      BY <2>1 DEF CallersWell, TaskWell, EffectOf, Rec, Committed, Holding
    <3> QED
      BY <2>1, <3>1 DEF StepOf, CallersWell, OneCaller
  <2> QED
    BY <2>1 DEF OneCaller, StepOf, OthersKept, CallersWell
<1>6. RowsWell'
  BY <1>1 DEF RowsWell, StepOf, Kept
<1>7. BootWell'
  <2>1. boot.pc = "open" /\ boot.todo = {} /\ quarantine = {} /\ boot' = boot /\ quarantine' = quarantine
    BY DEF StepOf, BootWell, Running
  <2> QED
    BY <2>1 DEF BootWell, PerOp, Running
<1>8. \A v \in Workers : TaskWell(v)' /\ EffectOf(v)'
  BY <1>2, <1>3
<1> QED
  BY <1>4, <1>5, <1>6, <1>7, <1>8 DEF CallersWell

\* A step of w that writes no record and calls no provider: the call ends, or goes
\* on about the same operation with what its next step uses.
GoesOn(w) ==
  /\ task'[w].pc # "idle" /\ task'[w].op = task[w].op
  /\ task'[w].pc \in Committed \cup Holding => task[w].pc \in Committed \cup Holding
  /\ task'[w].pc \in Committed => task[w].pc \in Committed
  /\ task'[w].pc \in (Early \ {"reserve"}) \cup Committed \cup Holding => task'[w].cap \in Capsules
  /\ ticket'[w] # None => task'[w].pc \in Holding \cup {"confirm", "release"}
  /\ task'[w].pc \in Holding => ticket'[w] # None
  /\ task'[w].pc = "import" => task'[w].chain # <<>>
  /\ task'[w].pc = "retarget" => task'[w].seen = Rec(w)
  /\ task'[w].pc \in {"confirm", "release"} => Closed(task[w].op)
CallMoves(w) ==
  /\ OthersKept(w) /\ task[w].pc # "idle"
  /\ UNCHANGED <<rec, boot, quarantine, sends>>
  /\ \A o \in Ops : ledger'[o] \in {ledger[o], None} \/ rec[o] # None
  /\ (task'[w] = Idle /\ ticket'[w] = None) \/ GoesOn(w)

\* Such a step keeps the invariant.
LEMMA CallFrame ==
  ASSUME CoreInv, NEW w \in Workers, CallMoves(w)
  PROVE  CallersWell' /\ RowsWell' /\ BootWell'
<1>1. TaskWell(w) /\ EffectOf(w)
  BY DEF CoreInv, CallersWell
<1>2. task[w].op \in Ops /\ Rec(w) # None /\ Running
  BY <1>1 DEF CallMoves, TaskWell
<1>3. StepOf(w)
  BY <1>2, IdleFacts DEF StepOf, CallMoves, GoesOn, RecStep, Committed, Holding
<1>4. TaskWell(w)'
  <2>1. CASE task'[w] = Idle /\ ticket'[w] = None
    BY <2>1, IdleFacts DEF TaskWell, Early, Committed, Holding
  <2>2. CASE GoesOn(w)
    BY <2>2, <1>2 DEF TaskWell, CallMoves, GoesOn, Rec, Running
  <2> QED
    BY <2>1, <2>2 DEF CallMoves
<1>5. EffectOf(w)'
  <2>1. CASE task'[w] = Idle /\ ticket'[w] = None
    BY <2>1, IdleFacts DEF EffectOf, Committed, Holding
  <2>2. CASE GoesOn(w)
    BY <2>2, <1>1 DEF EffectOf, CallMoves, GoesOn, Rec, Closed
  <2> QED
    BY <2>1, <2>2 DEF CallMoves
<1> QED
  BY <1>3, <1>4, <1>5, WorkerFrame

\* The types of the variables that a call's own step is about, and of the rest.
MemType == task \in [Workers -> Tasks] /\ ticket \in [Workers -> Tickets \cup {None}]
TableType == /\ rec \in [Ops -> Records \cup {None}] /\ events \in [Ops -> SUBSET Facts]
             /\ ledger \in [Ops -> Capsules \cup {None}]
FileType == /\ files \in [Capsules -> Contents \cup {None}]
            /\ quarantine \subseteq {c \in Capsules : files[c] # None}
RestType ==
  /\ fault \in BOOLEAN /\ latch \in BOOLEAN /\ boot \in Boots /\ db \in {"up", "down"}
  /\ used \in [outages : 0..MaxOutages, spool : 0..MaxSpoolFaults, crashes : 0..MaxCrashes]
  /\ sends \in [Ops -> Nat] /\ reported \in [Ops -> SUBSET Facts]
  /\ acked \subseteq Ops /\ stray \subseteq Ops /\ overlaid \subseteq Ops

\* The type invariant is these four parts.
LEMMA TypeParts == MemType' /\ TableType' /\ FileType' /\ RestType' => TypeOK'
  BY DEF TypeOK, MemType, TableType, FileType, RestType

\* One more failing file operation stays within its bound.
LEMMA SpoolFaultType ==
  ASSUME TypeOK, SpoolFault
  PROVE  used' \in [outages : 0..MaxOutages, spool : 0..MaxSpoolFaults, crashes : 0..MaxCrashes]
  BY LimitsAssumption DEF TypeOK, SpoolFault

\* remove_capsule: the file goes, or stays.
LEMMA RemoveFacts ==
  ASSUME TypeOK, NEW c, remove_capsule(c)
  PROVE  /\ files' = [files EXCEPT ![c] = None] \/ files' = files
         /\ used' \in [outages : 0..MaxOutages, spool : 0..MaxSpoolFaults, crashes : 0..MaxCrashes]
  BY SpoolFaultType DEF TypeOK, remove_capsule

-----------------------------------------------------------------------------
(* begin_dispatch *)

\* ensure_dispatch_allowed.
LEMMA BeginDispatchStep ==
  ASSUME CoreInv, NEW w \in Workers, NEW o \in Ops, BeginDispatch(w, o)
  PROVE  CoreInv'
<1> USE DEF BeginDispatch
<1> DEFINE T == [Idle EXCEPT !.pc = "read", !.op = o]
<1>0. TypeOK
  BY DEF CoreInv
<1>1. T \in Tasks /\ T.pc = "read" /\ T.op = o
  BY IdleFacts DEF Tasks, PCs
<1>2. task' \in [Workers -> Tasks] /\ task'[w] = T /\ OthersKept(w)
  BY <1>0, <1>1 DEF TypeOK, OthersKept
<1>3. TypeOK'
  BY <1>0, <1>2 DEF TypeOK, durable, history
<1>4. ticket'[w] = None
  BY DEF CoreInv, CallersWell, TaskWell, At, Holding
<1>5. StepOf(w)
  BY <1>1, <1>2 DEF StepOf, RecStep, Committed, Holding, durable, history
<1>6. TaskWell(w)' /\ EffectOf(w)'
  BY <1>1, <1>2, <1>4 DEF TaskWell, EffectOf, Early, Committed, Holding, durable, Rec, Running
<1> QED
  BY <1>3, <1>5, <1>6, WorkerFrame DEF CoreInv

\* The read of the record to dispatch.
LEMMA ReadPreparedStep ==
  ASSUME CoreInv, NEW w \in Workers, ReadPrepared(w)
  PROVE  CoreInv'
<1>0. TypeOK /\ TaskWell(w) /\ task[w].pc = "read"
  BY DEF CoreInv, CallersWell, ReadPrepared, At
<1>1. CASE Up /\ Rec(w).state = "prepared"
  <2> DEFINE T == [task[w] EXCEPT !.pc = "reserve", !.version = Rec(w).version]
  <2>1. Rec(w).version \in Nat /\ task[w] \in Tasks /\ "reserve" \in PCs
    BY <1>0 DEF TaskWell, TypeOK, Rec, Records, PCs
  <2>2. T \in Tasks /\ T.pc = "reserve" /\ T.op = task[w].op
    BY <2>1 DEF Tasks
  <2>3. task' \in [Workers -> Tasks] /\ task'[w] = T /\ OthersKept(w) /\ ticket' = ticket
    BY <1>0, <1>1, <2>2 DEF ReadPrepared, TypeOK, OthersKept
  <2>4. TypeOK'
    BY <1>0, <2>3 DEF ReadPrepared, TypeOK, durable, history
  <2>5. CallMoves(w)
    BY <1>0, <2>2, <2>3 DEF CallMoves, GoesOn, ReadPrepared, durable, history, TaskWell,
                            Early, Committed, Holding
  <2> QED
    BY <2>4, <2>5, CallFrame DEF CoreInv
<1>2. CASE ~(Up /\ Rec(w).state = "prepared")
  <2>1. End(w)
    BY <1>2 DEF ReadPrepared
  <2>2. TypeOK'
    BY <1>0, <2>1, EndFacts DEF ReadPrepared, TypeOK, durable, history
  <2>3. CallMoves(w)
    BY <1>0, <2>1, EndFacts DEF CallMoves, ReadPrepared, durable, history
  <2> QED
    BY <2>2, <2>3, CallFrame DEF CoreInv
<1> QED
  BY <1>1, <1>2

\* reserve_external_journal_capsule.
LEMMA ReserveStep ==
  ASSUME CoreInv, NEW w \in Workers, Reserve(w)
  PROVE  CoreInv'
<1>0. TypeOK /\ TaskWell(w) /\ task[w].pc = "reserve"
  BY DEF CoreInv, CallersWell, Reserve, At
<1>1. task[w].op \in Ops /\ Rec(w) # None
  BY <1>0 DEF TaskWell
<1>a. ASSUME NEW c \in Capsules, NEW m \in BOOLEAN,
             task' = [task EXCEPT ![w] = [@ EXCEPT !.pc = "create", !.cap = c, !.mine = m]],
             ticket' = ticket,
             \A o \in Ops : ledger'[o] \in {ledger[o], None} \/ rec[o] # None,
             ledger' \in [Ops -> Capsules \cup {None}]
      PROVE  CoreInv'
  <2> DEFINE T == [task[w] EXCEPT !.pc = "create", !.cap = c, !.mine = m]
  <2>1. task[w] \in Tasks /\ "create" \in PCs
    BY <1>0 DEF TypeOK, PCs
  <2>2. T \in Tasks /\ T.pc = "create" /\ T.op = task[w].op /\ T.cap = c
    BY <2>1 DEF Tasks
  <2>3. task' \in [Workers -> Tasks] /\ task'[w] = T /\ OthersKept(w)
    BY <1>0, <1>a, <2>2 DEF TypeOK, OthersKept
  <2>4. TypeOK'
    BY <1>0, <1>a, <2>3 DEF Reserve, TypeOK, history
  <2>5. CallMoves(w)
    BY <1>0, <1>a, <2>2, <2>3 DEF CallMoves, GoesOn, Reserve, history, TaskWell,
                            Early, Committed, Holding
  <2> QED
    BY <2>4, <2>5, CallFrame DEF CoreInv
<1>2. ASSUME NEW c \in Unused, ledger' = [ledger EXCEPT ![task[w].op] = c],
             task' = [task EXCEPT ![w] = [@ EXCEPT !.pc = "create", !.cap = c, !.mine = TRUE]],
             ticket' = ticket
      PROVE  CoreInv'
  <2>1. c \in Capsules
    BY DEF Unused
  <2>2. ledger' \in [Ops -> Capsules \cup {None}]
    BY <1>0, <1>2, <2>1 DEF TypeOK
  <2>3. \A o \in Ops : ledger'[o] \in {ledger[o], None} \/ rec[o] # None
    BY <1>0, <1>1, <1>2 DEF TypeOK, Rec
  <2> QED
    BY <1>2, <1>a, <2>1, <2>2, <2>3
<1>3. CASE /\ ledger[task[w].op] # None /\ ledger' = ledger /\ ticket' = ticket
           /\ task' = [task EXCEPT ![w] = [@ EXCEPT !.pc = "create", !.cap = ledger[task[w].op]]]
  <2>1. ledger[task[w].op] \in Capsules /\ task[w].mine \in BOOLEAN
    BY <1>0, <1>1, <1>3 DEF TypeOK, Tasks
  <2>2. task' = [task EXCEPT ![w] = [@ EXCEPT !.pc = "create", !.cap = ledger[task[w].op],
                                              !.mine = task[w].mine]]
    BY <1>0, <1>3 DEF TypeOK, Tasks
  <2> QED
    BY <1>0, <1>3, <1>a, <2>1, <2>2 DEF TypeOK
<1>4. CASE End(w) /\ ledger' = ledger
  <2>2. TypeOK'
    BY <1>0, <1>4, EndFacts DEF Reserve, TypeOK, history
  <2>3. CallMoves(w)
    BY <1>0, <1>4, EndFacts DEF CallMoves, Reserve, history
  <2> QED
    BY <2>2, <2>3, CallFrame DEF CoreInv
<1> QED
  BY <1>2, <1>3, <1>4 DEF Reserve

\* A step that only ends its call, or only goes on to step pc.
LEMMA EndMoves ==
  ASSUME CoreInv, NEW w \in Workers, End(w), task[w].pc # "idle",
         UNCHANGED <<rec, boot, quarantine, sends>>,
         \A o \in Ops : ledger'[o] \in {ledger[o], None}
  PROVE  CallMoves(w) /\ MemType'
  BY EndFacts DEF CallMoves, CoreInv, MemType

\* The same for a step that goes on to pc before or after the commit.
LEMMA GotoMoves ==
  ASSUME CoreInv, NEW w \in Workers, NEW pc \in PCs \ {"idle", "import", "retarget"},
         Goto(w, pc), ticket' = ticket,
         task[w].pc # "idle", UNCHANGED <<rec, boot, quarantine, sends>>,
         \A o \in Ops : ledger'[o] \in {ledger[o], None},
         \/ pc \in Early \ {"reserve"} /\ task[w].pc \in Early \ {"reserve"}
         \/ pc \in Committed /\ task[w].pc \in Committed
         \/ pc \in Holding /\ task[w].pc \in Holding
         \/ pc \in {"confirm", "release"} /\ Closed(task[w].op)
              /\ task[w].pc \in Holding \cup {"confirm", "release"}
  PROVE  CallMoves(w) /\ MemType'
<1>1. TypeOK /\ TaskWell(w)
  BY DEF CoreInv, CallersWell
<1>2. OthersKept(w) /\ MemType'
  BY <1>1, GotoFacts DEF OthersKept, MemType, TypeOK
<1>3. task'[w].pc = pc /\ task'[w].op = task[w].op /\ task'[w].cap = task[w].cap
  BY <1>1, GotoFacts
<1>4. GoesOn(w)
  BY <1>1, <1>3 DEF GoesOn, TaskWell, Early, Committed, Holding
<1> QED
  BY <1>2, <1>4 DEF CallMoves

\* create_capsule.
LEMMA CreateCapsuleStep ==
  ASSUME CoreInv, NEW w \in Workers, CreateCapsule(w)
  PROVE  CoreInv'
<1>0. TypeOK /\ TaskWell(w) /\ task[w].pc = "create" /\ Running
  BY DEF CoreInv, CallersWell, CreateCapsule, At, TaskWell
<1>1. task[w].op \in Ops /\ task[w].cap \in Capsules /\ quarantine = {}
  BY <1>0 DEF TaskWell, Early, CoreInv, BootWell
<1>2. TableType' /\ stray' \subseteq Ops /\ quarantine' = {}
  BY <1>0, <1>1 DEF CreateCapsule, TypeOK, TableType
<1>3. CASE /\ files' = [files EXCEPT ![task[w].cap] = Sentinels(task[w].op)]
           /\ task' = [task EXCEPT ![w] = [@ EXCEPT !.pc = "reread", !.made = TRUE]]
           /\ used' = used
  <2> DEFINE T == [task[w] EXCEPT !.pc = "reread", !.made = TRUE]
  <2>1. task[w] \in Tasks /\ "reread" \in PCs
    BY <1>0 DEF TypeOK, PCs
  <2>2. T \in Tasks /\ T.pc = "reread" /\ T.op = task[w].op /\ T.cap = task[w].cap
    BY <2>1 DEF Tasks
  <2>3. task' \in [Workers -> Tasks] /\ task'[w] = T /\ OthersKept(w) /\ ticket' = ticket
    BY <1>0, <1>3, <2>2 DEF CreateCapsule, TypeOK, OthersKept
  <2>4. Sentinels(task[w].op) \in Contents
    BY <1>1 DEF Sentinels, Contents
  <2>5. FileType'
    BY <1>0, <1>1, <1>2, <1>3, <2>4 DEF TypeOK, FileType
  <2>6. RestType' /\ MemType'
    BY <1>0, <1>2, <1>3, <2>3 DEF CreateCapsule, TypeOK, RestType, MemType
  <2>7. CallMoves(w)
    BY <1>0, <1>1, <2>2, <2>3 DEF CallMoves, GoesOn, CreateCapsule, TaskWell,
                            Early, Committed, Holding
  <2> QED
    BY <1>2, <2>5, <2>6, <2>7, CallFrame, TypeParts DEF CoreInv
<1>4. CASE Goto(w, "rollback") /\ files' = files /\ (used' = used \/ SpoolFault)
  <2>1. CallMoves(w) /\ MemType'
    BY <1>0, <1>4, GotoMoves DEF CreateCapsule, PCs, Early
  <2>2. FileType' /\ RestType'
    BY <1>0, <1>2, <1>4, SpoolFaultType DEF CreateCapsule, TypeOK, FileType, RestType
  <2> QED
    BY <1>2, <2>1, <2>2, CallFrame, TypeParts DEF CoreInv
<1> QED
  BY <1>3, <1>4 DEF CreateCapsule

\* The reread after the file exists.
LEMMA RereadStep ==
  ASSUME CoreInv, NEW w \in Workers, Reread(w)
  PROVE  CoreInv'
<1>0. TypeOK /\ task[w].pc = "reread"
  BY DEF CoreInv, Reread, At
<1>1. CallMoves(w) /\ MemType'
  <2>1. CASE End(w)
    BY <1>0, <2>1, EndMoves DEF Reread, durable, history
  <2>2. ASSUME NEW pc \in {"slots", "rollback"}, Goto(w, pc), ticket' = ticket
        PROVE  CallMoves(w) /\ MemType'
    BY <1>0, <2>2, GotoMoves DEF Reread, durable, history, PCs, Early
  <2> QED
    BY <2>1, <2>2 DEF Reread
<1>2. TypeOK'
  BY <1>0, <1>1 DEF Reread, TypeOK, MemType, durable, history
<1> QED
  BY <1>1, <1>2, CallFrame DEF CoreInv

\* What a dispatcher writes into the slots.
LEMMA BothSlotsType ==
  ASSUME NEW v \in Nat
  PROVE  BothSlots(v) \in [{0, 1} -> Facts \cup {Blank}]
<1>1. /\ [version |-> v, state |-> "prepared"] \in Facts
      /\ [version |-> v + 1, state |-> "dispatching"] \in Facts
  BY DEF Facts, States
<1> QED
  BY <1>1 DEF BothSlots

LEMMA PartSlotsType ==
  ASSUME NEW v \in Nat
  PROVE  PartSlots(v) \subseteq [{0, 1} -> Facts \cup {Blank}]
<1>1. BothSlots(v) \in [{0, 1} -> Facts \cup {Blank}]
  BY BothSlotsType
<1>2. [BothSlots(v) EXCEPT ![1] = Blank] \in [{0, 1} -> Facts \cup {Blank}]
  BY <1>1
<1> QED
  BY <1>1, <1>2 DEF PartSlots

\* No file goes.
FilesStay == \A c \in Capsules : files[c] # None => files'[c] # None

\* provision_and_commit, the slots.
LEMMA WriteSlotsStep ==
  ASSUME CoreInv, NEW w \in Workers, WriteSlots(w)
  PROVE  CoreInv' /\ FilesStay
<1>0. TypeOK /\ TaskWell(w) /\ task[w].pc = "slots" /\ Running
  BY DEF CoreInv, CallersWell, WriteSlots, At, TaskWell
<1>1. task[w].cap \in Capsules /\ quarantine = {} /\ task[w].version \in Nat
  BY <1>0 DEF TaskWell, Early, CoreInv, BootWell, TypeOK, Tasks
<1>2. TableType' /\ quarantine' = {}
  BY <1>0, <1>1 DEF WriteSlots, TypeOK, TableType
<1>3. CallMoves(w) /\ MemType'
  <2>1. PICK pc \in {"commit", "rollback"} : Goto(w, pc)
    BY DEF WriteSlots
  <2> QED
    BY <1>0, <2>1, GotoMoves DEF WriteSlots, history, PCs, Early
<1>4. RestType'
  BY <1>0, SpoolFaultType DEF WriteSlots, TypeOK, RestType, history
<1>5. FileType' /\ FilesStay
  <2>1. CASE files' = files
    BY <1>0, <1>2, <2>1 DEF TypeOK, FileType, FilesStay
  <2>2. ASSUME NEW s \in [{0, 1} -> Facts \cup {Blank}], Present(task[w].cap),
               files' = [files EXCEPT ![task[w].cap].slots = s]
        PROVE  FileType' /\ FilesStay
    <3> DEFINE F == [files[task[w].cap] EXCEPT !.slots = s]
    <3>1. files[task[w].cap] \in Contents
      BY <1>0, <1>1, <2>2 DEF TypeOK, Present
    <3>2. F \in Contents
      BY <3>1 DEF Contents
    <3>3. files' = [files EXCEPT ![task[w].cap] = F]
      BY <2>2
    <3> QED
      BY <1>0, <1>1, <1>2, <3>2, <3>3, NoneAssumption DEF TypeOK, FileType, FilesStay
  <2>3. BothSlots(task[w].version) \in [{0, 1} -> Facts \cup {Blank}]
    BY <1>1, BothSlotsType
  <2>4. PartSlots(task[w].version) \subseteq [{0, 1} -> Facts \cup {Blank}]
    BY <1>1, PartSlotsType
  <2> QED
    BY <2>1, <2>2, <2>3, <2>4 DEF WriteSlots
<1> QED
  BY <1>2, <1>3, <1>4, <1>5, CallFrame, TypeParts DEF CoreInv

\* A commit along an edge that w may take is what the frame asks for.
LEMMA CommitMoves ==
  ASSUME TypeOK, NEW w, NEW o \in Ops, NEW r \in Records, commit(o, r),
         \/ rec[o] = None /\ r.state \in {"prepared", "dispatching"}
         \/ /\ rec[o] # None
            /\ r.state = rec[o].state \/ allows_transition_to(rec[o].state, r.state),
         \/ rec[o] = None \/ rec[o].state = "prepared" \/ r.state = "cancellation_requested"
         \/ task[w].pc \in Holding /\ task[w].op = o
  PROVE  RecStep /\ \A p \in Ops : rec'[p] = rec[p] \/ May(w, p)
<1>1. rec'[o] = r /\ \A p \in Ops : p # o => rec'[p] = rec[p]
  BY CommitFacts
<1>2. Edge(o) /\ May(w, o)
  BY <1>1 DEF Edge, May
<1> QED
  BY <1>1, <1>2 DEF RecStep

\* prepare: a new record, about which nothing is sent.
LEMMA PrepareStep ==
  ASSUME CoreInv, NEW o \in Ops, Prepare(o)
  PROVE  CoreInv' /\ OneMove
<1> DEFINE R == [version |-> 1, state |-> "prepared", cancel |-> FALSE, started |-> FALSE]
<1>0. TypeOK /\ rec[o] = None /\ Running
  BY DEF CoreInv, Prepare
<1>1. R \in Records /\ R.state = "prepared" /\ commit(o, R)
  BY DEF Records, States, Prepare
<1> HIDE DEF R
<1>2. /\ rec' \in [Ops -> Records \cup {None}] /\ events' \in [Ops -> SUBSET Facts]
      /\ rec'[o] = R /\ R # None /\ \A p \in Ops : p # o => rec'[p] = rec[p]
  BY <1>0, <1>1, CommitFacts
<1>3. TypeOK'
  BY <1>0, <1>2 DEF Prepare, TypeOK, history
<1>4. \A v \in Workers : task[v].pc # "idle" => task[v].op # o
  BY <1>0 DEF CoreInv, CallersWell, TaskWell, Rec
<1>5. ASSUME NEW v \in Workers
      PROVE  TaskWell(v)' /\ EffectOf(v)'
  <2>1. TaskWell(v) /\ EffectOf(v)
    BY DEF CoreInv, CallersWell
  <2>2. task' = task /\ ticket' = ticket /\ boot' = boot /\ sends' = sends
    BY DEF Prepare, history
  <2>3. task[v].pc # "idle" => task[v].op \in Ops /\ rec'[task[v].op] = rec[task[v].op]
    BY <1>2, <1>4, <2>1 DEF TaskWell
  <2>4. TaskWell(v)'
    BY <2>1, <2>2, <2>3 DEF TaskWell, Rec, Running
  <2>5. EffectOf(v)'
    BY <2>1, <2>2, <2>3 DEF EffectOf, Rec, Closed, Committed, Holding
  <2> QED
    BY <2>4, <2>5
<1>6. Unsent' /\ OneCaller'
  BY <1>0, <1>2 DEF Prepare, history, CoreInv, CallersWell, Unsent, OneCaller
<1>7. RowsWell'
  BY <1>2 DEF Prepare, CoreInv, RowsWell
<1>8. BootWell'
  BY <1>0 DEF Prepare, CoreInv, BootWell, PerOp, Running
<1>9. OneMove
  BY <1>0, <1>1, <1>2 DEF OneMove, RecStep, Edge
<1> QED
  BY <1>3, <1>5, <1>6, <1>7, <1>8, <1>9 DEF CoreInv, CallersWell

\* The commit of `dispatching`, or the way to the rollback.
LEMMA CommitDispatchStep ==
  ASSUME CoreInv, NEW w \in Workers, CommitDispatch(w)
  PROVE  CoreInv' /\ OneMove
<1>0. TypeOK /\ TaskWell(w) /\ EffectOf(w) /\ task[w].pc = "commit"
  BY DEF CoreInv, CallersWell, CommitDispatch, At
<1>1. task[w].op \in Ops /\ Rec(w) # None /\ Rec(w) \in Records /\ Running /\ ticket[w] = None
       /\ task[w].cap \in Capsules
  BY <1>0 DEF TaskWell, TypeOK, Rec, Early, Holding
<1>2. CASE Up /\ dispatch_won(w)
  <2> DEFINE R == next_record(Rec(w), "dispatching")
  <2>1. commit(task[w].op, R) /\ Goto(w, "ticket")
    BY <1>2 DEF CommitDispatch
  <2>2. allows_transition_to(Rec(w).state, "dispatching")
    BY <1>2 DEF dispatch_won, transition_external_operation, validate_external_transition
  <2>3. R \in Records /\ R.state = "dispatching" /\ Rec(w).state = "prepared"
    BY <1>1, <2>2, EdgeFacts, NextFacts
  <2> HIDE DEF R
  <2>4. /\ rec' \in [Ops -> Records \cup {None}] /\ events' \in [Ops -> SUBSET Facts]
        /\ rec'[task[w].op] = R /\ R # None /\ \A p \in Ops : p # task[w].op => rec'[p] = rec[p]
    BY <1>0, <1>1, <2>1, <2>3, CommitFacts
  <2>5. RecStep /\ \A p \in Ops : rec'[p] = rec[p] \/ May(w, p)
    BY <1>0, <1>1, <2>1, <2>2, <2>3, CommitMoves DEF Rec
  <2>6. /\ task' \in [Workers -> Tasks] /\ task'[w].pc = "ticket" /\ task'[w].op = task[w].op
        /\ task'[w].cap = task[w].cap /\ \A v \in Workers \ {w} : task'[v] = task[v]
    BY <1>0, <2>1, GotoFacts DEF PCs
  <2>7. TypeOK'
    BY <1>0, <2>4, <2>6 DEF CommitDispatch, TypeOK, history
  <2>8. StepOf(w)
    BY <1>1, <2>3, <2>5, <2>6 DEF StepOf, OthersKept, CommitDispatch, history, Rec
  <2>9. TaskWell(w)'
    BY <1>1, <2>4, <2>6 DEF TaskWell, CommitDispatch, history, Rec, Running, Committed, Holding
  <2>10. sends[task[w].op] = 0
    BY <1>1, <2>3 DEF CoreInv, CallersWell, Unsent, Rec
  <2>11. EffectOf(w)'
    BY <2>3, <2>4, <2>6, <2>10 DEF EffectOf, CommitDispatch, history, Rec, Committed
  <2>12. OneMove
    BY <1>1, <2>4, <2>5 DEF OneMove
  <2> QED
    BY <2>7, <2>8, <2>9, <2>11, <2>12, WorkerFrame DEF CoreInv
<1>3. CASE ~(Up /\ dispatch_won(w))
  <2>1. Goto(w, "rollback") /\ UNCHANGED <<rec, events>>
    BY <1>3 DEF CommitDispatch
  <2>2. CallMoves(w) /\ MemType'
    BY <1>0, <2>1, GotoMoves DEF CommitDispatch, history, PCs, Early
  <2>3. TypeOK'
    BY <1>0, <2>1, <2>2 DEF CommitDispatch, TypeOK, MemType, history
  <2>4. OneMove
    BY <1>1, <2>1 DEF OneMove, RecStep
  <2> QED
    BY <2>2, <2>3, <2>4, CallFrame DEF CoreInv
<1> QED
  BY <1>2, <1>3

\* The handoff: the provider is called.
LEMMA HandoffStep ==
  ASSUME CoreInv, NEW w \in Workers, Handoff(w)
  PROVE  CoreInv'
<1> DEFINE K == [version |-> task[w].version + 1, state |-> "dispatching",
                 cancel |-> FALSE, active |-> 1, committed |-> task[w].version + 1,
                 calls |-> 0]
<1>0. TypeOK /\ TaskWell(w) /\ EffectOf(w) /\ task[w].pc = "ticket"
  BY DEF CoreInv, CallersWell, Handoff, At
<1>1. /\ task[w].op \in Ops /\ Rec(w) # None /\ Running /\ task[w].cap \in Capsules
      /\ task[w].version \in Nat
  BY <1>0 DEF TaskWell, Committed, TypeOK, Tasks
<1>2. K \in Tickets
  BY <1>1 DEF Tickets, States
<1>3. K # None
  BY <1>2, NoneAssumption
<1>4. ticket' = [ticket EXCEPT ![w] = K] /\ Return(w)
  BY DEF Handoff
<1> HIDE DEF K
<1>5. /\ task' \in [Workers -> Tasks] /\ task'[w].pc = "sent" /\ task'[w].op = task[w].op
      /\ task'[w].cap = task[w].cap /\ \A v \in Workers \ {w} : task'[v] = task[v]
  BY <1>0, <1>4, ReturnFacts
<1>6. /\ ticket' \in [Workers -> Tickets \cup {None}] /\ ticket'[w] = K
      /\ \A v \in Workers \ {w} : ticket'[v] = ticket[v]
  BY <1>0, <1>2, <1>4 DEF TypeOK
<1>7. sends' \in [Ops -> Nat] /\ \A o \in Ops : o # task[w].op => sends'[o] = sends[o]
  BY <1>0, <1>1 DEF Handoff, TypeOK
<1>8. TypeOK'
  BY <1>0, <1>5, <1>6, <1>7 DEF Handoff, TypeOK, durable
<1>9. StepOf(w)
  BY <1>0, <1>1, <1>5, <1>6, <1>7 DEF StepOf, OthersKept, Handoff, durable, RecStep, Committed
<1>10. TaskWell(w)' /\ EffectOf(w)'
  BY <1>0, <1>1, <1>3, <1>5, <1>6 DEF TaskWell, EffectOf, Handoff, durable, Rec, Running,
                                      Committed, Holding
<1> QED
  BY <1>8, <1>9, <1>10, WorkerFrame DEF CoreInv

-----------------------------------------------------------------------------
(* roll_back_undispatched, prepare_external_handoff *)

\* Whether there is anything to roll back.
LEMMA RollbackStep ==
  ASSUME CoreInv, NEW w \in Workers, Rollback(w)
  PROVE  CoreInv'
<1>0. TypeOK /\ task[w].pc = "rollback"
  BY DEF CoreInv, Rollback, At
<1>1. CallMoves(w) /\ MemType'
  <2>1. CASE End(w)
    BY <1>0, <2>1, EndMoves DEF Rollback, durable, history
  <2>2. ASSUME NEW pc \in {"rollback_row", "rollback_file"}, Goto(w, pc), ticket' = ticket
        PROVE  CallMoves(w) /\ MemType'
    BY <1>0, <2>2, GotoMoves DEF Rollback, durable, history, PCs, Early
  <2> QED
    BY <2>1, <2>2 DEF Rollback
<1>2. TypeOK'
  BY <1>0, <1>1 DEF Rollback, TypeOK, MemType, durable, history
<1> QED
  BY <1>1, <1>2, CallFrame DEF CoreInv

\* The row goes.
LEMMA RollbackRowStep ==
  ASSUME CoreInv, NEW w \in Workers, RollbackRow(w)
  PROVE  CoreInv'
<1>0. TypeOK /\ TaskWell(w) /\ task[w].pc = "rollback_row"
  BY DEF CoreInv, CallersWell, RollbackRow, At
<1>1. /\ ledger' \in [Ops -> Capsules \cup {None}]
      /\ \A o \in Ops : ledger'[o] \in {ledger[o], None}
  BY <1>0 DEF RollbackRow, TypeOK
<1>2. CallMoves(w) /\ MemType'
  <2>1. CASE End(w)
    BY <1>0, <1>1, <2>1, EndMoves DEF RollbackRow, history
  <2>2. CASE Goto(w, "rollback_file") /\ ticket' = ticket
    BY <1>0, <1>1, <2>2, GotoMoves DEF RollbackRow, history, PCs, Early
  <2> QED
    BY <2>1, <2>2 DEF RollbackRow
<1>3. TypeOK'
  BY <1>0, <1>1, <1>2 DEF RollbackRow, TypeOK, MemType, history
<1> QED
  BY <1>2, <1>3, CallFrame DEF CoreInv

\* The file goes.
LEMMA RollbackFileStep ==
  ASSUME CoreInv, NEW w \in Workers, RollbackFile(w)
  PROVE  CoreInv'
<1>0. TypeOK /\ TaskWell(w) /\ task[w].pc = "rollback_file" /\ quarantine = {}
  BY DEF CoreInv, CallersWell, RollbackFile, At, TaskWell, BootWell
<1>1. CallMoves(w) /\ MemType'
  BY <1>0, EndMoves DEF RollbackFile, history
<1>2. FileType'
  BY <1>0, RemoveFacts DEF RollbackFile, TypeOK, FileType
<1>3. RestType'
  BY <1>0, RemoveFacts DEF RollbackFile, TypeOK, RestType, history
<1>4. TableType'
  BY <1>0 DEF RollbackFile, TypeOK, TableType
<1> QED
  BY <1>1, <1>2, <1>3, <1>4, TypeParts, CallFrame DEF CoreInv

\* prepare_external_handoff: the record is new, so nobody else is past its commit.
LEMMA AtomicDispatchStep ==
  ASSUME CoreInv, NEW w \in Workers, NEW o \in Ops, AtomicDispatch(w, o)
  PROVE  CoreInv' /\ OneMove
<1> DEFINE R == [version |-> 2, state |-> "dispatching", cancel |-> FALSE, started |-> TRUE]
           E == {[version |-> 1, state |-> "prepared"], [version |-> 2, state |-> "dispatching"]}
<1>0. TypeOK /\ rec[o] = None /\ Running /\ task[w].pc = "idle" /\ ticket[w] = None
  BY DEF CoreInv, CallersWell, TaskWell, AtomicDispatch, At, Holding
<1>r. R \in Records /\ R.state = "dispatching" /\ E \subseteq Facts
  BY DEF Records, States, Facts
<1>a. rec' = [rec EXCEPT ![o] = R] /\ events' = [events EXCEPT ![o] = E]
  BY DEF AtomicDispatch
<1> HIDE DEF R, E
<1>1. R \in Records /\ R.state = "dispatching" /\ E \subseteq Facts /\ R # None
  BY <1>r, NoneAssumption
<1>2. PICK c \in Capsules :
        /\ ledger' = [ledger EXCEPT ![o] = c]
        /\ task' = [task EXCEPT ![w] = [Idle EXCEPT !.pc = "materialize",
                                          !.op = o, !.cap = c, !.version = 1]]
  BY DEF AtomicDispatch, Unused
<1> DEFINE T == [Idle EXCEPT !.pc = "materialize", !.op = o, !.cap = c, !.version = 1]
<1>3. "materialize" \in PCs
  BY DEF PCs
<1>4. T \in Tasks /\ T.pc = "materialize" /\ T.op = o /\ T.cap = c
  BY <1>3, IdleFacts DEF Tasks
<1> HIDE DEF T
<1>5. task' = [task EXCEPT ![w] = T]
  BY <1>2 DEF T
<1>6. task' \in [Workers -> Tasks] /\ task'[w] = T /\ OthersKept(w)
  BY <1>0, <1>4, <1>5 DEF AtomicDispatch, TypeOK, OthersKept
<1>t. TableType'
  BY <1>0, <1>1, <1>2, <1>a DEF TypeOK, TableType
<1>m. MemType' /\ FileType' /\ RestType'
  BY <1>0, <1>6 DEF AtomicDispatch, TypeOK, MemType, FileType, RestType, history
<1>7. TypeOK'
  BY <1>t, <1>m, TypeParts
<1>8. rec'[o] = R /\ \A p \in Ops : p # o => rec'[p] = rec[p]
  BY <1>0, <1>a DEF TypeOK
<1>9. Edge(o) /\ May(w, o)
  BY <1>0, <1>1, <1>8 DEF Edge, May
<1>10. RecStep /\ \A p \in Ops : rec'[p] = rec[p] \/ May(w, p)
  BY <1>1, <1>8, <1>9 DEF RecStep
<1>11. \A p \in Ops : ledger'[p] \in {ledger[p], None} \/ rec'[p] # None
  BY <1>0, <1>1, <1>2, <1>8 DEF TypeOK
<1>12. StepOf(w)
  BY <1>0, <1>4, <1>6, <1>10, <1>11 DEF StepOf, AtomicDispatch, history
<1>13. TaskWell(w)'
  BY <1>0, <1>1, <1>4, <1>6, <1>8 DEF TaskWell, AtomicDispatch, Rec, Running, Early, Committed, Holding
<1>14. EffectOf(w)'
  BY <1>0, <1>1, <1>4, <1>6, <1>8 DEF EffectOf, AtomicDispatch, history, Rec, Committed,
                                      CoreInv, CallersWell, Unsent
<1>15. OneMove
  BY <1>8, <1>10 DEF OneMove
<1> QED
  BY <1>7, <1>12, <1>13, <1>14, <1>15, WorkerFrame DEF CoreInv

\* materialize_preprovisioned.
LEMMA MaterializeStep ==
  ASSUME CoreInv, NEW w \in Workers, Materialize(w)
  PROVE  CoreInv'
<1>0. TypeOK /\ TaskWell(w) /\ task[w].pc = "materialize" /\ quarantine = {}
  BY DEF CoreInv, CallersWell, Materialize, At, TaskWell, BootWell
<1>1. task[w].op \in Ops /\ task[w].cap \in Capsules
  BY <1>0 DEF TaskWell, Committed
<1>2. CallMoves(w) /\ MemType'
  <2>1. CASE End(w)
    BY <1>0, <2>1, EndMoves DEF Materialize, history
  <2>2. CASE Goto(w, "ticket") /\ ticket' = ticket
    BY <1>0, <2>2, GotoMoves DEF Materialize, history, PCs, Committed
  <2> QED
    BY <2>1, <2>2 DEF Materialize
<1>3. \A s \in PartSlots(1) \cup {BothSlots(1)} : [op |-> task[w].op, slots |-> s] \in Contents
  <2>1. PartSlots(1) \cup {BothSlots(1)} \subseteq [{0, 1} -> Facts \cup {Blank}]
    BY BothSlotsType, PartSlotsType
  <2> QED
    BY <1>1, <2>1 DEF Contents
<1>4. FileType'
  <2>1. ASSUME NEW s \in PartSlots(1) \cup {BothSlots(1)},
               files' = [files EXCEPT ![task[w].cap] = [op |-> task[w].op, slots |-> s]]
        PROVE  FileType'
    BY <1>0, <1>1, <1>3, <2>1 DEF Materialize, TypeOK, FileType
  <2>2. CASE files' = files
    BY <1>0, <2>2 DEF Materialize, TypeOK, FileType
  <2> QED
    BY <2>1, <2>2 DEF Materialize
<1>5. RestType'
  BY <1>0, SpoolFaultType DEF Materialize, TypeOK, RestType, history
<1>6. TableType'
  BY <1>0 DEF Materialize, TypeOK, TableType
<1> QED
  BY <1>2, <1>4, <1>5, <1>6, TypeParts, CallFrame DEF CoreInv

-----------------------------------------------------------------------------
(* record_outcome *)

\* What authenticates in a capsule is a sequence of facts.
LEMMA AuthenticType ==
  ASSUME TypeOK, NEW c \in Capsules, files[c] # None, NEW chain \in authentic_slots(c)
  PROVE  chain \in Seq(Facts)
<1> DEFINE s == files[c].slots
           good(i) == IF s[i] = Blank THEN <<>> ELSE <<s[i]>>
<1>1. files[c] \in Contents
  BY DEF TypeOK
<1>2. s \in [{0, 1} -> Facts \cup {Blank}]
  BY <1>1 DEF Contents
<1>3. good(0) \in Seq(Facts) /\ good(1) \in Seq(Facts)
  BY <1>2
<1>5. chain \in {<<>>, good(0), good(0) \o good(1), good(1) \o good(0)}
  BY DEF authentic_slots
<1>6. <<>> \in Seq(Facts)
  OBVIOUS
<1> HIDE DEF good
<1>4. good(0) \o good(1) \in Seq(Facts) /\ good(1) \o good(0) \in Seq(Facts)
  BY <1>3
<1> QED
  BY <1>3, <1>4, <1>5, <1>6, Zenon

\* A call on a ticket goes on, with a ticket, about the same operation.
LEMMA HeldMoves ==
  ASSUME CoreInv, NEW w \in Workers, task[w].pc \in Holding, OthersKept(w),
         UNCHANGED <<rec, boot, quarantine, sends, ledger>>, ticket'[w] # None,
         task'[w].op = task[w].op, task'[w].cap = task[w].cap,
         \/ task'[w].pc \in Holding
         \/ task'[w].pc = "confirm" /\ Closed(task[w].op),
         task'[w].pc = "import" => task'[w].chain # <<>>,
         task'[w].pc = "retarget" => task'[w].seen = Rec(w)
  PROVE  CallMoves(w)
<1>1. TaskWell(w)
  BY DEF CoreInv, CallersWell
<1>2. GoesOn(w)
  BY <1>1 DEF GoesOn, TaskWell, Early, Committed, Holding
<1> QED
  BY <1>2 DEF CallMoves, Holding

\* The call begins.
LEMMA RecordOutcomeStep ==
  ASSUME CoreInv, NEW w \in Workers, NEW s \in Outcomes, RecordOutcome(w, s)
  PROVE  CoreInv'
<1>0. TypeOK /\ TaskWell(w) /\ task[w].pc = "sent" /\ ticket[w] # None /\ ticket[w] \in Tickets
  BY DEF CoreInv, CallersWell, RecordOutcome, At, TaskWell, TypeOK, Holding
<1>1. PICK k \in BOOLEAN, n \in Nat :
        ticket' = [ticket EXCEPT ![w] = [ticket[w] EXCEPT !.cancel = k, !.calls = n]]
  <2>1. (Ticket(w).cancel \/ s = "cancellation_requested") \in BOOLEAN
    OBVIOUS
  <2>2. ticket[w].calls + 1 \in Nat
    BY <1>0 DEF Tickets
  <2>3. ticket' = [ticket EXCEPT ![w] = [ticket[w] EXCEPT
                     !.cancel = (Ticket(w).cancel \/ s = "cancellation_requested"),
                     !.calls = ticket[w].calls + 1]]
    BY DEF RecordOutcome, Ticket
  <2> QED
    BY <2>1, <2>2, <2>3, Zenon
<1>2. PICK t \in States, pc \in {"drain", "record"} :
        task' = [task EXCEPT ![w] = [@ EXCEPT !.want = t, !.pc = pc]]
  <2>1. s \in States /\ "completed_after_cancel" \in States
    BY OutcomesAssumption DEF States
  <2> QED
    BY <2>1 DEF RecordOutcome
<1> DEFINE T == [task[w] EXCEPT !.want = t, !.pc = pc]
           K == [ticket[w] EXCEPT !.cancel = k, !.calls = n]
<1>3. task[w] \in Tasks /\ pc \in PCs
  BY <1>0 DEF TypeOK, PCs
<1>4. T \in Tasks /\ T.pc = pc /\ T.op = task[w].op /\ T.cap = task[w].cap
  BY <1>3 DEF Tasks
<1>5. K \in Tickets
  BY <1>0 DEF Tickets
<1>6. /\ task' \in [Workers -> Tasks] /\ task'[w] = T
      /\ ticket' \in [Workers -> Tickets \cup {None}] /\ ticket'[w] = K /\ OthersKept(w)
  BY <1>0, <1>1, <1>2, <1>4, <1>5 DEF TypeOK, OthersKept
<1>7. TypeOK'
  BY <1>0, <1>6 DEF RecordOutcome, TypeOK, durable, history
<1>8. CallMoves(w)
  BY <1>0, <1>4, <1>5, <1>6, HeldMoves, NoneAssumption DEF RecordOutcome, durable, history, Holding
<1> QED
  BY <1>7, <1>8, CallFrame DEF CoreInv

\* drain_pending_fallback begins, or is skipped.
LEMMA DrainStep ==
  ASSUME CoreInv, NEW w \in Workers, Drain(w)
  PROVE  CoreInv'
<1>0. TypeOK /\ TaskWell(w) /\ task[w].pc = "drain" /\ ticket[w] # None
  BY DEF CoreInv, CallersWell, Drain, At, TaskWell, Holding
<1>1. CASE Goto(w, "record")
  <2>1. CallMoves(w) /\ MemType'
    BY <1>0, <1>1, GotoMoves DEF Drain, durable, history, PCs, Holding
  <2>2. TypeOK'
    BY <1>0, <2>1 DEF Drain, TypeOK, MemType, durable, history
  <2> QED
    BY <2>1, <2>2, CallFrame DEF CoreInv
<1>2. CASE Return(w)
  <2>1. CallMoves(w)
    BY <1>0, <1>2, HeldMoves, ReturnFacts DEF Drain, durable, history, OthersKept, Holding
  <2>2. TypeOK'
    BY <1>0, <1>2, ReturnFacts DEF Drain, TypeOK, durable, history
  <2> QED
    BY <2>1, <2>2, CallFrame DEF CoreInv
<1>3. ASSUME Present(task[w].cap), NEW chain \in authentic_slots(task[w].cap) \ {<<>>},
             task' = [task EXCEPT ![w] = [@ EXCEPT !.pc = "import", !.chain = chain]]
      PROVE  CoreInv'
  <2> DEFINE T == [task[w] EXCEPT !.pc = "import", !.chain = chain]
  <2>0. task[w].cap \in Capsules
    BY <1>0 DEF TaskWell, Holding
  <2>1. task[w] \in Tasks /\ "import" \in PCs /\ chain \in Seq(Facts)
    BY <1>0, <1>3, <2>0, AuthenticType DEF TypeOK, PCs, Present
  <2>2. /\ T \in Tasks /\ T.pc = "import" /\ T.op = task[w].op /\ T.cap = task[w].cap
        /\ T.chain = chain
    BY <2>1 DEF Tasks
  <2>3. task' \in [Workers -> Tasks] /\ task'[w] = T /\ OthersKept(w) /\ ticket' = ticket
    BY <1>0, <1>3, <2>2 DEF Drain, TypeOK, OthersKept
  <2>4. TypeOK'
    BY <1>0, <2>3 DEF Drain, TypeOK, durable, history
  <2>5. CallMoves(w)
    BY <1>0, <1>3, <2>2, <2>3, HeldMoves DEF Drain, durable, history, Holding
  <2> QED
    BY <2>4, <2>5, CallFrame DEF CoreInv
<1>4. CASE Present(task[w].cap) /\ ~Goto(w, "record") /\ ~Return(w)
  <2>1. PICK chain \in authentic_slots(task[w].cap) \ {<<>>} :
          task' = [task EXCEPT ![w] = [@ EXCEPT !.pc = "import", !.chain = chain]]
    BY <1>4 DEF Drain
  <2> QED
    BY <1>3, <1>4, <2>1
<1> QED
  BY <1>1, <1>2, <1>4 DEF Drain

\* The same when the step may also commit a transition of the operation.
LEMMA HeldFrame ==
  ASSUME CoreInv, NEW w \in Workers, task[w].pc \in Holding, OthersKept(w),
         UNCHANGED <<boot, quarantine, sends, ledger>>, ticket'[w] # None,
         RecStep, \A p \in Ops : p # task[w].op => rec'[p] = rec[p],
         task'[w].op = task[w].op, task'[w].cap = task[w].cap,
         \/ task'[w].pc \in Holding
         \/ task'[w].pc = "confirm" /\ is_terminal(rec'[task[w].op].state),
         task'[w].pc = "import" => task'[w].chain # <<>>,
         task'[w].pc = "retarget" => task'[w].seen = rec'[task[w].op]
  PROVE  CallersWell' /\ RowsWell' /\ BootWell'
<1>1. TaskWell(w) /\ EffectOf(w) /\ TypeOK
  BY DEF CoreInv, CallersWell
<1>2. task[w].op \in Ops /\ rec[task[w].op] # None /\ Running /\ task[w].cap \in Capsules
  BY <1>1 DEF TaskWell, Holding, Rec
<1>3. rec[task[w].op].state # "prepared"
  BY <1>1 DEF EffectOf, Rec
<1>4. rec'[task[w].op] # None /\ rec'[task[w].op].state # "prepared"
  BY <1>1, <1>2, <1>3, RecStepKeeps DEF Kept
<1>5. StepOf(w)
  BY <1>2 DEF StepOf, May
<1>6. TaskWell(w)'
  BY <1>2, <1>4 DEF TaskWell, Rec, Running, Holding
<1>7. EffectOf(w)'
  BY <1>4 DEF EffectOf, Rec, Closed, Committed, Holding
<1> QED
  BY <1>5, <1>6, <1>7, WorkerFrame

\* import_external_journal_record writes one more edge of the graph, or nothing.
LEMMA ImportFacts ==
  ASSUME TypeOK, NEW o \in Ops, rec[o] # None, NEW f \in Facts, ImportFact(o, f)
  PROVE  /\ RecStep /\ \A p \in Ops : p # o => rec'[p] = rec[p]
         /\ rec' \in [Ops -> Records \cup {None}] /\ events' \in [Ops -> SUBSET Facts]
         /\ rec'[o] = rec[o] \/ allows_transition_to(rec[o].state, rec'[o].state)
<1>1. CASE import_answer(rec[o], f) = "committed"
  <2> DEFINE R == moved(rec[o], f.state, f.version, FALSE)
  <2>1. commit(o, R)
    BY <1>1 DEF ImportFact
  <2>2. allows_transition_to(rec[o].state, f.state)
    BY <1>1 DEF import_answer, validate_external_transition
  <2>3. rec[o] \in Records /\ f.state \in States /\ f.version \in Nat
    BY DEF TypeOK, Facts
  <2>4. R \in Records /\ R.state = f.state
    BY <2>3, MovedFacts
  <2> HIDE DEF R
  <2>5. /\ rec'[o] = R /\ \A p \in Ops : p # o => rec'[p] = rec[p]
        /\ rec' \in [Ops -> Records \cup {None}] /\ events' \in [Ops -> SUBSET Facts]
    BY <2>1, <2>4, CommitFacts
  <2> QED
    BY <2>2, <2>4, <2>5 DEF RecStep, Edge
<1>2. CASE UNCHANGED <<rec, events>>
  BY <1>2 DEF RecStep, TypeOK
<1> QED
  BY <1>1, <1>2 DEF ImportFact

\* import_capsule_chain, one slot.
LEMMA ImportStep ==
  ASSUME CoreInv, NEW w \in Workers, Import(w)
  PROVE  CoreInv' /\ OneMove
<1> DEFINE f == Head(task[w].chain)
           rest == Tail(task[w].chain)
<1>0. TypeOK /\ TaskWell(w) /\ task[w].pc = "import" /\ ticket[w] # None
  BY DEF CoreInv, CallersWell, Import, At, TaskWell, Holding
<1>1. /\ task[w].op \in Ops /\ rec[task[w].op] # None /\ task[w] \in Tasks
      /\ task[w].chain \in Seq(Facts) /\ task[w].chain # <<>>
  BY <1>0 DEF TaskWell, TypeOK, Tasks, Rec
<1>2. f \in Facts /\ rest \in Seq(Facts)
  BY <1>1
<1>3. /\ RecStep /\ \A p \in Ops : p # task[w].op => rec'[p] = rec[p]
      /\ rec' \in [Ops -> Records \cup {None}] /\ events' \in [Ops -> SUBSET Facts]
  <2>1. CASE Up
    BY <2>1, <1>0, <1>1, <1>2, ImportFacts DEF Import
  <2>2. CASE ~Up
    BY <2>2, <1>0 DEF Import, RecStep, TypeOK
  <2> QED
    BY <2>1, <2>2
<1>4. /\ task' \in [Workers -> Tasks] /\ OthersKept(w)
      /\ task'[w].op = task[w].op /\ task'[w].cap = task[w].cap
      /\ task'[w].pc \in {"record", "refresh", "import", "sent"}
      /\ task'[w].pc = "import" => task'[w].chain # <<>>
  <2>1. ticket' = ticket
    BY DEF Import
  <2>2. CASE Return(w)
    BY <2>1, <2>2, <1>0, ReturnFacts DEF OthersKept
  <2>3. ASSUME NEW pc \in {"record", "refresh", "import"}, NEW q \in Seq(Facts),
               pc = "import" => q # <<>>,
               task' = [task EXCEPT ![w] = [@ EXCEPT !.pc = pc, !.chain = q]]
        PROVE  <1>4!:
    <3> DEFINE T == [task[w] EXCEPT !.pc = pc, !.chain = q]
    <3>1. pc \in PCs
      BY <2>3 DEF PCs
    <3>2. /\ T \in Tasks /\ T.pc = pc /\ T.op = task[w].op /\ T.cap = task[w].cap
          /\ T.chain = q
      BY <1>1, <3>1 DEF Tasks
    <3>3. task' \in [Workers -> Tasks] /\ task'[w] = T /\ OthersKept(w)
      BY <1>0, <2>1, <2>3, <3>2 DEF TypeOK, OthersKept
    <3> QED
      BY <2>3, <3>2, <3>3
  <2>4. CASE task' = [task EXCEPT ![w] = [@ EXCEPT !.pc = "record", !.chain = <<>>]]
    <3>1. <<>> \in Seq(Facts)
      OBVIOUS
    <3> QED
      BY <2>3, <2>4, <3>1
  <2>5. CASE task' = [task EXCEPT ![w] = [@ EXCEPT !.chain = rest,
                            !.pc = IF rest = <<>> THEN "refresh" ELSE "import"]]
    <3>1. task' = [task EXCEPT ![w] = [@ EXCEPT
                            !.pc = IF rest = <<>> THEN "refresh" ELSE "import", !.chain = rest]]
      BY <1>0, <1>1, <2>5 DEF Tasks
    <3> QED
      BY <1>2, <2>3, <3>1
  <2> QED
    BY <2>2, <2>4, <2>5 DEF Import
<1>5. TypeOK'
  BY <1>0, <1>3, <1>4 DEF Import, TypeOK, history
<1>6. CallersWell' /\ RowsWell' /\ BootWell'
  BY <1>0, <1>3, <1>4, HeldFrame DEF Import, history, Holding
<1>7. OneMove
  BY <1>1, <1>3 DEF OneMove
<1> QED
  BY <1>5, <1>6, <1>7 DEF CoreInv

\* A ticket that takes over a record is a ticket.
LEMMA SyncedType ==
  ASSUME NEW t \in Tickets, NEW r \in Records
  PROVE  synced(t, r) \in Tickets /\ synced(t, r) # None
<1>1. synced(t, r) \in Tickets
  BY DEF synced, Tickets, Records
<1> QED
  BY <1>1, NoneAssumption

\* refresh after the drain.
LEMMA RefreshStep ==
  ASSUME CoreInv, NEW w \in Workers, Refresh(w)
  PROVE  CoreInv'
<1>0. /\ TypeOK /\ TaskWell(w) /\ task[w].pc = "refresh" /\ ticket[w] \in Tickets
      /\ ticket[w] # None /\ Rec(w) \in Records
  BY DEF CoreInv, CallersWell, Refresh, At, TaskWell, Holding, TypeOK, Rec
<1>1. /\ ticket' \in [Workers -> Tickets \cup {None}] /\ ticket'[w] # None
      /\ \A v \in Workers \ {w} : ticket'[v] = ticket[v]
  BY <1>0, SyncedType DEF Refresh, TypeOK
<1>2. /\ task' \in [Workers -> Tasks] /\ task'[w].pc = "record" /\ task'[w].op = task[w].op
      /\ task'[w].cap = task[w].cap /\ \A v \in Workers \ {w} : task'[v] = task[v]
  BY <1>0, GotoFacts DEF Refresh, PCs
<1>3. TypeOK'
  BY <1>0, <1>1, <1>2 DEF Refresh, TypeOK, durable, history
<1>4. CallMoves(w)
  BY <1>0, <1>1, <1>2, HeldMoves DEF Refresh, durable, history, OthersKept, Holding
<1> QED
  BY <1>3, <1>4, CallFrame DEF CoreInv

\* adopt_committed keeps the ticket, and leads a terminal record to its release.
LEMMA AdoptFacts ==
  ASSUME CoreInv, NEW w \in Workers, task[w].pc \in Holding, NEW r \in Records, Adopt(w, r)
  PROVE  /\ MemType' /\ OthersKept(w) /\ ticket'[w] # None
         /\ task'[w].op = task[w].op /\ task'[w].cap = task[w].cap
         /\ task'[w].pc = IF is_terminal(r.state) THEN "confirm" ELSE "sent"
<1>0. TypeOK /\ ticket[w] \in Tickets
  BY DEF CoreInv, CallersWell, TaskWell, TypeOK
<1>1. /\ ticket' \in [Workers -> Tickets \cup {None}] /\ ticket'[w] # None
      /\ \A v \in Workers \ {w} : ticket'[v] = ticket[v]
  BY <1>0, SyncedType DEF Adopt, TypeOK
<1>2. CASE is_terminal(r.state)
  BY <1>0, <1>1, <1>2, GotoFacts DEF Adopt, PCs, MemType, OthersKept
<1>3. CASE ~is_terminal(r.state)
  BY <1>0, <1>1, <1>3, ReturnFacts DEF Adopt, MemType, OthersKept
<1> QED
  BY <1>2, <1>3

\* A commit of a legal transition writes one more edge.
LEMMA TransitionFacts ==
  ASSUME TypeOK, NEW o \in Ops, rec[o] # None, NEW t,
         allows_transition_to(rec[o].state, t), commit(o, next_record(rec[o], t))
  PROVE  /\ RecStep /\ \A p \in Ops : p # o => rec'[p] = rec[p]
         /\ rec' \in [Ops -> Records \cup {None}] /\ events' \in [Ops -> SUBSET Facts]
         /\ next_record(rec[o], t) \in Records /\ rec'[o] = next_record(rec[o], t)
         /\ rec'[o].state = t
<1> DEFINE R == next_record(rec[o], t)
<1>2. R \in Records /\ R.state = t
  BY EdgeFacts, NextFacts DEF TypeOK
<1> HIDE DEF R
<1>3. /\ rec'[o] = R /\ \A p \in Ops : p # o => rec'[p] = rec[p]
      /\ rec' \in [Ops -> Records \cup {None}] /\ events' \in [Ops -> SUBSET Facts]
  BY <1>2, CommitFacts DEF R
<1>4. RecStep
  BY <1>2, <1>3 DEF RecStep, Edge
<1> QED
  BY <1>2, <1>3, <1>4 DEF R

\* A call reads the record it will retarget its outcome on.
LEMMA SeenFacts ==
  ASSUME TypeOK, NEW w \in Workers, NEW r \in Records,
         task' = [task EXCEPT ![w] = [@ EXCEPT !.pc = "retarget", !.seen = r]]
  PROVE  /\ task' \in [Workers -> Tasks] /\ task'[w].pc = "retarget" /\ task'[w].seen = r
         /\ task'[w].op = task[w].op /\ task'[w].cap = task[w].cap
         /\ \A v \in Workers \ {w} : task'[v] = task[v]
<1> DEFINE T == [task[w] EXCEPT !.pc = "retarget", !.seen = r]
<1>1. task[w] \in Tasks /\ "retarget" \in PCs /\ task \in [Workers -> Tasks]
  BY DEF TypeOK, PCs
<1>2. /\ T \in Tasks /\ T.pc = "retarget" /\ T.seen = r /\ T.op = task[w].op
      /\ T.cap = task[w].cap
  BY <1>1 DEF Tasks
<1>3. task' = [task EXCEPT ![w] = T]
  OBVIOUS
<1> QED
  BY <1>1, <1>2, <1>3

\* record_external_operation_outcome.
LEMMA RecordDbStep ==
  ASSUME CoreInv, NEW w \in Workers, RecordDb(w)
  PROVE  CoreInv' /\ OneMove
<1> DEFINE t == cancellation_aware_outcome(Rec(w), task[w].want)
           answer == transition_external_operation(Rec(w), Ticket(w).version, t)
<1>0. /\ TypeOK /\ TaskWell(w) /\ task[w].pc = "record" /\ ticket[w] # None
      /\ task[w].op \in Ops /\ rec[task[w].op] # None /\ Rec(w) \in Records
  BY DEF CoreInv, CallersWell, RecordDb, At, TaskWell, Holding, TypeOK, Rec
<1>1. task[w].pc \in Holding
  BY <1>0 DEF Holding
<1>2. UNCHANGED <<boot, quarantine, sends, ledger, fault, files, latch, db, used, reported, acked, stray>>
  BY DEF RecordDb
<1>3. overlaid' \subseteq Ops
  BY <1>0 DEF RecordDb, TypeOK
<1>4. ASSUME TableType', MemType'
      PROVE  TypeOK'
  BY <1>0, <1>2, <1>3, <1>4 DEF TypeOK, TableType, MemType
<1>5. CASE answer = "committed" /\ commit(task[w].op, next_record(Rec(w), t)) /\ Adopt(w, next_record(Rec(w), t))
  <2> HIDE DEF t
  <2>0. /\ allows_transition_to(rec[task[w].op].state, t)
        /\ commit(task[w].op, next_record(rec[task[w].op], t))
    BY <1>5 DEF Rec, transition_external_operation, validate_external_transition
  <2>1. /\ RecStep /\ \A p \in Ops : p # task[w].op => rec'[p] = rec[p]
        /\ rec' \in [Ops -> Records \cup {None}] /\ events' \in [Ops -> SUBSET Facts]
        /\ next_record(Rec(w), t) \in Records /\ rec'[task[w].op] = next_record(Rec(w), t)
    BY <1>0, <2>0, TransitionFacts DEF Rec
  <2>2. /\ MemType' /\ OthersKept(w) /\ ticket'[w] # None
        /\ task'[w].op = task[w].op /\ task'[w].cap = task[w].cap
        /\ task'[w].pc = IF is_terminal(next_record(Rec(w), t).state) THEN "confirm" ELSE "sent"
    BY <1>1, <1>5, <2>1, AdoptFacts
  <2>3. TypeOK'
    BY <1>0, <1>2, <1>4, <2>1, <2>2 DEF TableType, TypeOK
  <2>4. CallersWell' /\ RowsWell' /\ BootWell'
    BY <1>1, <1>2, <2>1, <2>2, HeldFrame DEF Holding
  <2>5. OneMove
    BY <1>0, <2>1 DEF OneMove
  <2> QED
    BY <2>3, <2>4, <2>5 DEF CoreInv
<1>s. UNCHANGED rec => OneMove
  BY <1>0 DEF OneMove, RecStep
<1>6. CASE Adopt(w, Rec(w)) /\ UNCHANGED <<rec, events>>
  <2>2. /\ MemType' /\ OthersKept(w) /\ ticket'[w] # None
        /\ task'[w].op = task[w].op /\ task'[w].cap = task[w].cap
        /\ task'[w].pc = IF is_terminal(Rec(w).state) THEN "confirm" ELSE "sent"
    BY <1>0, <1>1, <1>6, AdoptFacts
  <2>3. TypeOK'
    BY <1>0, <1>2, <1>4, <1>6, <2>2 DEF TableType, TypeOK
  <2>4. CallMoves(w)
    BY <1>1, <1>2, <1>6, <2>2, HeldMoves DEF Holding, Closed, Rec
  <2> QED
    BY <1>s, <1>6, <2>3, <2>4, CallFrame DEF CoreInv
<1>7. CASE /\ task' = [task EXCEPT ![w] = [@ EXCEPT !.pc = "retarget", !.seen = Rec(w)]]
           /\ UNCHANGED <<rec, events, ticket>>
  <2>1. /\ task' \in [Workers -> Tasks] /\ task'[w].pc = "retarget" /\ task'[w].seen = Rec(w)
        /\ task'[w].op = task[w].op /\ task'[w].cap = task[w].cap /\ OthersKept(w)
    BY <1>0, <1>7, SeenFacts DEF OthersKept
  <2>3. TypeOK'
    BY <1>0, <1>2, <1>4, <1>7, <2>1 DEF TableType, MemType, TypeOK
  <2>4. CallMoves(w)
    BY <1>0, <1>1, <1>2, <1>7, <2>1, HeldMoves DEF Holding
  <2> QED
    BY <1>s, <1>7, <2>3, <2>4, CallFrame DEF CoreInv
<1>8. CASE Goto(w, "look") /\ UNCHANGED <<rec, events, ticket>>
  <2>1. CallMoves(w) /\ MemType'
    BY <1>0, <1>1, <1>2, <1>8, GotoMoves DEF PCs, Holding
  <2>2. TypeOK'
    BY <1>0, <1>2, <1>4, <1>8, <2>1 DEF TableType, TypeOK
  <2> QED
    BY <1>s, <1>8, <2>1, <2>2, CallFrame DEF CoreInv
<1> QED
  BY <1>5, <1>6, <1>7, <1>8 DEF RecordDb

\* The read after an illegal edge.
LEMMA LookStep ==
  ASSUME CoreInv, NEW w \in Workers, Look(w)
  PROVE  CoreInv'
<1>0. /\ TypeOK /\ TaskWell(w) /\ task[w].pc = "look" /\ ticket[w] # None /\ Rec(w) \in Records
  BY DEF CoreInv, CallersWell, Look, At, TaskWell, Holding, TypeOK, Rec
<1>1. CASE Return(w)
  <2>1. CallMoves(w)
    BY <1>0, <1>1, HeldMoves, ReturnFacts DEF Look, durable, history, OthersKept, Holding
  <2>2. TypeOK'
    BY <1>0, <1>1, ReturnFacts DEF Look, TypeOK, durable, history
  <2> QED
    BY <2>1, <2>2, CallFrame DEF CoreInv
<1>2. CASE task' = [task EXCEPT ![w] = [@ EXCEPT !.pc = "retarget", !.seen = Rec(w)]]
  <2>1. /\ task' \in [Workers -> Tasks] /\ task'[w].pc = "retarget" /\ task'[w].seen = Rec(w)
        /\ task'[w].op = task[w].op /\ task'[w].cap = task[w].cap /\ OthersKept(w)
    BY <1>0, <1>2, SeenFacts DEF Look, OthersKept
  <2>3. TypeOK'
    BY <1>0, <2>1 DEF Look, TypeOK, durable, history
  <2>4. CallMoves(w)
    BY <1>0, <2>1, HeldMoves DEF Look, durable, history, Holding
  <2> QED
    BY <2>3, <2>4, CallFrame DEF CoreInv
<1> QED
  BY <1>1, <1>2 DEF Look

\* retarget_outcome.
LEMMA RetargetStep ==
  ASSUME CoreInv, NEW w \in Workers, Retarget(w)
  PROVE  CoreInv' /\ OneMove
<1> DEFINE r == task[w].seen
           t == cancellation_aware_outcome(r, task[w].want)
           answer == transition_external_operation(Rec(w), r.version, t)
<1>0. /\ TypeOK /\ TaskWell(w) /\ EffectOf(w) /\ task[w].pc = "retarget" /\ ticket[w] # None
      /\ task[w].op \in Ops /\ rec[task[w].op] # None /\ Rec(w) \in Records
  BY DEF CoreInv, CallersWell, Retarget, At, TaskWell, Holding, TypeOK, Rec
<1>1. task[w].pc \in Holding /\ r \in Records
  BY <1>0 DEF Holding, TaskWell, TypeOK, Tasks
<1>2. UNCHANGED <<ledger, fault, files, quarantine, latch, boot, db, used, history>>
  BY DEF Retarget
<1>4. ASSUME TableType', MemType'
      PROVE  TypeOK'
  BY <1>0, <1>2, <1>4 DEF TypeOK, TableType, MemType, history
<1>5. CASE answer = "committed" /\ commit(task[w].op, next_record(Rec(w), t)) /\ Adopt(w, next_record(Rec(w), t))
  <2> HIDE DEF t
  <2>0. /\ allows_transition_to(rec[task[w].op].state, t)
        /\ commit(task[w].op, next_record(rec[task[w].op], t))
    BY <1>5 DEF Rec, transition_external_operation, validate_external_transition
  <2>1. /\ RecStep /\ \A p \in Ops : p # task[w].op => rec'[p] = rec[p]
        /\ rec' \in [Ops -> Records \cup {None}] /\ events' \in [Ops -> SUBSET Facts]
        /\ next_record(Rec(w), t) \in Records /\ rec'[task[w].op] = next_record(Rec(w), t)
    BY <1>0, <2>0, TransitionFacts DEF Rec
  <2>2. /\ MemType' /\ OthersKept(w) /\ ticket'[w] # None
        /\ task'[w].op = task[w].op /\ task'[w].cap = task[w].cap
        /\ task'[w].pc = IF is_terminal(next_record(Rec(w), t).state) THEN "confirm" ELSE "sent"
    BY <1>1, <1>5, <2>1, AdoptFacts
  <2>3. TypeOK'
    BY <1>0, <1>2, <1>4, <2>1, <2>2 DEF TableType, TypeOK
  <2>4. CallersWell' /\ RowsWell' /\ BootWell'
    BY <1>1, <1>2, <2>1, <2>2, HeldFrame DEF Holding, history
  <2>5. OneMove
    BY <1>0, <2>1 DEF OneMove
  <2> QED
    BY <2>3, <2>4, <2>5 DEF CoreInv
<1>s. UNCHANGED rec => OneMove
  BY <1>0 DEF OneMove, RecStep
<1>6. ASSUME NEW a \in Records, is_terminal(a.state) => Closed(task[w].op),
             Adopt(w, a), UNCHANGED <<rec, events>>
      PROVE  CoreInv' /\ OneMove
  <2>2. /\ MemType' /\ OthersKept(w) /\ ticket'[w] # None
        /\ task'[w].op = task[w].op /\ task'[w].cap = task[w].cap
        /\ task'[w].pc = IF is_terminal(a.state) THEN "confirm" ELSE "sent"
    BY <1>1, <1>6, AdoptFacts
  <2>3. TypeOK'
    BY <1>0, <1>2, <1>4, <1>6, <2>2 DEF TableType, TypeOK
  <2>4. CallMoves(w)
    BY <1>1, <1>2, <1>6, <2>2, HeldMoves DEF Holding, history
  <2> QED
    BY <1>s, <1>6, <2>3, <2>4, CallFrame DEF CoreInv
<1>7. CASE Adopt(w, r) /\ UNCHANGED <<rec, events>>
  <2>1. is_terminal(r.state) => Closed(task[w].op)
    BY <1>0 DEF EffectOf
  <2> QED
    BY <1>1, <1>6, <1>7, <2>1
<1>8. CASE Adopt(w, Rec(w)) /\ UNCHANGED <<rec, events>>
  <2>1. is_terminal(Rec(w).state) => Closed(task[w].op)
    BY DEF Closed, Rec
  <2> QED
    BY <1>0, <1>6, <1>8, <2>1
<1>9. CASE Return(w) /\ UNCHANGED <<rec, events, ticket>>
  <2>1. CallMoves(w)
    BY <1>0, <1>1, <1>2, <1>9, HeldMoves, ReturnFacts DEF history, OthersKept, Holding
  <2>2. TypeOK'
    BY <1>0, <1>2, <1>4, <1>9, ReturnFacts DEF TypeOK, TableType, MemType
  <2> QED
    BY <1>s, <1>9, <2>1, <2>2, CallFrame DEF CoreInv
<1> QED
  BY <1>5, <1>7, <1>8, <1>9 DEF Retarget

\* write_fallback, or retain_unresolved.
LEMMA FallbackStep ==
  ASSUME CoreInv, NEW w \in Workers, Fallback(w)
  PROVE  CoreInv' /\ FilesStay
<1> DEFINE c == task[w].cap
           i == 1 - Ticket(w).active
           f == [version |-> Ticket(w).version + 1, state |-> task[w].want]
<1>0. /\ TypeOK /\ TaskWell(w) /\ task[w].pc = "record" /\ ticket[w] # None /\ ticket[w] \in Tickets
      /\ task[w].op \in Ops /\ c \in Capsules /\ quarantine = {}
  BY DEF CoreInv, CallersWell, Fallback, At, TaskWell, Holding, TypeOK, BootWell
<1>1. /\ task' \in [Workers -> Tasks] /\ task'[w].pc = "sent" /\ task'[w].op = task[w].op
      /\ task'[w].cap = task[w].cap /\ \A v \in Workers \ {w} : task'[v] = task[v]
  BY <1>0, ReturnFacts DEF Fallback
<1>2. i \in {0, 1} /\ Ticket(w).version + 1 \in Nat
  BY <1>0 DEF Ticket, Tickets
<1>3. chain_open(w) => f \in Facts
  BY <1>2, EdgeFacts DEF chain_open, Facts
<1> HIDE DEF i, f
<1>4. ASSUME NEW g \in Facts \cup {Blank}, Present(c), files' = [files EXCEPT ![c].slots[i] = g]
      PROVE  FileType' /\ FilesStay
  <2> DEFINE S == [files[c].slots EXCEPT ![i] = g]
             F == [files[c] EXCEPT !.slots = S]
  <2>1. files[c] \in Contents
    BY <1>0, <1>4 DEF TypeOK, Present
  <2>2. S \in [{0, 1} -> Facts \cup {Blank}]
    BY <1>2, <2>1 DEF Contents
  <2>3. F \in Contents
    BY <2>1, <2>2 DEF Contents
  <2>4. files' = [files EXCEPT ![c] = F]
    BY <1>4
  <2> QED
    BY <1>0, <2>3, <2>4, NoneAssumption DEF Fallback, TypeOK, FileType, FilesStay
<1>5. FileType' /\ FilesStay
  <2>1. CASE chain_open(w) /\ Present(c) /\ files' = [files EXCEPT ![c].slots[i] = f]
    BY <1>3, <1>4, <2>1
  <2>2. CASE Present(c) /\ files' = [files EXCEPT ![c].slots[i] = Blank]
    BY <1>4, <2>2
  <2>3. CASE files' = files
    BY <1>0, <2>3 DEF Fallback, TypeOK, FileType, FilesStay
  <2> QED
    BY <2>1, <2>2, <2>3 DEF Fallback, i, f
<1>6. /\ ticket' \in [Workers -> Tickets \cup {None}] /\ ticket'[w] # None
      /\ \A v \in Workers \ {w} : ticket'[v] = ticket[v]
  <2>1. CASE ticket' = ticket
    BY <1>0, <2>1 DEF TypeOK
  <2>2. CASE /\ chain_open(w)
             /\ ticket' = [ticket EXCEPT ![w] = [@ EXCEPT !.version = f.version,
                                                          !.state = f.state, !.active = i]]
    <3> DEFINE K == [ticket[w] EXCEPT !.version = f.version, !.state = f.state, !.active = i]
    <3>1. f.version \in Nat /\ f.state \in States
      BY <1>3, <2>2 DEF Facts
    <3>2. K \in Tickets
      BY <1>0, <1>2, <3>1 DEF Tickets
    <3>3. ticket' = [ticket EXCEPT ![w] = K]
      BY <2>2
    <3> HIDE DEF K
    <3> QED
      BY <1>0, <3>2, <3>3, NoneAssumption DEF TypeOK
  <2> QED
    BY <2>1, <2>2 DEF Fallback, i, f
<1>7. fault' \in BOOLEAN /\ latch' \in BOOLEAN
  BY <1>0 DEF Fallback, Latch, TypeOK
<1>8. used' \in [outages : 0..MaxOutages, spool : 0..MaxSpoolFaults, crashes : 0..MaxCrashes]
  BY <1>0, SpoolFaultType DEF Fallback, TypeOK
<1>9. reported' \in [Ops -> SUBSET Facts]
  <2>1. CASE reported' = reported
    BY <1>0, <2>1 DEF TypeOK
  <2>2. CASE chain_open(w) /\ reported' = [reported EXCEPT ![task[w].op] = @ \cup {f}]
    BY <1>0, <1>3, <2>2 DEF TypeOK
  <2> QED
    BY <2>1, <2>2 DEF Fallback, f
<1>10. acked' \subseteq Ops
  BY <1>0 DEF Fallback, TypeOK
<1>11. RestType' /\ TableType' /\ MemType'
  BY <1>0, <1>1, <1>6, <1>7, <1>8, <1>9, <1>10
     DEF Fallback, TypeOK, RestType, TableType, MemType
<1>12. CallMoves(w)
  BY <1>0, <1>1, <1>6, HeldMoves DEF Fallback, OthersKept, Holding
<1> QED
  BY <1>5, <1>11, <1>12, TypeParts, CallFrame DEF CoreInv

-----------------------------------------------------------------------------
(* confirm_and_release, request_cancellation, expire_prepared *)

\* The file of a closed operation goes.
LEMMA ConfirmStep ==
  ASSUME CoreInv, NEW w \in Workers, Confirm(w)
  PROVE  CoreInv'
<1>0. /\ TypeOK /\ TaskWell(w) /\ task[w].pc = "confirm" /\ quarantine = {} /\ Closed(task[w].op)
  BY DEF CoreInv, CallersWell, Confirm, At, TaskWell, BootWell, EffectOf
<1>1. CallMoves(w) /\ MemType'
  <2>1. CASE End(w)
    BY <1>0, <2>1, EndMoves DEF Confirm, history
  <2>2. CASE Goto(w, "release") /\ ticket' = ticket
    BY <1>0, <2>2, GotoMoves DEF Confirm, history, PCs
  <2> QED
    BY <2>1, <2>2 DEF Confirm
<1>2. FileType'
  BY <1>0, RemoveFacts DEF Confirm, TypeOK, FileType
<1>3. RestType' /\ TableType'
  BY <1>0, RemoveFacts DEF Confirm, TypeOK, RestType, TableType, history
<1> QED
  BY <1>1, <1>2, <1>3, TypeParts, CallFrame DEF CoreInv

\* Then its row.
LEMMA ReleaseStep ==
  ASSUME CoreInv, NEW w \in Workers, Release(w)
  PROVE  CoreInv'
<1>0. TypeOK /\ TaskWell(w) /\ task[w].pc = "release"
  BY DEF CoreInv, CallersWell, Release, At
<1>1. /\ ledger' \in [Ops -> Capsules \cup {None}]
      /\ \A o \in Ops : ledger'[o] \in {ledger[o], None}
  BY <1>0 DEF Release, TypeOK
<1>2. CallMoves(w) /\ MemType'
  BY <1>0, <1>1, EndMoves DEF Release, history
<1>3. TypeOK'
  BY <1>0, <1>1, <1>2 DEF Release, TypeOK, MemType, history
<1> QED
  BY <1>2, <1>3, CallFrame DEF CoreInv

\* The consumer is done, or its future is dropped.
LEMMA DropStep ==
  ASSUME CoreInv, NEW w \in Workers, Drop(w)
  PROVE  CoreInv'
<1>1. CallMoves(w) /\ MemType'
  BY EndMoves DEF Drop, At, durable, history
<1>2. TypeOK'
  BY <1>1 DEF CoreInv, Drop, TypeOK, MemType, durable, history
<1> QED
  BY <1>1, <1>2, CallFrame DEF CoreInv

\* expire_prepared.
LEMMA ExpireStep ==
  ASSUME CoreInv, NEW w \in Workers, NEW o \in Ops, Expire(w, o)
  PROVE  CoreInv' /\ OneMove
<1> DEFINE R == next_record(rec[o], "expired")
           T == [Idle EXCEPT !.pc = "confirm", !.op = o]
<1>0. /\ TypeOK /\ Running /\ task[w].pc = "idle" /\ ticket[w] = None
      /\ rec[o] # None /\ rec[o].state = "prepared" /\ rec[o] \in Records
  BY DEF CoreInv, CallersWell, TaskWell, Expire, At, Holding, TypeOK
<1>1. R \in Records /\ R.state = "expired"
  BY <1>0, NextFacts DEF States
<1>2. allows_transition_to("prepared", "expired")
  BY DEF allows_transition_to, LegalEdges
<1>3. commit(o, R)
  BY DEF Expire
<1> HIDE DEF R
<1>4. /\ rec' \in [Ops -> Records \cup {None}] /\ events' \in [Ops -> SUBSET Facts]
      /\ rec'[o] = R /\ R # None /\ \A p \in Ops : p # o => rec'[p] = rec[p]
  BY <1>0, <1>1, <1>3, CommitFacts
<1>5. RecStep /\ \A p \in Ops : rec'[p] = rec[p] \/ May(w, p)
  BY <1>0, <1>1, <1>2, <1>3, CommitMoves
<1>6. "confirm" \in PCs
  BY DEF PCs
<1>7. T \in Tasks /\ T.pc = "confirm" /\ T.op = o
  BY <1>6, IdleFacts DEF Tasks
<1>8. task' \in [Workers -> Tasks] /\ task'[w] = T /\ OthersKept(w)
  BY <1>0, <1>7 DEF Expire, TypeOK, OthersKept
<1>9. TypeOK'
  BY <1>0, <1>4, <1>8 DEF Expire, TypeOK, history
<1>10. StepOf(w)
  BY <1>0, <1>5, <1>7, <1>8 DEF StepOf, Expire, history, Committed, Holding
<1>11. TaskWell(w)'
  BY <1>0, <1>4, <1>7, <1>8 DEF TaskWell, Expire, Rec, Running, Early, Committed, Holding
<1>12. EffectOf(w)'
  BY <1>1, <1>4, <1>7, <1>8 DEF EffectOf, Rec, Closed, is_terminal, TerminalStates, Committed, Holding
<1>13. OneMove
  BY <1>4, <1>5 DEF OneMove
<1> QED
  BY <1>9, <1>10, <1>11, <1>12, <1>13, WorkerFrame DEF CoreInv

\* request_cancellation.
LEMMA CancelStep ==
  ASSUME CoreInv, NEW w \in Workers, NEW o \in Ops, Cancel(w, o)
  PROVE  CoreInv' /\ OneMove
<1> DEFINE r == rec[o]
           t == IF r.state = "prepared" THEN "cancelled" ELSE "cancellation_requested"
           n == moved(r, t, r.version + 1, TRUE)
           done == is_terminal(r.state) \/ r.cancel
           after == IF done THEN r ELSE n
<1>0. /\ TypeOK /\ Running /\ r # None /\ r \in Records /\ TaskWell(w) /\ EffectOf(w)
      /\ task[w].pc = "idle" \/ (task[w].pc = "sent" /\ task[w].op = o)
  BY DEF CoreInv, CallersWell, Cancel, At, TypeOK
<1>1. t \in States /\ r.version + 1 \in Nat
  BY <1>0 DEF States, Records
<1> HIDE DEF t
<1>2. n \in Records /\ n.state = t
  BY <1>1, <1>0, MovedFacts
<1> USE DEF t
<1>3. /\ RecStep /\ \A p \in Ops : rec'[p] = rec[p] \/ May(w, p)
      /\ rec' \in [Ops -> Records \cup {None}] /\ events' \in [Ops -> SUBSET Facts]
      /\ rec'[o] = after
  <2>1. CASE done
    BY <1>0, <2>1 DEF Cancel, RecStep, TypeOK
  <2>2. CASE ~done
    <3>1. commit(o, n)
      BY <2>2 DEF Cancel
    <3>2. n.state = r.state \/ allows_transition_to(r.state, n.state)
      BY <1>0, <1>2, <2>2 DEF allows_transition_to, LegalEdges, is_terminal, TerminalStates,
                              Records, States
    <3>3. r.state = "prepared" \/ n.state = "cancellation_requested"
      BY <1>2
    <3> HIDE DEF n
    <3>4. RecStep /\ \A p \in Ops : rec'[p] = rec[p] \/ May(w, p)
      BY <1>0, <1>2, <3>1, <3>2, <3>3, CommitMoves
    <3>5. /\ rec' \in [Ops -> Records \cup {None}] /\ events' \in [Ops -> SUBSET Facts]
          /\ rec'[o] = n
      BY <1>0, <1>2, <3>1, CommitFacts
    <3> QED
      BY <2>2, <3>4, <3>5
  <2> QED
    BY <2>1, <2>2
<1> HIDE DEF t, n, done
<1>4. rec'[o] # None /\ after \in Records
  BY <1>0, <1>2, <1>3, NoneAssumption
<1>5. acked' \subseteq Ops
  BY <1>0 DEF Cancel, TypeOK
<1>6. ASSUME task[w].pc = "idle"
      PROVE  CoreInv'
  <2>1. ticket' = ticket /\ ticket[w] = None
    BY <1>0, <1>6 DEF Cancel, At, TaskWell, Holding
  <2>2. CASE task' = task
    <3>1. TypeOK'
      BY <1>0, <1>3, <1>5, <2>1, <2>2 DEF Cancel, TypeOK
    <3>2. StepOf(w)
      BY <1>0, <1>3, <1>6, <2>1, <2>2 DEF StepOf, OthersKept, Cancel, Committed, Holding
    <3>3. TaskWell(w)' /\ EffectOf(w)'
      BY <1>0, <1>6, <2>1, <2>2 DEF TaskWell, EffectOf, Early, Committed, Holding
    <3> QED
      BY <3>1, <3>2, <3>3, WorkerFrame DEF CoreInv
  <2>3. CASE /\ is_terminal(after.state)
             /\ task' = [task EXCEPT ![w] = [@ EXCEPT !.pc = "confirm", !.op = o]]
    <3> DEFINE T == [task[w] EXCEPT !.pc = "confirm", !.op = o]
    <3>1. task[w] \in Tasks /\ "confirm" \in PCs
      BY <1>0 DEF TypeOK, PCs
    <3>2. T \in Tasks /\ T.pc = "confirm" /\ T.op = o
      BY <3>1 DEF Tasks
    <3>3. task' \in [Workers -> Tasks] /\ task'[w] = T /\ OthersKept(w)
      BY <1>0, <2>1, <2>3, <3>2 DEF TypeOK, OthersKept
    <3> HIDE DEF T
    <3>4. TypeOK'
      BY <1>0, <1>3, <1>5, <2>1, <3>3 DEF Cancel, TypeOK
    <3>5. StepOf(w)
      BY <1>0, <1>3, <3>2, <3>3 DEF StepOf, Cancel, Committed, Holding
    <3>6. TaskWell(w)'
      BY <1>0, <1>4, <2>1, <3>2, <3>3 DEF TaskWell, Cancel, Rec, Running, Early, Committed, Holding
    <3>7. EffectOf(w)'
      BY <1>3, <2>3, <3>2, <3>3 DEF EffectOf, Rec, Closed, Committed, Holding
    <3> QED
      BY <3>4, <3>5, <3>6, <3>7, WorkerFrame DEF CoreInv
  <2> QED
    BY <2>2, <2>3 DEF Cancel, t, n, done
<1>7. ASSUME task[w].pc = "sent", task[w].op = o
      PROVE  CoreInv'
  <2> DEFINE K == [ticket[w] EXCEPT !.cancel = TRUE]
  <2>1. ticket[w] \in Tickets /\ ticket' = [ticket EXCEPT ![w].cancel = TRUE] /\ task[w].pc \in Holding
    BY <1>0, <1>7 DEF Cancel, At, TaskWell, Holding, TypeOK
  <2>2. K \in Tickets
    BY <2>1 DEF Tickets
  <2>3. ticket' = [ticket EXCEPT ![w] = K]
    BY <2>1
  <2> HIDE DEF K
  <2>4. /\ ticket' \in [Workers -> Tickets \cup {None}] /\ ticket'[w] # None
        /\ \A v \in Workers \ {w} : ticket'[v] = ticket[v]
    BY <1>0, <2>2, <2>3, NoneAssumption DEF TypeOK
  <2>5. /\ task' \in [Workers -> Tasks] /\ \A v \in Workers \ {w} : task'[v] = task[v]
        /\ task'[w].op = task[w].op /\ task'[w].cap = task[w].cap
        /\ task'[w].pc = "sent" \/ (task'[w].pc = "confirm" /\ is_terminal(after.state))
    <3>1. CASE task' = task
      BY <1>0, <1>7, <3>1 DEF TypeOK
    <3>2. CASE /\ is_terminal(after.state)
               /\ task' = [task EXCEPT ![w] = [@ EXCEPT !.pc = "confirm", !.op = o]]
      <4> DEFINE T == [task[w] EXCEPT !.pc = "confirm", !.op = o]
      <4>1. task[w] \in Tasks /\ "confirm" \in PCs
        BY <1>0 DEF TypeOK, PCs
      <4>2. T \in Tasks /\ T.pc = "confirm" /\ T.op = o /\ T.cap = task[w].cap
        BY <4>1 DEF Tasks
      <4>3. task' \in [Workers -> Tasks] /\ task'[w] = T /\ \A v \in Workers \ {w} : task'[v] = task[v]
        BY <1>0, <3>2, <4>2 DEF TypeOK
      <4> QED
        BY <1>7, <3>2, <4>2, <4>3
    <3> QED
      BY <3>1, <3>2 DEF Cancel, t, n, done
  <2>6. TypeOK'
    BY <1>0, <1>3, <1>5, <2>4, <2>5 DEF Cancel, TypeOK
  <2>7. \A p \in Ops : p # o => rec'[p] = rec[p]
    BY <1>0 DEF Cancel, commit, TypeOK
  <2>8. CallersWell' /\ RowsWell' /\ BootWell'
    BY <1>3, <1>7, <2>1, <2>4, <2>5, <2>7, HeldFrame DEF Cancel, OthersKept, Holding
  <2> QED
    BY <2>6, <2>8 DEF CoreInv
<1>8. OneMove
  <2>1. \A p \in Ops : p # o => rec'[p] = rec[p]
    BY <1>0 DEF Cancel, commit, TypeOK
  <2> QED
    BY <1>3, <2>1 DEF OneMove
<1> QED
  BY <1>0, <1>6, <1>7, <1>8

-----------------------------------------------------------------------------
(* start_at *)

\* Before the journal is published nobody calls it.
LEMMA BootFrame ==
  ASSUME CoreInv, ~Running, UNCHANGED <<task, ticket, sends>>, RecStep
  PROVE  CallersWell'
<1>1. \A w \in Workers : task[w].pc = "idle" /\ ticket[w] = None /\ task[w] = Idle
  BY DEF CoreInv, CallersWell, TaskWell, Holding
<1>2. \A o \in Ops : Kept(o)
  BY RecStepKeeps DEF CoreInv
<1>3. \A w \in Workers : TaskWell(w)' /\ EffectOf(w)'
  BY <1>1 DEF TaskWell, EffectOf, Early, Committed, Holding
<1>4. Unsent'
  BY <1>2 DEF Unsent, Kept, CoreInv, CallersWell
<1>5. OneCaller'
  BY <1>1 DEF OneCaller, Committed, Holding
<1> QED
  BY <1>3, <1>4, <1>5 DEF CallersWell

\* On to the next reservation.
LEMMA BootNextFacts ==
  ASSUME TypeOK, BootNext
  PROVE  /\ boot' \in Boots /\ boot'.pc = "scan" /\ boot'.op = None
         /\ boot'.todo = boot.todo \ {boot.op} /\ boot'.chain = <<>> /\ boot'.known = boot.known
<1>1. "scan" \in BootPCs /\ <<>> \in Seq(Facts)
  BY DEF BootPCs
<1> QED
  BY <1>1 DEF BootNext, TypeOK, Boots

\* Only the step of recovery changes.
LEMMA BootGotoFacts ==
  ASSUME TypeOK, NEW pc \in BootPCs, BootGoto(pc)
  PROVE  /\ boot' \in Boots /\ boot'.pc = pc /\ boot'.op = boot.op /\ boot'.todo = boot.todo
         /\ boot'.chain = boot.chain /\ boot'.known = boot.known
  BY DEF BootGoto, TypeOK, Boots

\* The list of reservations.
LEMMA BootListStep ==
  ASSUME CoreInv, BootList
  PROVE  CoreInv'
<1>0. TypeOK /\ boot.pc = "list" /\ ~Running /\ boot.op = None
  BY DEF CoreInv, BootWell, BootList, Scanning, Running
<1>1. /\ boot' \in Boots /\ boot'.pc = "scan" /\ boot'.op = boot.op
      /\ boot'.todo = {o \in Ops : ledger[o] # None}
  <2>1. {ledger[o] : o \in Ops} \ {None} \subseteq Capsules /\ "scan" \in BootPCs
    BY <1>0 DEF TypeOK, BootPCs
  <2> QED
    BY <1>0, <2>1 DEF BootList, TypeOK, Boots
<1>2. TypeOK'
  BY <1>0, <1>1 DEF BootList, TypeOK, durable, history
<1>3. CallersWell'
  BY <1>0, BootFrame DEF BootList, durable, history, RecStep
<1>4. RowsWell' /\ BootWell'
  BY <1>0, <1>1 DEF BootList, durable, CoreInv, RowsWell, BootWell, PerOp, Running
<1> QED
  BY <1>2, <1>3, <1>4 DEF CoreInv

\* One reservation of the scan.
LEMMA BootScanStep ==
  ASSUME CoreInv, NEW o \in Ops, BootScan(o)
  PROVE  CoreInv'
<1> DEFINE c == ledger[o]
<1>0. TypeOK /\ boot.pc = "scan" /\ ~Running /\ boot.op = None /\ o \in boot.todo
  BY DEF CoreInv, BootWell, BootScan, Scanning, Running
<1>1. c # None /\ c \in Capsules /\ rec[o] # None
  BY <1>0, OpsAssumption DEF CoreInv, BootWell, RowsWell, TypeOK
<1>2. CallersWell'
  BY <1>0, BootFrame DEF BootScan, history, RecStep
<1>3. \A p \in Ops : ledger'[p] = ledger[p] \/ (p = o /\ ledger'[p] = None)
  BY <1>0 DEF BootScan, TypeOK
<1>4. RowsWell' /\ ledger' \in [Ops -> Capsules \cup {None}]
  BY <1>0, <1>3 DEF BootScan, CoreInv, RowsWell, TypeOK
<1>5. FileType'
  BY <1>0, <1>1 DEF BootScan, TypeOK, FileType, Present
<1>r. rec' = rec /\ boot.todo \subseteq Ops /\ \A p \in boot.todo : ledger[p] # None
  BY <1>0, OpsAssumption DEF BootScan, TypeOK, Boots, CoreInv, BootWell
<1>6. ASSUME NEW pc \in {"convert", "reclaim", "flag"}, boot' = [boot EXCEPT !.pc = pc, !.op = o]
      PROVE  boot' \in Boots /\ BootWell'
  <2>1. boot' \in Boots /\ boot'.pc = pc /\ boot'.op = o /\ boot'.todo = boot.todo
    BY <1>0, <1>6 DEF TypeOK, Boots, BootPCs
  <2> QED
    BY <1>1, <1>3, <1>6, <1>r, <2>1 DEF BootWell, PerOp, Running
<1>7. ASSUME Present(c), NEW chain \in authentic_slots(c) \ {<<>>}, ledger' = ledger, files' = files,
             quarantine' = quarantine,
             boot' = [boot EXCEPT !.pc = "import", !.op = o, !.chain = chain]
      PROVE  boot' \in Boots /\ BootWell'
  <2>1. chain \in Seq(Facts) /\ "import" \in BootPCs
    BY <1>0, <1>1, <1>7, AuthenticType DEF Present, BootPCs
  <2> HIDE DEF c
  <2>2. /\ boot' \in Boots /\ boot'.pc = "import" /\ boot'.op = o /\ boot'.todo = boot.todo
        /\ boot'.chain = chain
    BY <1>0, <1>7, <2>1 DEF TypeOK, Boots
  <2> QED
    BY <1>1, <1>7, <1>r, <2>2 DEF BootWell, PerOp, Running, c, Present
<1>8. boot' \in Boots /\ BootWell'
  BY <1>6, <1>7 DEF BootScan
<1>9. TypeOK'
  BY <1>0, <1>4, <1>5, <1>8 DEF BootScan, TypeOK, FileType, history
<1> QED
  BY <1>2, <1>4, <1>8, <1>9 DEF CoreInv

\* The row of a reclaimed capsule goes; the same for BootFree.
LEMMA BootFreesRow ==
  ASSUME CoreInv, boot.pc \in {"reclaim", "free"},
         ledger' = [ledger EXCEPT ![boot.op] = None], BootNext,
         UNCHANGED <<rec, events, fault, files, quarantine, latch, task, ticket, db, used, history>>
  PROVE  CoreInv'
<1>0. TypeOK /\ ~Running /\ boot.op \in Ops
  BY DEF CoreInv, BootWell, Running, PerOp
<1>1. /\ boot' \in Boots /\ boot'.pc = "scan" /\ boot'.op = None
      /\ boot'.todo = boot.todo \ {boot.op}
  BY <1>0, BootNextFacts
<1>2. /\ ledger' \in [Ops -> Capsules \cup {None}] /\ ledger'[boot.op] = None
      /\ \A p \in Ops : p # boot.op => ledger'[p] = ledger[p]
  BY <1>0 DEF TypeOK
<1>3. TypeOK'
  BY <1>0, <1>1, <1>2 DEF TypeOK, history
<1>4. CallersWell'
  BY <1>0, BootFrame DEF history, RecStep
<1>5. boot.todo \subseteq Ops
  BY <1>0 DEF TypeOK, Boots
<1>6. RowsWell' /\ BootWell'
  BY <1>0, <1>1, <1>2, <1>5 DEF CoreInv, RowsWell, BootWell, PerOp, Running
<1> QED
  BY <1>3, <1>4, <1>6 DEF CoreInv

\* One slot of a capsule found at the restart.
LEMMA BootImportStep ==
  ASSUME CoreInv, BootImport
  PROVE  CoreInv' /\ OneMove
<1> DEFINE f == Head(boot.chain)
           rest == Tail(boot.chain)
           unreachable == import_answer(rec[boot.op], f) = "conflict"
<1>0. /\ TypeOK /\ boot.pc = "import" /\ ~Running /\ boot.op \in Ops /\ rec[boot.op] # None
      /\ boot.chain # <<>> /\ ledger[boot.op] # None /\ Present(ledger[boot.op])
  BY DEF CoreInv, BootWell, BootImport, Scanning, Running, PerOp
<1>1. boot.chain \in Seq(Facts) /\ ledger[boot.op] \in Capsules
  BY <1>0 DEF TypeOK, Boots
<1>2. f \in Facts /\ rest \in Seq(Facts)
  BY <1>0, <1>1
<1>3. /\ RecStep /\ \A p \in Ops : p # boot.op => rec'[p] = rec[p]
      /\ rec' \in [Ops -> Records \cup {None}] /\ events' \in [Ops -> SUBSET Facts]
  BY <1>0, <1>2, ImportFacts DEF BootImport
<1>4. \A o \in Ops : Kept(o)
  BY <1>0, <1>3, RecStepKeeps
<1>5. CallersWell'
  BY <1>0, <1>3, BootFrame DEF BootImport, history
<1>6. RowsWell'
  BY <1>4 DEF BootImport, CoreInv, RowsWell, Kept
<1>7. FileType'
  BY <1>0, <1>1 DEF BootImport, TypeOK, FileType, Present
<1>8. ASSUME NEW pc \in {"latch", "convert", "import"}, NEW q \in Seq(Facts),
             boot' = [boot EXCEPT !.chain = q, !.pc = pc],
             pc = "import" => q # <<>> /\ quarantine' = quarantine
      PROVE  boot' \in Boots /\ BootWell'
  <2>0. pc \in BootPCs
    BY <1>8 DEF BootPCs
  <2>1. boot' \in Boots /\ boot'.pc = pc /\ boot'.op = boot.op /\ boot'.todo = boot.todo /\ boot'.chain = q
    BY <1>0, <1>8, <2>0 DEF TypeOK, Boots
  <2> QED
    BY <1>0, <1>4, <1>8, <2>1 DEF CoreInv, BootWell, BootImport, PerOp, Running, Present, Kept
<1>9. boot' \in Boots /\ BootWell'
  <2>1. <<>> \in Seq(Facts)
    OBVIOUS
  <2>2. CASE unreachable
    BY <1>8, <2>1, <2>2 DEF BootImport
  <2>3. CASE ~unreachable /\ rest = <<>>
    BY <1>2, <1>8, <2>3 DEF BootImport
  <2>4. CASE ~unreachable /\ rest # <<>>
    BY <1>2, <1>8, <2>4 DEF BootImport
  <2> QED
    BY <2>2, <2>3, <2>4
<1>10. TypeOK'
  BY <1>0, <1>3, <1>7, <1>9 DEF BootImport, TypeOK, FileType, history
<1>11. OneMove
  BY <1>0, <1>3 DEF OneMove
<1> QED
  BY <1>5, <1>6, <1>9, <1>10, <1>11 DEF CoreInv

\* The quarantined row is flagged.
LEMMA BootFlagStep ==
  ASSUME CoreInv, BootFlag
  PROVE  CoreInv'
<1>0. TypeOK /\ boot.pc = "flag" /\ ~Running /\ boot.op \in Ops /\ rec[boot.op] # None
  BY DEF CoreInv, BootWell, BootFlag, Scanning, Running, PerOp
<1>1. boot' \in Boots /\ boot'.pc = "convert" /\ boot'.op = boot.op /\ boot'.todo = boot.todo
  BY <1>0, BootGotoFacts DEF BootFlag, BootPCs
<1>2. TypeOK'
  BY <1>0, <1>1 DEF BootFlag, TypeOK, durable, history
<1>3. CallersWell'
  BY <1>0, BootFrame DEF BootFlag, durable, history, RecStep
<1>4. RowsWell' /\ BootWell'
  BY <1>0, <1>1 DEF BootFlag, durable, CoreInv, RowsWell, BootWell, PerOp, Running
<1> QED
  BY <1>2, <1>3, <1>4 DEF CoreInv

\* Unreachable evidence is latched.
LEMMA BootLatchStep ==
  ASSUME CoreInv, BootLatch
  PROVE  CoreInv'
<1>0. TypeOK /\ boot.pc = "latch" /\ ~Running /\ boot.todo \subseteq Ops
  BY DEF CoreInv, BootLatch, Scanning, Running, TypeOK, Boots
<1>1. /\ boot' \in Boots /\ boot'.pc = "scan" /\ boot'.op = None
      /\ boot'.todo = boot.todo \ {boot.op}
  BY <1>0, BootNextFacts DEF BootLatch
<1>2. TypeOK'
  BY <1>0, <1>1 DEF BootLatch, Latch, TypeOK, history
<1>3. CallersWell'
  BY <1>0, BootFrame DEF BootLatch, history, RecStep
<1>4. RowsWell' /\ BootWell'
  BY <1>0, <1>1 DEF BootLatch, CoreInv, RowsWell, BootWell, PerOp, Running
<1> QED
  BY <1>2, <1>3, <1>4 DEF CoreInv

\* convert_dispatching_without_evidence takes the edge to `submission_unknown`.
LEMMA ConvertFacts ==
  ASSUME TypeOK, NEW o \in Ops, rec[o] # None, convert_if_dispatching(o)
  PROVE  /\ RecStep /\ \A p \in Ops : p # o => rec'[p] = rec[p]
         /\ rec' \in [Ops -> Records \cup {None}] /\ events' \in [Ops -> SUBSET Facts]
         /\ rec'[o] = rec[o] \/ rec'[o].state = "submission_unknown"
         /\ rec'[o].state # "dispatching"
<1>1. CASE rec[o].state = "dispatching"
  <2>1. allows_transition_to(rec[o].state, "submission_unknown")
    BY <1>1 DEF allows_transition_to, LegalEdges
  <2> QED
    BY <1>1, <2>1, TransitionFacts DEF convert_if_dispatching
<1>2. CASE rec[o].state # "dispatching"
  BY <1>2 DEF convert_if_dispatching, RecStep, TypeOK
<1> QED
  BY <1>1, <1>2

\* The record of a reservation that is left without evidence.
LEMMA BootConvertStep ==
  ASSUME CoreInv, BootConvert
  PROVE  CoreInv' /\ OneMove
<1>0. TypeOK /\ boot.pc = "convert" /\ ~Running /\ boot.op \in Ops /\ rec[boot.op] # None
  BY DEF CoreInv, BootWell, BootConvert, Scanning, Running, PerOp
<1>1. boot' \in Boots /\ boot'.pc = "settle" /\ boot'.op = boot.op /\ boot'.todo = boot.todo
  BY <1>0, BootGotoFacts DEF BootConvert, BootPCs
<1>2. /\ RecStep /\ \A p \in Ops : p # boot.op => rec'[p] = rec[p]
      /\ rec' \in [Ops -> Records \cup {None}] /\ events' \in [Ops -> SUBSET Facts]
  BY <1>0, ConvertFacts DEF BootConvert
<1>3. TypeOK'
  BY <1>0, <1>1, <1>2 DEF BootConvert, TypeOK, history
<1>4. CallersWell'
  BY <1>0, <1>2, BootFrame DEF BootConvert, history
<1>5. \A o \in Ops : Kept(o)
  BY <1>0, <1>2, RecStepKeeps
<1>6. RowsWell' /\ BootWell'
  BY <1>0, <1>1, <1>5 DEF BootConvert, CoreInv, RowsWell, BootWell, PerOp, Running, Kept
<1>7. OneMove
  BY <1>0, <1>2 DEF OneMove
<1> QED
  BY <1>3, <1>4, <1>6, <1>7 DEF CoreInv

\* The file of a closed operation goes at the restart.
LEMMA BootSettleStep ==
  ASSUME CoreInv, BootSettle
  PROVE  CoreInv'
<1>0. /\ TypeOK /\ boot.pc = "settle" /\ ~Running /\ boot.op \in Ops /\ rec[boot.op] # None
      /\ boot.todo \subseteq Ops
  BY DEF CoreInv, BootWell, BootSettle, Scanning, Running, PerOp, TypeOK, Boots
<1>1. FileType'
  BY <1>0, RemoveFacts DEF BootSettle, TypeOK, FileType, Present
<1>2. boot' \in Boots /\ BootWell'
  <2>1. CASE BootGoto("free")
    <3>1. boot' \in Boots /\ boot'.pc = "free" /\ boot'.op = boot.op /\ boot'.todo = boot.todo
      BY <1>0, <2>1, BootGotoFacts DEF BootPCs
    <3> QED
      BY <1>0, <3>1 DEF BootSettle, CoreInv, BootWell, PerOp, Running
  <2>2. CASE BootNext
    <3>1. /\ boot' \in Boots /\ boot'.pc = "scan" /\ boot'.op = None
          /\ boot'.todo = boot.todo \ {boot.op}
      BY <1>0, <2>2, BootNextFacts
    <3> QED
      BY <1>0, <3>1 DEF BootSettle, CoreInv, BootWell, PerOp, Running
  <2> QED
    BY <2>1, <2>2 DEF BootSettle
<1>3. TypeOK'
  BY <1>0, <1>1, <1>2, RemoveFacts DEF BootSettle, TypeOK, FileType, history
<1>4. CallersWell'
  BY <1>0, BootFrame DEF BootSettle, history, RecStep
<1>5. RowsWell'
  BY DEF BootSettle, CoreInv, RowsWell
<1> QED
  BY <1>2, <1>3, <1>4, <1>5 DEF CoreInv

\* Files that no row claims are quarantined.
LEMMA BootOrphansStep ==
  ASSUME CoreInv, BootOrphans
  PROVE  CoreInv'
<1>0. TypeOK /\ boot.pc = "scan" /\ ~Running /\ boot.todo = {}
  BY DEF CoreInv, BootOrphans, Running
<1>1. boot' \in Boots /\ boot'.pc = "gate" /\ boot'.todo = boot.todo
  BY <1>0, BootGotoFacts DEF BootOrphans, BootPCs
<1>2. FileType'
  BY <1>0 DEF BootOrphans, TypeOK, FileType
<1>3. TypeOK'
  BY <1>0, <1>1, <1>2 DEF BootOrphans, TypeOK, FileType, history
<1>4. CallersWell'
  BY <1>0, BootFrame DEF BootOrphans, history, RecStep
<1>5. RowsWell' /\ BootWell'
  BY <1>0, <1>1 DEF BootOrphans, CoreInv, RowsWell, BootWell, PerOp, Running
<1> QED
  BY <1>3, <1>4, <1>5 DEF CoreInv

\* A recovery state with nothing in it.
LEMMA OpenFacts ==
  ASSUME NEW pc \in BootPCs
  PROVE  /\ [Open EXCEPT !.pc = pc] \in Boots /\ [Open EXCEPT !.pc = pc].pc = pc
         /\ [Open EXCEPT !.pc = pc].op = None /\ [Open EXCEPT !.pc = pc].todo = {}
<1>1. Open \in Boots /\ Open.op = None /\ Open.todo = {}
  BY DEF Open, Boots, BootPCs
<1> QED
  BY <1>1 DEF Boots

\* The dispatch gate publishes the journal, or leaves it disabled.
LEMMA BootGateStep ==
  ASSUME CoreInv, BootGate
  PROVE  CoreInv'
<1>0. TypeOK /\ boot.pc = "gate" /\ ~Running
  BY DEF CoreInv, BootGate, Scanning, Running
<1>1. PICK pc \in {"open", "off"} : boot' = [Open EXCEPT !.pc = pc] /\ (pc = "open" => quarantine = {})
  BY DEF BootGate, dispatch_allowed
<1>2. boot' \in Boots /\ boot'.pc = pc /\ boot'.op = None /\ boot'.todo = {}
  BY <1>1, OpenFacts DEF BootPCs
<1>3. latch' \in BOOLEAN
  BY DEF BootGate
<1>4. TypeOK'
  BY <1>0, <1>2, <1>3 DEF BootGate, TypeOK, durable, history
<1>5. CallersWell'
  BY <1>0, BootFrame DEF BootGate, durable, history, RecStep
<1>6. RowsWell' /\ BootWell'
  BY <1>1, <1>2 DEF BootGate, durable, CoreInv, RowsWell, BootWell, PerOp, Running
<1> QED
  BY <1>4, <1>5, <1>6 DEF CoreInv

\* The database fails during recovery.
LEMMA BootFailsStep ==
  ASSUME CoreInv, BootFails
  PROVE  CoreInv'
<1>0. TypeOK /\ boot.pc # "open" /\ ~Running
  BY DEF CoreInv, BootFails, Running
<1>1. boot' \in Boots /\ boot'.pc = "off" /\ boot'.op = None /\ boot'.todo = {}
  BY OpenFacts DEF BootFails, BootPCs
<1>2. Unlisted \subseteq Ops
  BY DEF Unlisted, CoreInv, BootWell, PerOp
<1>3. TypeOK'
  BY <1>0, <1>1, <1>2 DEF BootFails, TypeOK, durable
<1>4. CallersWell'
  BY <1>0, BootFrame DEF BootFails, durable, RecStep
<1>5. RowsWell' /\ BootWell'
  BY <1>1 DEF BootFails, durable, CoreInv, RowsWell, BootWell, PerOp, Running
<1> QED
  BY <1>3, <1>4, <1>5 DEF CoreInv

-----------------------------------------------------------------------------
(* Faults, and the whole *)

\* The database goes and comes back without touching anything else.
LEMMA DbStep ==
  ASSUME CoreInv, DbFails \/ DbHeals
  PROVE  CoreInv'
<1>1. UNCHANGED <<durable, latch, task, ticket, boot, history>> /\ db' \in {"up", "down"}
  BY DEF DbFails, DbHeals
<1>2. used' \in [outages : 0..MaxOutages, spool : 0..MaxSpoolFaults, crashes : 0..MaxCrashes]
  BY LimitsAssumption DEF DbFails, DbHeals, CoreInv, TypeOK
<1>3. TypeOK'
  BY <1>1, <1>2 DEF CoreInv, TypeOK, durable, history
<1>4. CallersWell'
  BY <1>1 DEF CoreInv, CallersWell, TaskWell, EffectOf, Unsent, OneCaller, Rec, Closed, Running,
              durable, history
<1>5. RowsWell' /\ BootWell'
  BY <1>1 DEF CoreInv, RowsWell, BootWell, Running, Present, durable
<1> QED
  BY <1>3, <1>4, <1>5 DEF CoreInv

\* After a crash there are no callers, and recovery begins.
LEMMA CrashStep ==
  ASSUME CoreInv, Crash
  PROVE  CoreInv'
<1>1. boot' \in Boots /\ boot'.pc = "list" /\ boot'.op = None /\ boot'.todo = {}
  BY OpenFacts DEF Crash, BootPCs
<1>2. Unlisted \subseteq Ops
  BY DEF Unlisted, CoreInv, BootWell, PerOp
<1>3. used' \in [outages : 0..MaxOutages, spool : 0..MaxSpoolFaults, crashes : 0..MaxCrashes]
  BY LimitsAssumption DEF Crash, CoreInv, TypeOK
<1>4. \A w \in Workers : task'[w] = Idle /\ task'[w].pc = "idle" /\ ticket'[w] = None
  BY IdleFacts DEF Crash
<1>5. TypeOK'
  BY <1>1, <1>2, <1>3, IdleFacts DEF Crash, CoreInv, TypeOK, durable
<1>6. \A w \in Workers : TaskWell(w)' /\ EffectOf(w)'
  BY <1>4 DEF TaskWell, EffectOf, Early, Committed, Holding
<1>7. Unsent' /\ OneCaller'
  BY <1>4 DEF Crash, durable, CoreInv, CallersWell, Unsent, OneCaller, Committed, Holding
<1>8. RowsWell' /\ BootWell'
  BY <1>1 DEF Crash, durable, CoreInv, RowsWell, BootWell, PerOp, Running
<1> QED
  BY <1>5, <1>6, <1>7, <1>8 DEF CoreInv, CallersWell

\* The journal starts empty.
LEMMA CoreInit ==
  ASSUME Init
  PROVE  CoreInv
<1>1. Open \in Boots /\ Open.pc = "open" /\ Open.op = None /\ Open.todo = {}
  BY DEF Open, Boots, BootPCs
<1>2. \A w \in Workers : task[w] = Idle /\ task[w].pc = "idle" /\ ticket[w] = None
  BY IdleFacts DEF Init
<1>3. TypeOK
  <2>1. MemType /\ TableType
    BY IdleFacts DEF Init, MemType, TableType
  <2>2. FileType
    BY DEF Init, FileType
  <2>3. used \in [outages : 0..MaxOutages, spool : 0..MaxSpoolFaults, crashes : 0..MaxCrashes]
    BY LimitsAssumption DEF Init
  <2>4. RestType
    BY <1>1, <2>3 DEF Init, RestType
  <2> QED
    BY <2>1, <2>2, <2>4 DEF TypeOK, MemType, TableType, FileType, RestType
<1>4. \A w \in Workers : TaskWell(w) /\ EffectOf(w)
  BY <1>2 DEF TaskWell, EffectOf, Early, Committed, Holding
<1>5. Unsent /\ OneCaller
  BY <1>2 DEF Init, Unsent, OneCaller, Committed, Holding
<1>6. RowsWell /\ BootWell
  BY <1>1 DEF Init, RowsWell, BootWell, PerOp, Running
<1> QED
  BY <1>3, <1>4, <1>5, <1>6 DEF CoreInv, CallersWell

\* Every step keeps the invariant.
LEMMA CoreNext ==
  ASSUME CoreInv, [Next]_vars
  PROVE  CoreInv'
<1>1. ASSUME NEW w \in Workers, DispatchStep(w)
      PROVE  CoreInv'
  BY <1>1, ReadPreparedStep, ReserveStep, CreateCapsuleStep, RereadStep, WriteSlotsStep,
     CommitDispatchStep, HandoffStep, RollbackStep, RollbackRowStep, RollbackFileStep,
     MaterializeStep DEF DispatchStep
<1>2. ASSUME NEW w \in Workers, OutcomeStep(w)
      PROVE  CoreInv'
  BY <1>2, RecordOutcomeStep, DrainStep, ImportStep, RefreshStep, RecordDbStep, LookStep,
     RetargetStep, FallbackStep, ConfirmStep, ReleaseStep DEF OutcomeStep
<1>3. ASSUME BootReclaim \/ BootFree
      PROVE  CoreInv'
  BY <1>3, BootFreesRow DEF BootReclaim, BootFree, Scanning
<1>4. ASSUME BootStep
      PROVE  CoreInv'
  BY <1>3, <1>4, BootListStep, BootScanStep, BootImportStep, BootFlagStep, BootLatchStep,
     BootConvertStep, BootSettleStep, BootOrphansStep, BootGateStep, BootFailsStep DEF BootStep
<1>5. ASSUME UNCHANGED vars
      PROVE  CoreInv'
  <2>1. UNCHANGED <<durable, latch, task, ticket, boot, db, used, history>>
    BY <1>5 DEF vars
  <2>2. TypeOK'
    BY <2>1 DEF CoreInv, TypeOK, durable, history
  <2>3. CallersWell'
    BY <2>1 DEF CoreInv, CallersWell, TaskWell, EffectOf, Unsent, OneCaller, Rec, Closed, Running,
                durable, history
  <2>4. RowsWell' /\ BootWell'
    BY <2>1 DEF CoreInv, RowsWell, BootWell, Running, Present, durable
  <2> QED
    BY <2>2, <2>3, <2>4 DEF CoreInv
<1> QED
  BY <1>1, <1>2, <1>4, <1>5, PrepareStep, BeginDispatchStep, AtomicDispatchStep, CancelStep,
     ExpireStep, DropStep, DbStep, CrashStep DEF Next

\* The invariant holds in every state of every behaviour.
LEMMA CoreHolds == Spec => []CoreInv
  BY CoreInit, CoreNext, PTL DEF Spec

\* Every record, event, row, file, call and ticket of the journal is one of its kind,
\* whatever fails, races or restarts; so every read and every write of the model
\* (external_journal/mod.rs, cockpit-db's external_journal.rs) is of something that exists.
THEOREM TypeCorrect == Spec => []TypeOK
  BY CoreHolds, PTL DEF CoreInv

-----------------------------------------------------------------------------
(* EffectOnce *)

\* A step moves the record of one operation and calls no provider, or it is a handoff.
LEMMA MovesOrHandoff ==
  ASSUME CoreInv, [Next]_vars
  PROVE  (sends' = sends /\ (rec' = rec \/ OneMove)) \/ \E w \in Workers : Handoff(w)
<1>1. ASSUME NEW w \in Workers, DispatchStep(w)
      PROVE  (sends' = sends /\ (rec' = rec \/ OneMove)) \/ Handoff(w)
  <2>1. CASE CommitDispatch(w)
    BY <2>1, CommitDispatchStep DEF CommitDispatch, history
  <2> QED
    BY <1>1, <2>1 DEF DispatchStep, ReadPrepared, Reserve, CreateCapsule, Reread, WriteSlots,
       Rollback, RollbackRow, RollbackFile, Materialize, durable, history
<1>2. ASSUME NEW w \in Workers, OutcomeStep(w)
      PROVE  sends' = sends /\ (rec' = rec \/ OneMove)
  <2>1. CASE Import(w)
    BY <2>1, ImportStep DEF Import, history
  <2>2. CASE RecordDb(w)
    BY <2>2, RecordDbStep DEF RecordDb
  <2>3. CASE Retarget(w)
    BY <2>3, RetargetStep DEF Retarget, history
  <2> QED
    BY <1>2, <2>1, <2>2, <2>3 DEF OutcomeStep, RecordOutcome, Drain, Refresh, Look, Fallback,
       Confirm, Release, durable, history
<1>3. ASSUME BootStep
      PROVE  sends' = sends /\ (rec' = rec \/ OneMove)
  <2>1. CASE BootImport
    BY <2>1, BootImportStep DEF BootImport, history
  <2>2. CASE BootConvert
    BY <2>2, BootConvertStep DEF BootConvert, history
  <2>3. CASE \E o \in Ops : BootScan(o)
    BY <2>3 DEF BootScan, history
  <2> QED
    BY <1>3, <2>1, <2>2, <2>3 DEF BootStep, BootList, BootReclaim, BootFlag, BootLatch, BootSettle,
       BootFree, BootOrphans, BootGate, BootFails, durable, history
<1>4. ASSUME NEW o \in Ops, Prepare(o)
      PROVE  sends' = sends /\ OneMove
  BY <1>4, PrepareStep DEF Prepare, history
<1>5. ASSUME NEW w \in Workers, NEW o \in Ops,
             BeginDispatch(w, o) \/ AtomicDispatch(w, o) \/ Cancel(w, o) \/ Expire(w, o)
      PROVE  sends' = sends /\ (rec' = rec \/ OneMove)
  BY <1>5, AtomicDispatchStep, CancelStep, ExpireStep
     DEF BeginDispatch, AtomicDispatch, Cancel, Expire, durable, history
<1>6. ASSUME NEW w \in Workers, Drop(w)
      PROVE  sends' = sends /\ rec' = rec
  BY <1>6 DEF Drop, durable, history
<1>7. ASSUME DbFails \/ DbHeals \/ Crash \/ UNCHANGED vars
      PROVE  sends' = sends /\ rec' = rec
  BY <1>7 DEF DbFails, DbHeals, Crash, vars, durable, history
<1> QED
  BY <1>1, <1>2, <1>3, <1>4, <1>5, <1>6, <1>7 DEF Next

Phases == [o \in Ops |-> Phase(o)]

\* One more edge of the graph is a step of EffectOnce, or changes nothing it sees.
LEMMA EdgeImplements ==
  ASSUME TypeOK, OneMove, sends' = sends
  PROVE  Effects!Next \/ UNCHANGED <<Phases, sends>>
<1>1. PICK o \in Ops : \A p \in Ops : p # o => rec'[p] = rec[p]
  BY DEF OneMove
<1>2. \A p \in Ops : p # o => Phase(p)' = Phase(p)
  BY <1>1 DEF Phase
<1>3. Phase(o)' = Phase(o) \/
      <<Phase(o), Phase(o)'>> \in {<<"absent", "undispatched">>, <<"absent", "dispatched">>,
        <<"undispatched", "dispatched">>, <<"undispatched", "closed">>, <<"dispatched", "closed">>}
  <2>1. CASE rec'[o] = rec[o]
    BY <2>1 DEF Phase
  <2>2. CASE rec'[o] \in Records /\ rec[o] = None /\ rec'[o].state \in {"prepared", "dispatching"}
    BY <2>2, NoneAssumption DEF Phase, is_terminal, TerminalStates
  <2>3. CASE rec'[o] \in Records /\ rec[o] # None /\ rec'[o].state = rec[o].state
    BY <2>3, NoneAssumption DEF Phase
  <2>4. CASE rec'[o] \in Records /\ rec[o] # None /\ allows_transition_to(rec[o].state, rec'[o].state)
    <3>1. /\ ~is_terminal(rec[o].state) /\ rec'[o].state # "prepared" /\ rec'[o] # None
          /\ rec[o].state = "prepared" => rec'[o].state \in {"dispatching", "cancelled", "expired"}
      BY <2>4, EdgeFacts, NoneAssumption
    <3> QED
      BY <2>4, <3>1 DEF Phase
  <2> QED
    BY <2>1, <2>2, <2>3, <2>4 DEF OneMove, RecStep, Edge
<1>4. CASE Phase(o)' = Phase(o)
  BY <1>2, <1>4 DEF Phases
<1>5. ASSUME NEW from, NEW to, Phase(o) = from, Phase(o)' = to
      PROVE  Effects!Move(o, from, to)
  <2>1. Phases[o] = from /\ Phases' = [Phases EXCEPT ![o] = to]
    BY <1>2, <1>5 DEF Phases
  <2> QED
    BY <2>1 DEF Effects!Move, Phases
<1>6. CASE <<Phase(o), Phase(o)'>> \in {<<"absent", "undispatched">>, <<"absent", "dispatched">>}
  BY <1>5, <1>6 DEF Effects!Next, Effects!Record
<1>7. CASE <<Phase(o), Phase(o)'>> = <<"undispatched", "dispatched">>
  BY <1>5, <1>7 DEF Effects!Next, Effects!Dispatch
<1>8. CASE <<Phase(o), Phase(o)'>> \in {<<"undispatched", "closed">>, <<"dispatched", "closed">>}
  BY <1>5, <1>8 DEF Effects!Next, Effects!Close
<1> QED
  BY <1>3, <1>4, <1>6, <1>7, <1>8

\* The handoff is the one call of the provider, of an operation that is dispatched.
LEMMA HandoffImplements ==
  ASSUME CoreInv, NEW w \in Workers, Handoff(w)
  PROVE  Effects!Next
<1>1. /\ task[w].op \in Ops /\ Rec(w) # None /\ sends[task[w].op] = 0
      /\ Rec(w).state \in {"dispatching", "cancellation_requested"}
  BY DEF CoreInv, CallersWell, TaskWell, EffectOf, Handoff, At, Committed
<1>2. Phase(task[w].op) = "dispatched"
  BY <1>1 DEF Phase, Rec, is_terminal, TerminalStates
<1>3. sends' = [sends EXCEPT ![task[w].op] = 1]
  BY <1>1 DEF Handoff, CoreInv, TypeOK
<1>4. rec' = rec
  BY DEF Handoff, durable
<1>5. Phases' = Phases /\ Phases[task[w].op] = "dispatched"
  BY <1>1, <1>2, <1>4 DEF Phases, Phase
<1>6. Effects!Send(task[w].op)
  BY <1>1, <1>3, <1>5 DEF Effects!Send, Phases
<1> QED
  BY <1>1, <1>6 DEF Effects!Next

\* The ordering contract of external_journal/mod.rs for any number of operations,
\* callers, outages, file faults and restarts: the provider is called at most once for
\* an operation, after `dispatching` is durable and before the record is closed, and a
\* closed record stays closed.
THEOREM JournalImplementsEffectOnce == Spec => ImplementsEffectOnce
<1>1. Init => Effects!Init
  BY DEF Init, Effects!Init, Phase
<1>2. ASSUME CoreInv, [Next]_vars
      PROVE  [Effects!Next]_<<Phases, sends>>
  <2>1. CASE \E w \in Workers : Handoff(w)
    BY <1>2, <2>1, HandoffImplements
  <2>2. CASE sends' = sends /\ OneMove
    BY <1>2, <2>2, EdgeImplements DEF CoreInv
  <2>3. CASE sends' = sends /\ rec' = rec
    BY <2>3 DEF Phases, Phase
  <2> QED
    BY <1>2, <2>1, <2>2, <2>3, MovesOrHandoff
<1>3. ASSUME CoreInv, [Next]_vars
      PROVE  [Effects!Next]_<<[o \in Ops |-> Phase(o)], sends>>
  BY <1>2, <1>3 DEF Phases
<1> QED
  BY <1>1, <1>3, CoreHolds, PTL DEF Spec, ImplementsEffectOnce, Effects!Spec
====
