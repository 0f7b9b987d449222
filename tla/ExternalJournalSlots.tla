----------------------- MODULE ExternalJournalSlots -----------------------
(***************************************************************************)
(* What the slots of a capsule are for: an outcome that was reported       *)
(* durable from one of them survives, and an acknowledged cancellation is  *)
(* honoured, whatever fails, races or restarts.                            *)
(***************************************************************************)
EXTENDS ExternalJournalCapsules, SequenceTheorems

-----------------------------------------------------------------------------
(* The invariant *)

Fact(r) == [version |-> r.version, state |-> r.state]

\* Importing the fact would change nothing any more: the record has its version, or
\* its state one version before.
Done(o, f) == \/ f.version <= rec[o].version
              \/ f.version = rec[o].version + 1 /\ f.state = rec[o].state
Waiting(o) == {f \in reported[o] : ~Done(o, f)}

\* The record is where the ticket has it, on the way there, or one cancellation
\* further.
Ahead(o, v) == \/ rec[o].version <= v
               \/ rec[o].version = v + 1 /\ rec[o].state = "cancellation_requested"

\* The records and what the histories have of them.
OpWell(o) ==
  /\ rec[o] # None => /\ Fact(rec[o]) \in events[o]
                      /\ rec[o].state = "cancellation_requested" => rec[o].cancel
                      /\ rec[o].cancel => rec[o].state # "succeeded"
  /\ sends[o] = 0 => reported[o] = {}
  /\ o \in acked => rec[o] # None /\ (~rec[o].cancel => sends[o] # 0)

\* A slot holds its sentinel, what the dispatch wrote, or what a fallback did. A
\* capsule is of the operation it is reserved for.
Evidence(o, s) == s.state \in {"prepared", "dispatching"} \/ s \in reported[o]
SlotsOf(c) ==
  files[c] # None =>
    /\ \A i \in {0, 1} : LET s == files[c].slots[i] IN s = Blank \/ Evidence(files[c].op, s)
    /\ \A w \in Workers : task[w].cap = c => files[c].op = task[w].op
    /\ \A o \in Ops : ledger[o] = c => files[c].op = o

\* A guarded file is there, and nobody else's.
FileKept(w) ==
  (Guarded(w) /\ ~Closed(task[w].op)) =>
    files[task[w].cap] # None /\ \A v \in Workers \ {w} : ~Wrecks(v, task[w].cap)

\* A ticket is of an open operation. A terminal outcome ends its use.
OpenOf(w) ==
  task[w].pc \in Holding =>
    /\ ~Closed(task[w].op) /\ sends[task[w].op] # 0
    /\ task[w].pc # "sent" => ~is_terminal(ticket[w].state)
    /\ (\E f \in reported[task[w].op] : is_terminal(f.state)) => is_terminal(ticket[w].state)

\* The slots of a capsule still to import, in order.
In(ch) == {ch[i] : i \in DOMAIN ch}
ChainWell(ch, o) ==
  /\ \A a \in In(ch) : Evidence(o, a)
  /\ \/ \E a \in In(ch) : ch = <<a>>
     \/ \E a, b \in In(ch) : ch = <<a, b>> /\ a.version <= b.version

\* The slots of a held capsule, as the ticket has them.
Active(w) == files[task[w].cap].slots[ticket[w].active]
Inactive(w) == files[task[w].cap].slots[1 - ticket[w].active]

\* What waits is in the slots the ticket's version counts from the committed one. An
\* acknowledged cancellation is in the record or waits.
WaitOf(w) ==
  LET o == task[w].op
      t == ticket[w]
  IN
  task[w].pc \in Holding /\ o \notin overlaid =>
    /\ t.committed <= rec[o].version /\ Ahead(o, t.version)
    /\ t.version \in {t.committed, t.committed + 1, t.committed + 2}
    /\ t.version # t.committed => Active(w) = Fact(t) /\ Active(w) \in reported[o]
    /\ \A f \in Waiting(o) : \/ t.version # t.committed /\ f = Active(w)
                             \/ t.version = t.committed + 2 /\ f = Inactive(w) /\ f.version < t.version
    /\ task[w].pc = "import" => Waiting(o) \subseteq In(task[w].chain)
    /\ task[w].pc \in {"refresh", "look", "retarget"} => Waiting(o) = {}
    /\ task[w].pc = "retarget" => /\ task[w].seen.version <= rec[o].version
                                  /\ Ahead(o, task[w].seen.version)
    /\ (o \in acked /\ ~rec[o].cancel) =>
         \E f \in Waiting(o) : f.state = "cancellation_requested"
HeldOf(w) ==
  /\ task[w].pc \in Committed =>
       /\ task[w].version + 1 <= rec[task[w].op].version
       /\ Ahead(task[w].op, task[w].version + 1)
  /\ task[w].pc = "import" => ChainWell(task[w].chain, task[w].op)
  /\ OpenOf(w) /\ WaitOf(w)

\* Facts that wait bridge from the record, one edge of the graph after the other.
Follows(f, g) == f.version = g.version + 1 /\ allows_transition_to(g.state, f.state)
LadderOf(o) ==
  o \notin overlaid =>
    /\ \A f, g \in Waiting(o) : f = g \/ Follows(f, g) \/ Follows(g, f)
    /\ \A f \in Waiting(o) :
         f.version <= rec[o].version + 1 \/ \E g \in reported[o] : Follows(f, g)
    /\ o \in acked => /\ rec[o].state # "succeeded"
                      /\ ~rec[o].cancel => \A f \in reported[o] : f.state # "succeeded"

Settled(o, f) == f.state \in {e.state : e \in events[o]} \/ Overtaken(o, f)
Quarantined(o, f) == \E c \in quarantine : files[c].op = o /\ f \in Slots(c)

\* The capsule recovery will import from: nobody is about to take it away, and a
\* recovery that came to it has all that waits in hand.
Shelf(o, c) ==
  /\ ledger[o] = c /\ ~Closed(o)
  /\ \A v \in Workers : ~Danger(v, c)
  /\ (boot.op = o /\ boot.pc \in PerOp) =>
       boot.pc = "import" /\ Waiting(o) \subseteq In(boot.chain)
Keeps(o, c) == /\ files[c] # None /\ files[c].op = o /\ Waiting(o) \subseteq Slots(c)
               /\ c \in quarantine \/ Shelf(o, c)
RestOf(o) ==
  o \notin overlaid \cup stray =>
    /\ Waiting(o) # {} => \E c \in Capsules : Keeps(o, c)
    /\ \A f \in reported[o] \ Waiting(o) : Settled(o, f) \/ Quarantined(o, f)

ScanOf == boot.pc = "import" => /\ ChainWell(boot.chain, boot.op)
                                /\ rec[boot.op].state # "prepared"

SlotInv == /\ \A w \in Workers : FileKept(w) /\ HeldOf(w)
           /\ \A c \in Capsules : SlotsOf(c)
           /\ \A o \in Ops : OpWell(o) /\ LadderOf(o) /\ RestOf(o)
           /\ ScanOf

-----------------------------------------------------------------------------
(* The records *)

Still(o) == rec'[o] = rec[o] /\ events'[o] = events[o]
Opens(o) == /\ rec[o] = None /\ rec'[o] \in Records /\ Fact(rec'[o]) \in events'[o]
            /\ rec'[o].state \in {"prepared", "dispatching"} /\ rec'[o].cancel = FALSE
\* One more edge of the graph at a later version. The cancellation fact stays, and
\* keeps `succeeded` out.
Grows(o) ==
  /\ rec[o] # None /\ rec'[o] \in Records /\ rec'[o].version > rec[o].version
  /\ allows_transition_to(rec[o].state, rec'[o].state)
  /\ rec[o].cancel => rec'[o].cancel
  /\ rec'[o].state = "cancellation_requested" => rec'[o].cancel
  /\ rec'[o].cancel => rec'[o].state # "succeeded"
  /\ events'[o] = events[o] \cup {Fact(rec'[o])}
Cancels(o) == /\ Grows(o) /\ rec'[o].state = "cancellation_requested"
              /\ rec'[o].version = rec[o].version + 1

\* A commit of the record an edge leads to.
LEMMA CommitGrows ==
  ASSUME TypeOK, NEW o \in Ops, rec[o] # None, NEW t, NEW v \in Nat, NEW c \in BOOLEAN,
         v > rec[o].version, allows_transition_to(rec[o].state, t),
         t = "succeeded" => ~rec[o].cancel /\ ~c, commit(o, moved(rec[o], t, v, c))
  PROVE  /\ Grows(o) /\ \A p \in Ops : p # o => Still(p)
         /\ rec'[o].version = v /\ rec'[o].state = t /\ rec'[o].started = (rec[o].started \/ t = "dispatching")
         /\ rec'[o].cancel = (rec[o].cancel \/ c \/ t = "cancellation_requested")
<1> DEFINE R == moved(rec[o], t, v, c)
<1>0. rec[o] \in Records /\ t \in States
  BY EdgeFacts DEF TypeOK
<1>1. R \in Records /\ R.version = v /\ R.state = t
  BY <1>0, MovedFacts
<1>2. /\ R.cancel = (rec[o].cancel \/ c \/ t = "cancellation_requested")
      /\ R.started = (rec[o].started \/ t = "dispatching")
  BY DEF moved
<1>3. rec'[o] = R /\ \A p \in Ops : p # o => rec'[p] = rec[p]
  BY <1>1, CommitFacts
<1>4. events'[o] = events[o] \cup {Fact(R)} /\ \A p \in Ops : p # o => events'[p] = events[p]
  BY DEF commit, TypeOK, Fact
<1> HIDE DEF R
<1>5. Grows(o)
  BY <1>0, <1>1, <1>2, <1>3, <1>4 DEF Grows, Records
<1> QED
  BY <1>1, <1>2, <1>3, <1>4, <1>5 DEF Still

\* A fact that is done stays done, and what a growing record overtakes is at or
\* before its version, or has its state.
LEMMA DoneStays ==
  ASSUME TypeOK, NEW o \in Ops, rec[o] # None, Still(o) \/ Grows(o), NEW f \in Facts
  PROVE  /\ Done(o, f) => Done(o, f)'
         /\ ~Done(o, f) /\ Done(o, f)' =>
              /\ Grows(o) /\ f.version > rec[o].version
              /\ f.version <= rec'[o].version \/ (f.version = rec'[o].version + 1 /\ f.state = rec'[o].state)
<1>1. rec[o].version \in Nat /\ f.version \in Nat
  BY DEF TypeOK, Records, Facts
<1>2. CASE Still(o)
  BY <1>2 DEF Still, Done
<1>3. CASE Grows(o)
  <2>1. rec'[o].version \in Nat /\ rec'[o].version > rec[o].version
    BY <1>3 DEF Grows, Records
  <2> QED
    BY <1>1, <1>3, <2>1 DEF Done
<1> QED
  BY <1>2, <1>3

\* So nothing comes to wait without being reported.
LEMMA WaitingShrinks ==
  ASSUME TypeOK, NEW o \in Ops, rec[o] # None, Still(o) \/ Grows(o), reported'[o] = reported[o]
  PROVE  Waiting(o)' \subseteq Waiting(o) /\ (Still(o) => Waiting(o)' = Waiting(o))
<1>1. reported[o] \subseteq Facts
  BY DEF TypeOK
<1>2. Waiting(o)' = {f \in reported[o] : ~Done(o, f)'}
  BY DEF Waiting
<1>3. \A f \in reported[o] : Done(o, f) => Done(o, f)'
  BY <1>1, DoneStays
<1>4. Still(o) => \A f \in reported[o] : Done(o, f)' = Done(o, f)
  BY DEF Still, Done
<1> QED
  BY <1>2, <1>3, <1>4 DEF Waiting

\* What the operation's own line of the invariant needs of a step.
LEMMA OpWellStays ==
  ASSUME TypeOK, NEW o \in Ops, OpWell(o), Still(o) \/ Opens(o) \/ Grows(o),
         sends[o] # 0 => sends'[o] # 0, sends'[o] = 0 => reported'[o] = reported[o],
         o \in acked' => o \in acked \/ (rec'[o] # None /\ (rec'[o].cancel \/ sends'[o] # 0)),
         sends \in [Ops -> Nat]
  PROVE  OpWell(o)'
<1>1. CASE Still(o)
  BY <1>1 DEF Still, OpWell
<1>2. CASE Opens(o)
  BY <1>2, NoneAssumption DEF Opens, OpWell
<1>3. CASE Grows(o)
  BY <1>3, NoneAssumption DEF Grows, OpWell
<1> QED
  BY <1>1, <1>2, <1>3

\* The head and the tail of a chain.
LEMMA ChainFacts ==
  ASSUME NEW o, NEW ch \in Seq(Facts), ChainWell(ch, o)
  PROVE  /\ Head(ch) \in Facts /\ Head(ch) \in In(ch) /\ Evidence(o, Head(ch))
         /\ In(ch) = {Head(ch)} \cup In(Tail(ch))
         /\ Tail(ch) # <<>> => /\ ChainWell(Tail(ch), o)
                               /\ \A a \in In(Tail(ch)) : Head(ch).version <= a.version
         /\ In(<<>>) = {}
<1>0. In(<<>>) = {} /\ In(ch) \subseteq Facts
  BY DEF In
<1>1. CASE \E a \in In(ch) : ch = <<a>>
  <2>1. PICK a \in In(ch) : ch = <<a>>
    BY <1>1
  <2>2. Head(ch) = a /\ Tail(ch) = <<>> /\ In(ch) = {a}
    BY <2>1 DEF In
  <2> QED
    BY <1>0, <2>1, <2>2 DEF ChainWell
<1>2. CASE \E a, b \in In(ch) : ch = <<a, b>> /\ a.version <= b.version
  <2>1. PICK a \in In(ch), b \in In(ch) : ch = <<a, b>> /\ a.version <= b.version
    BY <1>2
  <2>2. Head(ch) = a /\ Tail(ch) = <<b>> /\ In(ch) = {a, b} /\ In(<<b>>) = {b}
    BY <2>1 DEF In
  <2>3. ChainWell(<<b>>, o)
    BY <2>1, <2>2 DEF ChainWell
  <2> QED
    BY <1>0, <2>1, <2>2, <2>3 DEF ChainWell
<1> QED
  BY <1>1, <1>2 DEF ChainWell

-----------------------------------------------------------------------------
(* What a step of one caller writes *)

CallerStep(w) ==
  \/ DispatchStep(w) \/ OutcomeStep(w) \/ Drop(w)
  \/ \E o \in Ops : BeginDispatch(w, o) \/ AtomicDispatch(w, o) \/ Cancel(w, o) \/ Expire(w, o)

\* The rows and files it may take, and the calls it keeps.
LEMMA CallerCapsule ==
  ASSUME CoreInv, CapsuleInv, RecStep, NEW w \in Workers, CallerStep(w)
  PROVE  CapsuleStep(w)
<1>1. CASE DispatchStep(w)
  BY <1>1, ReadKeeps, ReserveKeeps, CreateKeeps, RereadKeeps, WriteSlotsKeeps, CommitKeeps,
     HandoffKeeps, RollbackKeeps, RollbackRowKeeps, RollbackFileKeeps, MaterializeKeeps DEF DispatchStep
<1>2. CASE OutcomeStep(w)
  BY <1>2, OutcomeKeeps, ConfirmKeeps, ReleaseKeeps DEF OutcomeStep
<1>3. ASSUME NEW o \in Ops, Cancel(w, o)
      PROVE  CapsuleStep(w)
  BY <1>3, BeginsKeep, HolderCancelKeeps DEF Cancel
<1> QED
  BY <1>1, <1>2, <1>3, BeginsKeep, AtomicKeeps, DropKeeps DEF CallerStep

\* The holder of a ticket writes a record at these steps, and may report at one.
Holder(w, o) == task[w].op = o /\ task[w].pc \in {"import", "record", "retarget"}
Reports(w, o) == task[w].op = o /\ task[w].pc = "record" /\ ~Up /\ task'[w].pc = "sent"

\* The file of a capsule is written by a caller that made it, that finds none, or that
\* holds the operation.
NewEvidence(o, s) == s.state \in {"prepared", "dispatching"} \/ s \in reported'[o]
Fills(w, c) ==
  /\ task[w].cap = c
  /\ task'[w].cap = None \/ (task'[w].cap = c /\ task'[w].op = task[w].op)
  /\ files'[c] # None /\ files'[c].op = task[w].op
  /\ \A i \in {0, 1} : LET s == files'[c].slots[i] IN
       \/ s = Blank \/ NewEvidence(task[w].op, s)
       \/ files[c] # None /\ files[c].op = task[w].op /\ s = files[c].slots[i]
  /\ files[c] = None \/ task[w].pc \in {"slots", "materialize", "record"}
  /\ task[w].pc = "record" => Reports(w, task[w].op)

RecordsOf(w, o) ==
  /\ \/ Still(o) \/ Opens(o)
     \/ Grows(o) /\ (rec[o].state = "prepared" \/ Cancels(o) \/ Holder(w, o))
  /\ sends[o] # 0 => sends'[o] # 0
  /\ reported'[o] = reported[o] \/ (Reports(w, o) /\ reported[o] \subseteq reported'[o])
  /\ o \in acked' => o \in acked \/ (rec'[o] # None /\ rec'[o].cancel) \/ Reports(w, o)
Effect(w) ==
  /\ UNCHANGED <<boot, quarantine>> /\ overlaid \subseteq overlaid'
  /\ \A o \in Ops : RecordsOf(w, o)
  /\ \A c \in Capsules : files'[c] \in {files[c], None} \/ Fills(w, c)

\* Most steps write no record and no file.
Quiet == UNCHANGED <<rec, events, files, quarantine, boot, reported, acked, overlaid>>

\* Such a step has the effects of a caller.
LEMMA QuietEffect ==
  ASSUME TypeOK, NEW w \in Workers, Quiet, sends' = sends \/ Handoff(w)
  PROVE  Effect(w)
<1>1. \A o \in Ops : sends[o] # 0 => sends'[o] # 0
  <2>1. CASE sends' = sends
    BY <2>1
  <2>2. CASE Handoff(w)
    BY <2>2 DEF Handoff, TypeOK
  <2> QED
    BY <2>1, <2>2
<1> QED
  BY <1>1 DEF Effect, Quiet, RecordsOf, Still

\* A step that moves one record and writes no file.
LEMMA MoveEffect ==
  ASSUME NEW w \in Workers, NEW o \in Ops, \A p \in Ops : p # o => Still(p),
         \/ Still(o) \/ Opens(o)
         \/ Grows(o) /\ (rec[o].state = "prepared" \/ Cancels(o) \/ Holder(w, o)),
         UNCHANGED <<boot, quarantine, files, sends, reported>>, overlaid \subseteq overlaid',
         acked' = acked \/ (acked' = acked \cup {o} /\ rec'[o] # None /\ rec'[o].cancel)
  PROVE  Effect(w)
  BY DEF Effect, RecordsOf

\* The steps that write neither.
LEMMA QuietSteps ==
  ASSUME NEW w \in Workers,
         \/ ReadPrepared(w) \/ Reserve(w) \/ Reread(w) \/ Handoff(w) \/ Rollback(w) \/ RollbackRow(w)
         \/ Drain(w) \/ Refresh(w) \/ Look(w) \/ Release(w) \/ Drop(w)
         \/ (\E s \in Outcomes : RecordOutcome(w, s))
         \/ \E o \in Ops : BeginDispatch(w, o)
  PROVE  Quiet /\ (sends' = sends \/ Handoff(w))
  BY DEF ReadPrepared, Reserve, Reread, Handoff, Rollback, RollbackRow, Drain, Refresh, Look, Release,
         Drop, RecordOutcome, BeginDispatch, Quiet, durable, history

\* A file that goes, or a new one with its sentinels.
LEMMA FileEffects ==
  ASSUME CoreInv, NEW w \in Workers, CreateCapsule(w) \/ RollbackFile(w) \/ Confirm(w)
  PROVE  Effect(w)
<1>0. TypeOK /\ TaskWell(w)
  BY DEF CoreInv, CallersWell
<1>1. UNCHANGED <<rec, events, quarantine, boot, sends, reported, acked, overlaid>>
  BY DEF CreateCapsule, RollbackFile, Confirm, history
<1>2. ASSUME NEW c \in Capsules
      PROVE  files'[c] \in {files[c], None} \/ Fills(w, c)
  <2>1. CASE CreateCapsule(w)
    <3> DEFINE F == Sentinels(task[w].op)
    <3>1. task[w].pc = "create" /\ task[w].op \in Ops /\ task[w].cap \in Capsules
      BY <1>0, <2>1 DEF CreateCapsule, At, TaskWell, Early
    <3>2. F # None /\ F.op = task[w].op /\ \A i \in {0, 1} : F.slots[i] = Blank
      <4>1. F \in Contents
        BY <3>1 DEF Sentinels, Contents
      <4> QED
        BY <4>1, NoneAssumption DEF Sentinels
    <3> HIDE DEF F
    <3>3. files' = files \/ (files[task[w].cap] = None /\ files' = [files EXCEPT ![task[w].cap] = F]
                             /\ task' = [task EXCEPT ![w] = [@ EXCEPT !.pc = "reread", !.made = TRUE]])
      BY <2>1 DEF CreateCapsule, F
    <3>4. CASE files' # files /\ c = task[w].cap
      <4>1. files'[c] = F /\ files[c] = None
        BY <1>0, <3>1, <3>3, <3>4 DEF TypeOK
      <4>2. task'[w] = [task[w] EXCEPT !.pc = "reread", !.made = TRUE] /\ task[w] \in Tasks
        BY <1>0, <3>3, <3>4 DEF TypeOK
      <4>3. task'[w].cap = task[w].cap /\ task'[w].op = task[w].op
        BY <4>2 DEF Tasks
      <4> QED
        BY <3>1, <3>2, <3>4, <4>1, <4>3 DEF Fills
    <3>5. CASE files' = files \/ c # task[w].cap
      BY <1>0, <3>1, <3>3, <3>5 DEF TypeOK
    <3> QED
      BY <3>4, <3>5
  <2>2. CASE RollbackFile(w)
    BY <1>0, <2>2, RemoveFacts DEF RollbackFile, TypeOK
  <2>3. CASE Confirm(w)
    BY <1>0, <2>3, RemoveFacts DEF Confirm, TypeOK
  <2> QED
    BY <2>1, <2>2, <2>3
<1> QED
  BY <1>1, <1>2 DEF Effect, RecordsOf, Still

\* The slots of the file are written; its operation stays.
LEMMA SlotEffects ==
  ASSUME CoreInv, SlotInv, NEW w \in Workers, WriteSlots(w) \/ Materialize(w)
  PROVE  Effect(w)
<1>0. TypeOK /\ TaskWell(w) /\ "commit" \in PCs /\ "rollback" \in PCs /\ "ticket" \in PCs
  BY DEF CoreInv, CallersWell, PCs
<1>1. UNCHANGED <<rec, events, quarantine, boot, sends, reported, acked, overlaid>>
  BY DEF WriteSlots, Materialize, history
<1>2. ASSUME NEW v \in Nat, NEW i \in {0, 1}
      PROVE  BothSlots(v)[i] = Blank \/ NewEvidence(task[w].op, BothSlots(v)[i])
  BY <1>2 DEF BothSlots, NewEvidence
<1>p. ASSUME NEW v \in Nat, NEW s \in PartSlots(v) \cup {BothSlots(v)}, NEW i \in {0, 1}
      PROVE  s[i] = Blank \/ NewEvidence(task[w].op, s[i])
  BY <1>2, <1>p DEF PartSlots, BothSlots
<1>3. ASSUME NEW c \in Capsules, WriteSlots(w)
      PROVE  files'[c] \in {files[c], None} \/ Fills(w, c)
  <2>1. task[w].pc = "slots" /\ task[w].cap \in Capsules /\ task[w].version \in Nat
    BY <1>0, <1>3 DEF WriteSlots, At, TaskWell, Early, TypeOK, Tasks
  <2>2. CASE files' # files /\ c = task[w].cap
    <3>1. files[c] # None /\ files[c] \in Contents /\ files[c].op = task[w].op
      BY <1>0, <1>3, <2>1, <2>2 DEF WriteSlots, Present, SlotInv, SlotsOf, TypeOK
    <3>2. PICK s \in PartSlots(task[w].version) \cup {BothSlots(task[w].version)} :
            files' = [files EXCEPT ![c].slots = s]
      BY <1>3, <2>2 DEF WriteSlots
    <3>3. \A i \in {0, 1} : s[i] = Blank \/ NewEvidence(task[w].op, s[i])
      BY <1>p, <2>1
    <3>4. files'[c] = [files[c] EXCEPT !.slots = s]
      BY <1>0, <3>2 DEF TypeOK
    <3>5. files'[c].op = files[c].op /\ files'[c].slots = s
      BY <3>1, <3>4 DEF Contents
    <3>6. Goto(w, "commit") \/ Goto(w, "rollback")
      BY <1>3 DEF WriteSlots
    <3>7. task'[w].cap = task[w].cap /\ task'[w].op = task[w].op
      BY <1>0, <3>6, GotoFacts
    <3>8. files'[c] # None
      <4>1. CoreInv' /\ FilesStay
        BY <1>3, WriteSlotsStep
      <4> QED
        BY <3>1, <4>1 DEF FilesStay
    <3> QED
      BY <2>1, <2>2, <3>1, <3>3, <3>5, <3>7, <3>8 DEF Fills
  <2>3. CASE files' = files \/ c # task[w].cap
    BY <1>0, <1>3, <2>1, <2>3 DEF WriteSlots, TypeOK
  <2> QED
    BY <2>2, <2>3
<1>4. ASSUME NEW c \in Capsules, Materialize(w)
      PROVE  files'[c] \in {files[c], None} \/ Fills(w, c)
  <2> DEFINE F(s) == [op |-> task[w].op, slots |-> s]
             Written == PartSlots(1) \cup {BothSlots(1)}
  <2>1. task[w].pc = "materialize" /\ task[w].cap \in Capsules /\ task[w].op \in Ops
    BY <1>0, <1>4 DEF Materialize, At, TaskWell, Committed
  <2>2. \A s \in Written : F(s) # None /\ F(s).op = task[w].op /\ F(s).slots = s
    <3>1. TAKE s \in Written
    <3>2. s \in [{0, 1} -> Facts \cup {Blank}]
      BY BothSlotsType, PartSlotsType
    <3>3. F(s) \in Contents
      BY <2>1, <3>2 DEF Contents
    <3> QED
      BY <3>3, NoneAssumption
  <2>3. files' = files \/ \E s \in Written : files' = [files EXCEPT ![task[w].cap] = F(s)]
    BY <1>4 DEF Materialize
  <2> HIDE DEF F, Written
  <2>4. CASE files' # files /\ c = task[w].cap
    <3>1. PICK s \in Written : files'[c] = F(s)
      BY <1>0, <2>3, <2>4 DEF TypeOK
    <3>2. task'[w].cap = None \/ (task'[w].cap = task[w].cap /\ task'[w].op = task[w].op)
      <4>1. Goto(w, "ticket") \/ End(w)
        BY <1>4 DEF Materialize
      <4> QED
        BY <1>0, <4>1, GotoFacts, EndFacts, IdleFacts
    <3>3. \A i \in {0, 1} : s[i] = Blank \/ NewEvidence(task[w].op, s[i])
      BY <1>p DEF Written
    <3> QED
      BY <2>1, <2>2, <2>4, <3>1, <3>2, <3>3 DEF Fills
  <2>5. CASE files' = files \/ c # task[w].cap
    BY <1>0, <2>1, <2>3, <2>5 DEF TypeOK
  <2> QED
    BY <2>4, <2>5
<1> QED
  BY <1>1, <1>3, <1>4 DEF Effect, RecordsOf, Still

\* What write_fallback does when the outcome is durable, and when it is not.
Falls(w) ==
  LET c == task[w].cap
      i == 1 - ticket[w].active
      f == [version |-> ticket[w].version + 1, state |-> task[w].want]
      o == task[w].op
  IN
  /\ chain_open(w) /\ Present(c)
  /\ files' = [files EXCEPT ![c] = [files[c] EXCEPT !.slots = [files[c].slots EXCEPT ![i] = f]]]
  /\ ticket' = [ticket EXCEPT ![w] = [ticket[w] EXCEPT !.version = f.version,
                                                       !.state = f.state, !.active = i]]
  /\ reported' = [reported EXCEPT ![o] = reported[o] \cup {f}]
  /\ acked' = IF f.state = "cancellation_requested" THEN acked \cup {o} ELSE acked
Blanks(w) ==
  LET c == task[w].cap
      i == 1 - ticket[w].active
  IN
  /\ \/ files' = files
     \/ files' = [files EXCEPT ![c] = [files[c] EXCEPT !.slots = [files[c].slots EXCEPT ![i] = Blank]]]
  /\ UNCHANGED <<ticket, reported, acked>>

\* write_fallback reports the outcome from its slot, or retains it.
LEMMA FallbackCases ==
  ASSUME NEW w \in Workers, Fallback(w)
  PROVE  Falls(w) \/ Blanks(w)
  BY DEF Fallback, Falls, Blanks, Ticket

\* The call of a fallback, and the file it writes at most.
LEMMA FallbackCall ==
  ASSUME CoreInv, SlotInv, NEW w \in Workers, Fallback(w)
  PROVE  /\ TypeOK /\ task[w].pc = "record" /\ ~Up /\ task[w].op \in Ops /\ rec[task[w].op] # None
         /\ task[w].cap \in Capsules /\ ticket[w] \in Tickets /\ task[w].want \in States \cup {None}
         /\ task'[w].pc = "sent" /\ task'[w].op = task[w].op /\ task'[w].cap = task[w].cap
         /\ UNCHANGED <<rec, events, ledger, quarantine, boot, sends, stray, overlaid>>
         /\ OthersKept(w) /\ FilesStay /\ quarantine = {} /\ Running
         /\ \A o \in Ops : o # task[w].op => reported'[o] = reported[o] /\ (o \in acked' => o \in acked)
         /\ \A c \in Capsules : c # task[w].cap => files'[c] = files[c]
<1>1. /\ TypeOK /\ TaskWell(w) /\ task[w].pc = "record" /\ BootWell /\ ~Up /\ Return(w)
      /\ UNCHANGED <<rec, events, ledger, quarantine, boot, sends, stray, overlaid>>
  BY DEF CoreInv, CallersWell, Fallback, At
<1>2. /\ task[w].op \in Ops /\ rec[task[w].op] # None /\ task[w].cap \in Capsules
      /\ ticket[w] \in Tickets /\ task[w].want \in States \cup {None} /\ Running /\ quarantine = {}
  BY <1>1 DEF TaskWell, Holding, TypeOK, Tasks, Rec, BootWell
<1>3. OthersKept(w) /\ FilesStay
  BY OutcomeSame
<1>4. task'[w].pc = "sent" /\ task'[w].op = task[w].op /\ task'[w].cap = task[w].cap
  BY <1>1, ReturnFacts
<1>5. /\ \A o \in Ops : o # task[w].op => reported'[o] = reported[o] /\ (o \in acked' => o \in acked)
      /\ \A c \in Capsules : c # task[w].cap => files'[c] = files[c]
  <2>1. CASE Falls(w)
    BY <1>1, <2>1 DEF Falls, TypeOK
  <2>2. CASE Blanks(w)
    BY <1>1, <2>2 DEF Blanks, TypeOK
  <2> QED
    BY <2>1, <2>2, FallbackCases
<1> QED
  BY <1>1, <1>2, <1>3, <1>4, <1>5

\* The outcome that became durable in the inactive slot.
Fallen(w) == [version |-> ticket[w].version + 1, state |-> task[w].want]

\* It follows the ticket's version, next to the slot that was active.
LEMMA FallsFacts ==
  ASSUME CoreInv, SlotInv, NEW w \in Workers, Fallback(w), Falls(w), NEW f, f = Fallen(w)
  PROVE  LET o == task[w].op
             c == task[w].cap
             t == ticket[w]
         IN
         /\ f \in Facts /\ f.version = t.version + 1 /\ f.state = task[w].want
         /\ t.version - t.committed < 2 /\ allows_transition_to(t.state, f.state)
         /\ files[c] # None /\ files'[c] # None /\ files'[c].op = files[c].op
         /\ files'[c].slots[1 - t.active] = f /\ files'[c].slots[t.active] = files[c].slots[t.active]
         /\ ticket'[w].version = f.version /\ ticket'[w].state = f.state
         /\ ticket'[w].active = 1 - t.active /\ ticket'[w].committed = t.committed
         /\ reported'[o] = reported[o] \cup {f}
         /\ o \in acked' => o \in acked \/ f.state = "cancellation_requested"
<1> DEFINE o == task[w].op
           c == task[w].cap
           t == ticket[w]
           i == 1 - t.active
           F == [files[c] EXCEPT !.slots = [files[c].slots EXCEPT ![i] = f]]
           K == [t EXCEPT !.version = f.version, !.state = f.state, !.active = i]
<1>1. TypeOK /\ o \in Ops /\ c \in Capsules /\ t \in Tickets /\ FilesStay
  BY FallbackCall
<1>2. t.version \in Nat /\ t.committed \in Nat /\ t.active \in {0, 1} /\ i \in {0, 1} /\ i # t.active
  BY <1>1 DEF Tickets
<1>3. t.version - t.committed < 2 /\ allows_transition_to(t.state, task[w].want)
  BY DEF Falls, chain_open, pending, Ticket
<1>4. f \in Facts /\ f.version = t.version + 1 /\ f.state = task[w].want
  BY <1>2, <1>3, EdgeFacts DEF Facts, Fallen
<1>5. files[c] # None /\ files[c] \in Contents
  BY <1>1 DEF Falls, Present, TypeOK
<1>6. /\ files' = [files EXCEPT ![c] = F] /\ ticket' = [ticket EXCEPT ![w] = K]
      /\ reported' = [reported EXCEPT ![o] = reported[o] \cup {f}]
      /\ acked' = IF f.state = "cancellation_requested" THEN acked \cup {o} ELSE acked
  BY DEF Falls, Fallen
<1>7. F.op = files[c].op /\ F.slots = [files[c].slots EXCEPT ![i] = f]
  BY <1>5 DEF Contents
<1>8. F.slots[i] = f /\ F.slots[t.active] = files[c].slots[t.active]
  BY <1>2, <1>5, <1>7 DEF Contents
<1>9. /\ K.version = f.version /\ K.state = f.state /\ K.active = i /\ K.committed = t.committed
  BY <1>1 DEF Tickets
<1>10. files'[c] = F /\ ticket'[w] = K
  BY <1>1, <1>6 DEF TypeOK
<1>11. files'[c] # None
  BY <1>1, <1>5 DEF FilesStay
<1>12. reported'[o] = reported[o] \cup {f}
  BY <1>1, <1>6 DEF TypeOK
<1>13. o \in acked' => o \in acked \/ f.state = "cancellation_requested"
  BY <1>6
<1> HIDE DEF F, K
<1> QED
  BY <1>3, <1>4, <1>5, <1>7, <1>8, <1>9, <1>10, <1>11, <1>12, <1>13

\* An outcome that did not become durable loses the inactive slot at most.
LEMMA BlanksFacts ==
  ASSUME CoreInv, SlotInv, NEW w \in Workers, Fallback(w), Blanks(w), files[task[w].cap] # None
  PROVE  LET c == task[w].cap
             t == ticket[w]
         IN
         /\ UNCHANGED <<ticket, reported, acked>>
         /\ files'[c] # None /\ files'[c].op = files[c].op
         /\ files'[c].slots[t.active] = files[c].slots[t.active]
         /\ files'[c].slots[1 - t.active] \in {Blank, files[c].slots[1 - t.active]}
<1> DEFINE c == task[w].cap
           t == ticket[w]
           i == 1 - t.active
           F == [files[c] EXCEPT !.slots = [files[c].slots EXCEPT ![i] = Blank]]
<1>1. TypeOK /\ c \in Capsules /\ t \in Tickets /\ FilesStay /\ files[c] \in Contents
  BY FallbackCall DEF TypeOK
<1>2. t.active \in {0, 1} /\ i \in {0, 1} /\ i # t.active
  BY <1>1 DEF Tickets
<1>3. F.op = files[c].op /\ F.slots = [files[c].slots EXCEPT ![i] = Blank]
  BY <1>1 DEF Contents
<1>4. F.slots[i] = Blank /\ F.slots[t.active] = files[c].slots[t.active]
  BY <1>1, <1>2, <1>3 DEF Contents
<1>5. files' = files \/ files' = [files EXCEPT ![c] = F]
  BY DEF Blanks
<1>6. files'[c] \in {files[c], F}
  BY <1>1, <1>5 DEF TypeOK
<1>7. files'[c] # None
  BY <1>1 DEF FilesStay
<1> HIDE DEF F
<1> QED
  BY <1>3, <1>4, <1>6, <1>7 DEF Blanks

\* A fallback writes one slot of the capsule its ticket names.
LEMMA FallbackEffect ==
  ASSUME CoreInv, SlotInv, NEW w \in Workers, Fallback(w)
  PROVE  Effect(w)
<1> DEFINE o == task[w].op
           c == task[w].cap
           t == ticket[w]
<1>0. /\ TypeOK /\ task[w].pc = "record" /\ ~Up /\ o \in Ops /\ c \in Capsules /\ t \in Tickets
      /\ task'[w].op = o /\ task'[w].cap = c /\ task'[w].pc = "sent"
      /\ UNCHANGED <<rec, events, quarantine, boot, sends, overlaid>>
      /\ \A p \in Ops : p # o => reported'[p] = reported[p] /\ (p \in acked' => p \in acked)
      /\ \A d \in Capsules : d # c => files'[d] = files[d]
  BY FallbackCall
<1>1. t.active \in {0, 1} /\ {0, 1} = {t.active, 1 - t.active}
  BY <1>0 DEF Tickets
<1>2. files[c] # None => files[c].op = o
  BY <1>0 DEF SlotInv, SlotsOf
<1>3. files'[c] \in {files[c], None} \/ Fills(w, c)
  <2>1. CASE Falls(w)
    <3>1. /\ files[c] # None /\ files'[c] # None /\ files'[c].op = files[c].op
          /\ files'[c].slots[1 - t.active] = Fallen(w)
          /\ files'[c].slots[t.active] = files[c].slots[t.active]
          /\ Fallen(w) \in reported'[o]
      BY <2>1, FallsFacts
    <3>2. \A i \in {0, 1} : \/ NewEvidence(o, files'[c].slots[i])
                            \/ files'[c].slots[i] = files[c].slots[i]
      BY <1>1, <3>1 DEF NewEvidence
    <3> QED
      BY <1>0, <1>2, <3>1, <3>2 DEF Fills, Reports
  <2>2. CASE Blanks(w) /\ files[c] # None
    <3>1. /\ files'[c] # None /\ files'[c].op = files[c].op
          /\ files'[c].slots[t.active] = files[c].slots[t.active]
          /\ files'[c].slots[1 - t.active] \in {Blank, files[c].slots[1 - t.active]}
      BY <2>2, BlanksFacts
    <3>2. \A i \in {0, 1} : files'[c].slots[i] \in {Blank, files[c].slots[i]}
      BY <1>1, <3>1
    <3> QED
      BY <1>0, <1>2, <2>2, <3>1, <3>2 DEF Fills, Reports
  <2>3. CASE files[c] = None
    <3>1. ~Present(c)
      BY <2>3 DEF Present
    <3>2. files' = files
      BY <3>1 DEF Fallback
    <3> QED
      BY <3>2
  <2> QED
    BY <2>1, <2>2, <2>3, FallbackCases
<1>4. reported[o] \subseteq reported'[o]
  BY FallbackCases, FallsFacts DEF Blanks
<1>5. \A p \in Ops : RecordsOf(w, p)
  BY <1>0, <1>4 DEF RecordsOf, Still, Reports
<1> QED
  BY <1>0, <1>3, <1>5 DEF Effect

\* The compare-and-set transition, and the import of a slot.
LEMMA NextGrows ==
  ASSUME TypeOK, NEW o \in Ops, rec[o] # None, NEW t, allows_transition_to(rec[o].state, t),
         ~(rec[o].cancel /\ t = "succeeded"), commit(o, next_record(rec[o], t))
  PROVE  /\ Grows(o) /\ \A p \in Ops : p # o => Still(p)
         /\ rec'[o].version = rec[o].version + 1 /\ rec'[o].state = t
         /\ rec'[o].cancel = (rec[o].cancel \/ t = "cancellation_requested")
<1>1. rec[o].version \in Nat
  BY DEF TypeOK, Records
<1> DEFINE v == rec[o].version + 1
<1>2. v \in Nat /\ v > rec[o].version
  BY <1>1
<1> HIDE DEF v
<1>3. commit(o, moved(rec[o], t, v, FALSE))
  BY DEF next_record, v
<1> QED
  BY <1>2, <1>3, CommitGrows DEF v

\* The import of a slot moves the record to the slot's version, or leaves it.
LEMMA ImportGrows ==
  ASSUME TypeOK, NEW o \in Ops, rec[o] # None, NEW f \in Facts, ImportFact(o, f)
  PROVE  /\ \A p \in Ops : p # o => Still(p)
         /\ import_answer(rec[o], f) # "committed" => Still(o)
         /\ import_answer(rec[o], f) = "committed" =>
              /\ Grows(o) /\ rec'[o].version = f.version /\ rec'[o].state = f.state
              /\ f.version > rec[o].version /\ f.state # rec[o].state
              /\ allows_transition_to(rec[o].state, f.state) /\ ~(rec[o].cancel /\ f.state = "succeeded")
              /\ rec'[o].cancel = (rec[o].cancel \/ f.state = "cancellation_requested")
<1>1. rec[o].version \in Nat /\ f.version \in Nat
  BY DEF TypeOK, Records, Facts
<1>2. CASE import_answer(rec[o], f) = "committed"
  <2>1. ~(f.version <= rec[o].version) /\ rec[o].state # f.state /\ validate_external_transition(rec[o], f.state)
    BY <1>2 DEF import_answer
  <2>2. commit(o, moved(rec[o], f.state, f.version, FALSE))
    BY <1>2 DEF ImportFact
  <2>3. allows_transition_to(rec[o].state, f.state) /\ ~(rec[o].cancel /\ f.state = "succeeded")
    BY <2>1 DEF validate_external_transition
  <2>4. f.version > rec[o].version
    BY <1>1, <2>1
  <2> QED
    BY <1>1, <1>2, <2>1, <2>2, <2>3, <2>4, CommitGrows
<1>3. CASE import_answer(rec[o], f) # "committed"
  BY <1>3 DEF ImportFact, Still
<1> QED
  BY <1>2, <1>3

\* The steps that move a record before a ticket is held.
LEMMA OpeningEffects ==
  ASSUME CoreInv, NEW w \in Workers,
         CommitDispatch(w) \/ \E o \in Ops : AtomicDispatch(w, o) \/ Expire(w, o)
  PROVE  Effect(w)
<1>0. TypeOK /\ TaskWell(w)
  BY DEF CoreInv, CallersWell
<1>1. CASE CommitDispatch(w)
  <2> DEFINE o == task[w].op
  <2>1. /\ o \in Ops /\ rec[o] # None
        /\ UNCHANGED <<boot, quarantine, files, sends, reported, acked, overlaid>>
    BY <1>0, <1>1 DEF CommitDispatch, At, TaskWell, Rec, history
  <2>2. CASE Up /\ dispatch_won(w)
    <3>1. allows_transition_to(rec[o].state, "dispatching") /\ rec[o].state = "prepared"
      BY <2>2, EdgeFacts DEF dispatch_won, transition_external_operation, validate_external_transition, Rec
    <3>2. commit(o, next_record(rec[o], "dispatching"))
      BY <1>1, <2>2 DEF CommitDispatch, Rec
    <3>3. Grows(o) /\ \A p \in Ops : p # o => Still(p)
      BY <1>0, <2>1, <3>1, <3>2, NextGrows
    <3> QED
      BY <2>1, <3>1, <3>3, MoveEffect
  <2>3. CASE ~(Up /\ dispatch_won(w))
    BY <1>1, <2>1, <2>3, MoveEffect DEF CommitDispatch, Still
  <2> QED
    BY <2>2, <2>3
<1>2. ASSUME NEW o \in Ops, AtomicDispatch(w, o)
      PROVE  Effect(w)
  <2> DEFINE R == [version |-> 2, state |-> "dispatching", cancel |-> FALSE, started |-> TRUE]
  <2>1. R \in Records /\ R.state = "dispatching" /\ R.cancel = FALSE
        /\ Fact(R) = [version |-> 2, state |-> "dispatching"]
    BY DEF Records, States, Fact
  <2>2. /\ rec[o] = None /\ rec'[o] = R /\ \A p \in Ops : p # o => Still(p)
        /\ [version |-> 2, state |-> "dispatching"] \in events'[o]
        /\ UNCHANGED <<boot, quarantine, files, sends, reported, acked, overlaid>>
    BY <1>0, <1>2 DEF AtomicDispatch, TypeOK, Still, history
  <2> HIDE DEF R
  <2>3. Opens(o)
    BY <2>1, <2>2 DEF Opens
  <2> QED
    BY <2>2, <2>3, MoveEffect
<1>3. ASSUME NEW o \in Ops, Expire(w, o)
      PROVE  Effect(w)
  <2>1. /\ rec[o] # None /\ rec[o].state = "prepared" /\ commit(o, next_record(rec[o], "expired"))
        /\ UNCHANGED <<boot, quarantine, files, sends, reported, acked, overlaid>>
    BY <1>3 DEF Expire, history
  <2>2. allows_transition_to(rec[o].state, "expired")
    BY <2>1 DEF allows_transition_to, LegalEdges
  <2>3. Grows(o) /\ \A p \in Ops : p # o => Still(p)
    BY <1>0, <2>1, <2>2, NextGrows
  <2> QED
    BY <2>1, <2>3, MoveEffect
<1> QED
  BY <1>1, <1>2, <1>3

\* request_cancellation.
LEMMA CancelEffect ==
  ASSUME CoreInv, SlotInv, NEW w \in Workers, NEW o \in Ops, Cancel(w, o)
  PROVE  /\ Effect(w) /\ (Still(o) \/ Grows(o))
         /\ \A p \in Ops : p # o => Still(p)
         /\ o \in acked' => o \in acked \/ rec'[o].cancel
<1> DEFINE r == rec[o]
           t == IF r.state = "prepared" THEN "cancelled" ELSE "cancellation_requested"
           done == is_terminal(r.state) \/ r.cancel
<1>0. /\ TypeOK /\ r # None /\ r \in Records /\ r.version \in Nat /\ OpWell(o)
      /\ UNCHANGED <<boot, quarantine, files, sends, reported, overlaid>>
      /\ acked' = IF is_terminal(r.state) THEN acked ELSE acked \cup {o}
  BY DEF CoreInv, Cancel, TypeOK, Records, SlotInv
<1>1. CASE done
  <2>1. Still(o) /\ \A p \in Ops : p # o => Still(p)
    BY <1>1 DEF Cancel, Still
  <2>2. acked' = acked \/ (acked' = acked \cup {o} /\ rec'[o] # None /\ rec'[o].cancel)
    BY <1>0, <1>1, <2>1 DEF Still
  <2> QED
    BY <1>0, <2>1, <2>2, MoveEffect
<1>2. CASE ~done
  <2>1. allows_transition_to(r.state, t) /\ t # "succeeded"
    <3>1. ~is_terminal(r.state) /\ r.state # "cancellation_requested" /\ r.state \in States
      BY <1>0, <1>2 DEF OpWell, Records
    <3> QED
      BY <3>1 DEF allows_transition_to, LegalEdges, States, is_terminal, TerminalStates
  <2> DEFINE v == r.version + 1
  <2>2. commit(o, moved(r, t, v, TRUE))
    BY <1>2 DEF Cancel
  <2>3. v \in Nat /\ v > r.version /\ v = r.version + 1
    BY <1>0
  <2> HIDE DEF v
  <2>4. /\ Grows(o) /\ \A p \in Ops : p # o => Still(p)
        /\ rec'[o].version = v /\ rec'[o].state = t /\ rec'[o].cancel
    BY <1>0, <2>1, <2>2, <2>3, CommitGrows
  <2>5. rec[o].state = "prepared" \/ Cancels(o)
    BY <2>3, <2>4 DEF Cancels
  <2>6. rec'[o] # None
    BY <2>4, NoneAssumption DEF Grows
  <2>7. Effect(w)
    BY <1>0, <2>4, <2>5, <2>6, MoveEffect
  <2> QED
    BY <1>0, <2>4, <2>7
<1> QED
  BY <1>1, <1>2

\* What a caller that writes as the holder of a ticket leaves alone.
HolderCall(w) ==
  /\ task[w].op \in Ops /\ rec[task[w].op] # None /\ rec[task[w].op] \in Records
  /\ ticket[w] \in Tickets /\ task[w].cap \in Capsules
  /\ \A p \in Ops : p # task[w].op => Still(p)
  /\ UNCHANGED <<files, boot, quarantine, sends, reported, acked, ledger, stray>>
  /\ task'[w].op = task[w].op /\ task'[w].cap = task[w].cap /\ OthersKept(w) /\ Running
\* adopt_committed leaves the ticket where the record is.
Adopts(w, r) ==
  /\ ticket'[w].version = r.version /\ ticket'[w].state = r.state /\ ticket'[w].committed = r.version
  /\ task'[w].pc = IF is_terminal(r.state) THEN "confirm" ELSE "sent"

\* adopt_committed does that.
LEMMA AdoptAdopts ==
  ASSUME CoreInv, NEW w \in Workers, task[w].pc \in Holding, NEW r \in Records, Adopt(w, r)
  PROVE  Adopts(w, r)
<1>1. TypeOK /\ ticket[w] \in Tickets
  BY DEF CoreInv, CallersWell, TaskWell, TypeOK
<1>2. ticket'[w] = synced(ticket[w], r)
  BY <1>1 DEF Adopt, TypeOK
<1>3. /\ synced(ticket[w], r).version = r.version /\ synced(ticket[w], r).state = r.state
      /\ synced(ticket[w], r).committed = r.version
  BY <1>1 DEF synced, Tickets
<1> QED
  BY <1>2, <1>3, AdoptFacts DEF Adopts

\* import_capsule_chain: one slot of the chain.
ImportStops(w) == Still(task[w].op) /\ task'[w].pc \in {"record", "sent"}
ImportGoesOn(w) ==
  LET o == task[w].op
      f == Head(task[w].chain)
      rest == Tail(task[w].chain)
  IN
  /\ import_answer(rec[o], f) \in {"committed", "duplicate"}
  /\ task'[w].chain = rest /\ task'[w].pc = IF rest = <<>> THEN "refresh" ELSE "import"

\* A slot is imported from a chain the call holds, or the call stops.
LEMMA ImportCall ==
  ASSUME CoreInv, SlotInv, NEW w \in Workers, Import(w)
  PROVE  /\ HolderCall(w) /\ task[w].pc = "import" /\ ticket'[w] = ticket[w] /\ overlaid' = overlaid
         /\ task[w].chain \in Seq(Facts) /\ ChainWell(task[w].chain, task[w].op)
         /\ ImportStops(w) \/ (ImportGoesOn(w) /\ ImportFact(task[w].op, Head(task[w].chain)))
<1> DEFINE o == task[w].op
           f == Head(task[w].chain)
           rest == Tail(task[w].chain)
<1>0. TypeOK /\ TaskWell(w) /\ task[w].pc = "import" /\ HeldOf(w)
  BY DEF CoreInv, CallersWell, Import, At, SlotInv
<1>1. /\ o \in Ops /\ rec[o] # None /\ rec[o] \in Records /\ Running
      /\ ticket[w] \in Tickets /\ task[w].cap \in Capsules /\ task[w].chain \in Seq(Facts)
  BY <1>0 DEF TaskWell, Rec, Holding, TypeOK, Tasks
<1>2. ChainWell(task[w].chain, o)
  BY <1>0 DEF HeldOf
<1>3. f \in Facts /\ rest \in Seq(Facts)
  BY <1>0, <1>1, <1>2, ChainFacts DEF TaskWell
<1>4. SameCall(w) /\ OthersKept(w) /\ ledger' = ledger /\ stray' = stray
  BY OutcomeSame
<1>5. UNCHANGED <<files, boot, quarantine, sends, reported, acked, ticket, overlaid>>
  BY DEF Import, history
<1>6. CASE ~Up
  <2>1. task'[w] = [task[w] EXCEPT !.pc = "record", !.chain = <<>>] /\ task[w] \in Tasks
    BY <1>0, <1>6 DEF Import, TypeOK
  <2>2. task'[w].pc = "record"
    BY <2>1 DEF Tasks
  <2>3. \A p \in Ops : Still(p)
    BY <1>6 DEF Import, Still
  <2> QED
    BY <1>0, <1>1, <1>2, <1>4, <1>5, <2>2, <2>3 DEF HolderCall, ImportStops, SameCall
<1>7. CASE Up
  <2>1. ImportFact(o, f)
    BY <1>7 DEF Import
  <2>2. /\ \A p \in Ops : p # o => Still(p)
        /\ import_answer(rec[o], f) # "committed" => Still(o)
    BY <1>0, <1>1, <1>3, <2>1, ImportGrows
  <2>3. HolderCall(w)
    BY <1>1, <1>4, <1>5, <2>2 DEF HolderCall, SameCall
  <2>4. CASE import_answer(rec[o], f) = "conflict"
    <3>1. Return(w)
      BY <1>7, <2>4 DEF Import, Rec
    <3>2. task'[w].pc = "sent"
      BY <1>0, <3>1, ReturnFacts
    <3> QED
      BY <1>0, <1>1, <1>2, <1>5, <2>2, <2>3, <2>4, <3>2 DEF ImportStops
  <2>5. CASE import_answer(rec[o], f) # "conflict"
    <3> DEFINE q == IF rest = <<>> THEN "refresh" ELSE "import"
    <3>1. task'[w] = [task[w] EXCEPT !.chain = rest, !.pc = q] /\ task[w] \in Tasks
      BY <1>0, <1>7, <2>5 DEF Import, TypeOK, Rec
    <3>2. task'[w].chain = rest /\ task'[w].pc = q
      BY <3>1 DEF Tasks
    <3>3. import_answer(rec[o], f) \in {"committed", "duplicate"}
      BY <2>5 DEF import_answer
    <3> QED
      BY <1>0, <1>1, <1>2, <1>5, <2>1, <2>3, <3>2, <3>3 DEF ImportGoesOn
  <2> QED
    BY <2>4, <2>5
<1> QED
  BY <1>6, <1>7

\* The transition of a ticket's holder.
Commits(w) ==
  LET o == task[w].op IN
  Grows(o) /\ rec'[o].version = rec[o].version + 1 /\ Adopts(w, rec'[o])

\* A compare-and-set that was won moves the record by one version.
LEMMA CommitCommits ==
  ASSUME CoreInv, NEW w \in Workers, task[w].pc \in Holding, NEW t, NEW v,
         transition_external_operation(rec[task[w].op], v, t) = "committed",
         commit(task[w].op, next_record(rec[task[w].op], t)), Adopt(w, next_record(rec[task[w].op], t))
  PROVE  Commits(w) /\ \A p \in Ops : p # task[w].op => Still(p)
<1> DEFINE o == task[w].op
<1>1. TypeOK /\ o \in Ops /\ rec[o] # None
  BY DEF CoreInv, CallersWell, TaskWell, Holding, Rec
<1>2. allows_transition_to(rec[o].state, t) /\ ~(rec[o].cancel /\ t = "succeeded")
  BY DEF transition_external_operation, validate_external_transition
<1>3. /\ Grows(o) /\ (\A p \in Ops : p # o => Still(p)) /\ rec'[o].version = rec[o].version + 1
  BY <1>1, <1>2, NextGrows
<1>4. rec'[o] = next_record(rec[o], t) /\ rec'[o] \in Records
  BY <1>1, <1>2, TransitionFacts
<1>5. Adopts(w, rec'[o])
  BY <1>4, AdoptAdopts
<1> QED
  BY <1>3, <1>5 DEF Commits

\* record_external_operation_outcome.
LEMMA RecordDbCall ==
  ASSUME CoreInv, NEW w \in Workers, RecordDb(w)
  PROVE  /\ HolderCall(w) /\ task[w].pc = "record" /\ Up
         /\ overlaid' = IF ticket[w].version - ticket[w].committed > 0
                        THEN overlaid \cup {task[w].op} ELSE overlaid
         /\ \/ Commits(w)
            \/ Still(task[w].op) /\ Adopts(w, rec[task[w].op])
            \/ /\ Still(task[w].op) /\ ticket'[w] = ticket[w]
               /\ task'[w].pc = "look" \/ (task'[w].pc = "retarget" /\ task'[w].seen = rec[task[w].op])
<1> DEFINE o == task[w].op
           t == cancellation_aware_outcome(Rec(w), task[w].want)
           answer == transition_external_operation(Rec(w), Ticket(w).version, t)
<1>0. TypeOK /\ TaskWell(w) /\ task[w].pc = "record" /\ Up /\ "look" \in PCs
  BY DEF CoreInv, CallersWell, RecordDb, At, PCs
<1>1. /\ o \in Ops /\ rec[o] # None /\ rec[o] \in Records /\ Running /\ task[w].pc \in Holding
      /\ ticket[w] \in Tickets /\ task[w].cap \in Capsules /\ Rec(w) = rec[o]
  BY <1>0 DEF TaskWell, Rec, Holding, TypeOK
<1>2. SameCall(w) /\ OthersKept(w) /\ ledger' = ledger /\ stray' = stray
  BY OutcomeSame
<1>3. /\ UNCHANGED <<files, boot, quarantine, sends, reported, acked>>
      /\ overlaid' = IF ticket[w].version - ticket[w].committed > 0 THEN overlaid \cup {o} ELSE overlaid
  BY DEF RecordDb, pending, Ticket
<1>4. (\A p \in Ops : p # o => Still(p)) => HolderCall(w)
  BY <1>1, <1>2, <1>3 DEF HolderCall, SameCall
<1>5. CASE /\ answer = "committed" /\ commit(o, next_record(Rec(w), t))
           /\ Adopt(w, next_record(Rec(w), t))
  <2>1. Commits(w) /\ \A p \in Ops : p # o => Still(p)
    BY <1>1, <1>5, CommitCommits
  <2> QED
    BY <1>0, <1>3, <1>4, <2>1
<1>6. CASE Adopt(w, Rec(w)) /\ UNCHANGED <<rec, events>>
  <2>1. Adopts(w, rec[o])
    BY <1>1, <1>6, AdoptAdopts
  <2> QED
    BY <1>0, <1>3, <1>4, <1>6, <2>1 DEF Still
<1>7. CASE /\ task' = [task EXCEPT ![w] = [@ EXCEPT !.pc = "retarget", !.seen = Rec(w)]]
           /\ UNCHANGED <<rec, events, ticket>>
  <2>1. task'[w].pc = "retarget" /\ task'[w].seen = rec[o]
    BY <1>0, <1>1, <1>7, SeenFacts
  <2> QED
    BY <1>0, <1>3, <1>4, <1>7, <2>1 DEF Still
<1>8. CASE Goto(w, "look") /\ UNCHANGED <<rec, events, ticket>>
  <2>1. task'[w].pc = "look"
    BY <1>0, <1>8, GotoFacts
  <2> QED
    BY <1>0, <1>3, <1>4, <1>8, <2>1 DEF Still
<1> QED
  BY <1>5, <1>6, <1>7, <1>8 DEF RecordDb

\* retarget_outcome.
LEMMA RetargetCall ==
  ASSUME CoreInv, NEW w \in Workers, Retarget(w)
  PROVE  /\ HolderCall(w) /\ task[w].pc = "retarget" /\ overlaid' = overlaid
         /\ task[w].seen \in Records
         /\ \/ Commits(w)
            \/ Still(task[w].op) /\ (Adopts(w, rec[task[w].op]) \/ Adopts(w, task[w].seen))
            \/ Still(task[w].op) /\ ticket'[w] = ticket[w] /\ task'[w].pc = "sent"
<1> DEFINE o == task[w].op
           r == task[w].seen
           t == cancellation_aware_outcome(r, task[w].want)
           answer == transition_external_operation(Rec(w), r.version, t)
<1>0. TypeOK /\ TaskWell(w) /\ task[w].pc = "retarget"
  BY DEF CoreInv, CallersWell, Retarget, At
<1>1. /\ o \in Ops /\ rec[o] # None /\ rec[o] \in Records /\ Running /\ task[w].pc \in Holding
      /\ ticket[w] \in Tickets /\ task[w].cap \in Capsules /\ Rec(w) = rec[o] /\ r \in Records
  BY <1>0 DEF TaskWell, Rec, Holding, TypeOK, Tasks
<1>2. SameCall(w) /\ OthersKept(w) /\ ledger' = ledger /\ stray' = stray
  BY OutcomeSame
<1>3. UNCHANGED <<files, boot, quarantine, sends, reported, acked, overlaid>>
  BY DEF Retarget, history
<1>4. (\A p \in Ops : p # o => Still(p)) => HolderCall(w)
  BY <1>1, <1>2, <1>3 DEF HolderCall, SameCall
<1>5. CASE /\ answer = "committed" /\ commit(o, next_record(Rec(w), t))
           /\ Adopt(w, next_record(Rec(w), t))
  <2>1. Commits(w) /\ \A p \in Ops : p # o => Still(p)
    BY <1>1, <1>5, CommitCommits
  <2> QED
    BY <1>0, <1>1, <1>3, <1>4, <2>1
<1>6. CASE Adopt(w, IF r.state = t THEN r ELSE Rec(w)) /\ UNCHANGED <<rec, events>>
  <2>1. Adopt(w, r) \/ Adopt(w, rec[o])
    BY <1>1, <1>6
  <2>2. Adopts(w, rec[o]) \/ Adopts(w, r)
    BY <1>1, <2>1, AdoptAdopts
  <2> QED
    BY <1>0, <1>1, <1>3, <1>4, <1>6, <2>2 DEF Still
<1>7. CASE Return(w) /\ UNCHANGED <<rec, events, ticket>>
  <2>1. task'[w].pc = "sent"
    BY <1>0, <1>7, ReturnFacts
  <2> QED
    BY <1>0, <1>1, <1>3, <1>4, <1>7, <2>1 DEF Still
<1> QED
  BY <1>5, <1>6, <1>7 DEF Retarget

\* So the steps of a holder move its own record only.
LEMMA HolderEffect ==
  ASSUME CoreInv, SlotInv, NEW w \in Workers, Import(w) \/ RecordDb(w) \/ Retarget(w)
  PROVE  Effect(w)
<1> DEFINE o == task[w].op
<1>0. TypeOK
  BY DEF CoreInv
<1>1. HolderCall(w) /\ Holder(w, o) /\ overlaid \subseteq overlaid'
  BY ImportCall, RecordDbCall, RetargetCall DEF Holder
<1>2. Still(o) \/ Grows(o)
  <2>1. CASE Import(w)
    <3>1. Still(o) \/ ImportFact(o, Head(task[w].chain))
      BY <2>1, ImportCall DEF ImportStops
    <3>2. Head(task[w].chain) \in Facts
      BY <2>1, ImportCall, ChainFacts
    <3> QED
      BY <1>0, <1>1, <3>1, <3>2, ImportGrows DEF HolderCall
  <2>2. CASE RecordDb(w)
    BY <2>2, RecordDbCall DEF Commits
  <2>3. CASE Retarget(w)
    BY <2>3, RetargetCall DEF Commits
  <2> QED
    BY <2>1, <2>2, <2>3
<1>3. /\ o \in Ops /\ (\A p \in Ops : p # o => Still(p))
      /\ UNCHANGED <<boot, quarantine, files, sends, reported, acked>>
  BY <1>1 DEF HolderCall
<1> QED
  BY <1>1, <1>2, <1>3, MoveEffect

\* Every step of a caller has these effects.
LEMMA CallerEffect ==
  ASSUME CoreInv, SlotInv, NEW w \in Workers, CallerStep(w)
  PROVE  Effect(w)
<1>0. TypeOK
  BY DEF CoreInv
<1>1. CASE DispatchStep(w)
  BY <1>0, <1>1, QuietSteps, QuietEffect, FileEffects, SlotEffects, OpeningEffects DEF DispatchStep
<1>2. CASE OutcomeStep(w)
  BY <1>0, <1>2, QuietSteps, QuietEffect, FileEffects, FallbackEffect, HolderEffect DEF OutcomeStep
<1> QED
  BY <1>0, <1>1, <1>2, QuietSteps, QuietEffect, OpeningEffects, CancelEffect DEF CallerStep

-----------------------------------------------------------------------------
(* What those effects keep: histories and files *)

\* The records and the histories stay in step.
LEMMA CallerOps ==
  ASSUME CoreInv, SlotInv, NEW w \in Workers, Effect(w), NEW o \in Ops
  PROVE  OpWell(o)'
<1>0. TypeOK /\ TaskWell(w) /\ OpWell(o) /\ HeldOf(w) /\ RecordsOf(w, o)
  BY DEF CoreInv, CallersWell, SlotInv, Effect
<1>1. Reports(w, o) => sends'[o] # 0 /\ rec[o] # None
  BY <1>0 DEF Reports, HeldOf, OpenOf, Holding, RecordsOf, TaskWell, Rec
<1>2. rec[o] # None => rec'[o] # None
  BY <1>0, NoneAssumption DEF RecordsOf, Still, Opens, Grows
<1>3. o \in acked' => o \in acked \/ (rec'[o] # None /\ (rec'[o].cancel \/ sends'[o] # 0))
  BY <1>0, <1>1, <1>2 DEF RecordsOf
<1>4. /\ sends[o] # 0 => sends'[o] # 0
      /\ sends'[o] = 0 => reported'[o] = reported[o]
      /\ Still(o) \/ Opens(o) \/ Grows(o)
  BY <1>0, <1>1 DEF RecordsOf
<1>5. sends \in [Ops -> Nat]
  BY <1>0 DEF TypeOK
<1> QED
  BY <1>0, <1>3, <1>4, <1>5, OpWellStays

\* A slot is still evidence of the operation its capsule is reserved for.
LEMMA CallerSlots ==
  ASSUME CoreInv, CapsuleInv, CapsuleInv', SlotInv, NEW w \in Workers, CapsuleStep(w), Effect(w),
         \A o \in Ops : reported[o] \subseteq reported'[o], NEW c \in Capsules
  PROVE  SlotsOf(c)'
<1>0. TypeOK /\ SlotsOf(c) /\ c # None
  BY OpsAssumption DEF CoreInv, SlotInv
<1>1. SUFFICES ASSUME files'[c] # None
      PROVE  /\ \A i \in {0, 1} : \/ files'[c].slots[i] = Blank
                                  \/ NewEvidence(files'[c].op, files'[c].slots[i])
             /\ \A v \in Workers : task'[v].cap = c => files'[c].op = task'[v].op
             /\ \A o \in Ops : ledger'[o] = c => files'[c].op = o
  BY DEF SlotsOf, Evidence, NewEvidence
<1>2. CASE files'[c] = files[c]
  <2>1. files[c] # None /\ files[c] \in Contents /\ files[c].op \in Ops
    BY <1>0, <1>1, <1>2 DEF TypeOK, Contents
  <2>2. \A i \in {0, 1} : files[c].slots[i] = Blank \/ NewEvidence(files[c].op, files[c].slots[i])
    BY <1>0, <2>1 DEF SlotsOf, Evidence, NewEvidence
  <2>3. c \notin Unused
    BY <2>1 DEF Unused
  <2>4. ASSUME NEW v \in Workers, task'[v].cap = c
        PROVE  files[c].op = task'[v].op
    <3>1. CASE v # w
      BY <1>0, <2>1, <2>4, <3>1 DEF CapsuleStep, OthersKept, SlotsOf
    <3>2. CASE v = w
      BY <1>0, <2>1, <2>3, <2>4, <3>2 DEF CapsuleStep, SlotsOf
    <3> QED
      BY <3>1, <3>2
  <2>5. ASSUME NEW o \in Ops, ledger'[o] = c
        PROVE  files[c].op = o
    <3>1. ledger[o] = c
      BY <1>0, <2>3, <2>5 DEF CapsuleStep, LosesRow, GainsRow
    <3> QED
      BY <1>0, <2>1, <3>1 DEF SlotsOf
  <2> QED
    BY <1>2, <2>2, <2>4, <2>5
<1>3. CASE Fills(w, c)
  <2>1. \A i \in {0, 1} : files'[c].slots[i] = Blank \/ NewEvidence(files'[c].op, files'[c].slots[i])
    <3>1. TAKE i \in {0, 1}
    <3>2. CASE files[c] # None /\ files[c].op = task[w].op /\ files'[c].slots[i] = files[c].slots[i]
      <4>1. files[c].op \in Ops
        BY <1>0, <3>2 DEF TypeOK, Contents
      <4> QED
        BY <1>0, <1>3, <3>2, <4>1 DEF SlotsOf, Evidence, NewEvidence, Fills
    <3> QED
      BY <1>3, <3>2 DEF Fills
  <2>2. CapsMatch /\ task[w].cap = c /\ files'[c].op = task[w].op /\ c \notin Unused
    BY <1>3 DEF CapsuleInv, Fills, Unused
  <2>3. ASSUME NEW v \in Workers, task'[v].cap = c
        PROVE  files'[c].op = task'[v].op
    <3>1. CASE v # w
      BY <1>0, <2>2, <2>3, <3>1 DEF CapsuleStep, OthersKept, CapsMatch
    <3>2. CASE v = w
      BY <1>0, <1>3, <2>2, <2>3, <3>2 DEF Fills
    <3> QED
      BY <3>1, <3>2
  <2>4. ASSUME NEW o \in Ops, ledger'[o] = c
        PROVE  files'[c].op = o
    <3>1. ledger[o] = c
      BY <1>0, <2>2, <2>4 DEF CapsuleStep, LosesRow, GainsRow
    <3> QED
      BY <1>0, <2>2, <3>1 DEF CapsMatch
  <2> QED
    BY <2>1, <2>3, <2>4
<1> QED
  BY <1>1, <1>2, <1>3 DEF Effect

\* A guarded file outlives the steps of every caller.
LEMMA CallerFiles ==
  ASSUME CoreInv, CapsuleInv, SlotInv, NEW w \in Workers, CapsuleStep(w), NEW v \in Workers
  PROVE  FileKept(v)'
<1>0. /\ TypeOK /\ \A u \in Workers : TaskWell(u) /\ CapsuleOf(u) /\ FileKept(u)
      /\ \A u \in Workers \ {w} : task'[u] = task[u]
  BY DEF CoreInv, CallersWell, CapsuleInv, SlotInv, CapsuleStep, OthersKept
<1>1. \A u \in Workers : Guarded(u) => /\ task[u].cap \in Capsules /\ task[u].cap # None
                                       /\ task[u].op \in Ops /\ rec[task[u].op] # None
  BY <1>0, OpsAssumption DEF CapsuleOf, MarksOf, TaskWell, Guarded, Early, Committed, Holding, Rec
<1>2. \A o \in Ops : rec[o] # None /\ ~is_terminal(rec'[o].state) => ~Closed(o)
  BY <1>0, RecStepKeeps DEF CapsuleStep, Kept, Closed
<1>3. ASSUME NEW u \in Workers, Guarded(u), ~Closed(task[u].op), u # w \/ task[w].pc # "rollback_file"
      PROVE  /\ files'[task[u].cap] # None /\ files[task[u].cap] # None
             /\ \A x \in Workers \ {u} : ~Wrecks(x, task[u].cap)
  <2>1. files[task[u].cap] # None /\ \A x \in Workers \ {u} : ~Wrecks(x, task[u].cap)
    BY <1>0, <1>3 DEF FileKept
  <2>2. ~(task[w].pc = "rollback_file" /\ task[w].cap = task[u].cap)
    BY <1>0, <1>3, <2>1 DEF CapsuleOf, MarksOf, Wrecks, Early
  <2>3. ~\E o \in Ops : ledger[o] = task[u].cap /\ Closed(o)
    BY <1>1, <1>3 DEF CapsuleInv, CapsMatch
  <2> QED
    BY <1>1, <1>3, <2>1, <2>2, <2>3 DEF CapsuleStep, LosesFile
<1>4. CASE v # w
  <2>1. SUFFICES ASSUME Guarded(v), ~is_terminal(rec'[task[v].op].state)
        PROVE  /\ files'[task[v].cap] # None
               /\ \A x \in Workers \ {v} : ~Wrecks(x, task[v].cap)'
    BY <1>0, <1>4 DEF FileKept, Guarded, Closed, Wrecks
  <2>2. ~Closed(task[v].op)
    BY <1>1, <1>2, <2>1
  <2>3. /\ files'[task[v].cap] # None /\ files[task[v].cap] # None
        /\ \A x \in Workers \ {v} : ~Wrecks(x, task[v].cap)
    BY <1>3, <1>4, <2>1, <2>2
  <2>4. ~Wrecks(w, task[v].cap)'
    <3>1. task'[v] = task[v] /\ task[v].cap \in Capsules /\ w \in Workers \ {v}
      BY <1>0, <1>1, <1>4, <2>1
    <3> QED
      BY <2>3, <3>1 DEF CapsuleStep, Wrecks
  <2>5. ASSUME NEW x \in Workers \ {v, w}
        PROVE  ~Wrecks(x, task[v].cap)'
    BY <1>0, <1>4, <2>3 DEF Wrecks
  <2> QED
    BY <2>3, <2>4, <2>5
<1>5. CASE v = w
  <2>1. SUFFICES ASSUME Guarded(w)', ~is_terminal(rec'[task'[w].op].state)
        PROVE  /\ files'[task'[w].cap] # None
               /\ \A x \in Workers \ {w} : ~Wrecks(x, task'[w].cap)
    BY <1>0, <1>5 DEF FileKept, Closed, Wrecks
  <2>2. /\ task'[w].op = task[w].op /\ task'[w].cap = task[w].cap /\ task[w].pc # "rollback_file"
        /\ \/ Guarded(w)
           \/ /\ files'[task[w].cap] # None
              /\ task[w].pc = "materialize" \/ (task'[w].made /\ files[task[w].cap] = None)
    BY <2>1 DEF CapsuleStep
  <2>3. CASE Guarded(w)
    <3>1. ~Closed(task[w].op)
      BY <1>1, <1>2, <2>1, <2>2, <2>3
    <3> QED
      BY <1>3, <2>2, <2>3, <3>1
  <2>4. CASE ~Guarded(w)
    <3>1. SUFFICES ASSUME NEW x \in Workers \ {w}, Wrecks(x, task[w].cap)
          PROVE  FALSE
      BY <2>2, <2>4
    <3>2. Guarded(x) /\ task[x].cap = task[w].cap /\ task[x].op = task[w].op
      BY <1>1, <3>1 DEF Wrecks, Guarded, CapsuleInv, CapsMatch
    <3>3. CASE task[w].pc = "materialize"
      BY <1>0, <3>1, <3>2, <3>3 DEF CapsuleOf, FreshOf, Wrecks
    <3>4. CASE files[task[w].cap] = None
      <4>1. ~Closed(task[x].op)
        BY <1>1, <1>2, <2>1, <2>2, <3>2
      <4> QED
        BY <1>0, <3>2, <3>4, <4>1 DEF FileKept
    <3> QED
      BY <2>2, <2>4, <3>3, <3>4
  <2> QED
    BY <2>3, <2>4
<1> QED
  BY <1>4, <1>5

-----------------------------------------------------------------------------
(* What the effects keep: tickets, waiting facts and their capsules *)

\* A record that somebody else cancels stays where the ticket has it.
LEMMA AheadStays ==
  ASSUME TypeOK, NEW o \in Ops, rec[o] # None, Still(o) \/ Cancels(o), NEW v \in Nat
  PROVE  /\ Ahead(o, v) => Ahead(o, v)'
         /\ v <= rec[o].version => v <= rec'[o].version
<1>1. rec[o].version \in Nat
  BY DEF TypeOK, Records
<1>2. CASE Still(o)
  BY <1>2 DEF Still, Ahead
<1>3. CASE Cancels(o)
  <2>1. /\ rec'[o].version = rec[o].version + 1 /\ rec'[o].state = "cancellation_requested"
        /\ rec[o].state # "cancellation_requested"
    BY <1>3, EdgeFacts DEF Cancels, Grows
  <2> QED
    BY <1>1, <2>1 DEF Ahead
<1> QED
  BY <1>2, <1>3

\* The call of another caller, and its ticket.
LEMMA HeldStays ==
  ASSUME CoreInv, SlotInv, NEW v \in Workers, task'[v] = task[v], ticket'[v] = ticket[v],
         task[v].pc \in Committed \cup Holding =>
           LET o == task[v].op IN
           /\ Still(o) \/ Cancels(o)
           /\ reported'[o] = reported[o] /\ (sends[o] # 0 => sends'[o] # 0)
           /\ o \in acked' => o \in acked \/ rec'[o].cancel,
         overlaid \subseteq overlaid',
         task[v].pc \in Holding => files'[task[v].cap] = files[task[v].cap]
  PROVE  HeldOf(v)'
<1> DEFINE o == task[v].op
           t == ticket[v]
<1>0. TypeOK /\ TaskWell(v) /\ HeldOf(v) /\ task[v] \in Tasks
  BY DEF CoreInv, CallersWell, SlotInv, TypeOK
<1>1. SUFFICES ASSUME task[v].pc \in Committed \cup Holding
      PROVE  HeldOf(v)'
  BY <1>0 DEF HeldOf, OpenOf, WaitOf, Committed, Holding
<1>2. /\ o \in Ops /\ rec[o] # None /\ (Still(o) \/ Cancels(o)) /\ reported'[o] = reported[o]
      /\ sends[o] # 0 => sends'[o] # 0
      /\ o \in acked' => o \in acked \/ rec'[o].cancel
  BY <1>0, <1>1 DEF TaskWell, Rec, Committed, Holding
<1>3. /\ Waiting(o)' \subseteq Waiting(o) /\ (Still(o) => Waiting(o)' = Waiting(o))
  BY <1>0, <1>2, WaitingShrinks DEF Cancels
<1>4. ~Closed(o) => ~is_terminal(rec'[o].state)
  BY <1>2 DEF Still, Cancels, Closed, is_terminal, TerminalStates
<1>5. OpenOf(v)'
  BY <1>0, <1>2, <1>4 DEF HeldOf, OpenOf, Closed
<1>6. ChainWell(task[v].chain, o) => ChainWell(task[v].chain, o)'
  BY <1>2 DEF ChainWell, Evidence
<1>7. ASSUME task[v].pc \in Committed
      PROVE  task[v].version + 1 <= rec'[o].version /\ Ahead(o, task[v].version + 1)'
  <2>1. task[v].version + 1 \in Nat
    BY <1>0 DEF Tasks
  <2> QED
    BY <1>0, <1>2, <1>7, <2>1, AheadStays DEF HeldOf, Ahead
<1>8. WaitOf(v)'
  <2>1. SUFFICES ASSUME task[v].pc \in Holding, o \notin overlaid
        PROVE  /\ t.committed <= rec'[o].version /\ Ahead(o, t.version)'
               /\ t.version \in {t.committed, t.committed + 1, t.committed + 2}
               /\ t.version # t.committed => Active(v) = Fact(t) /\ Active(v) \in reported[o]
               /\ \A f \in Waiting(o)' : \/ t.version # t.committed /\ f = Active(v)
                                         \/ t.version = t.committed + 2 /\ f = Inactive(v) /\ f.version < t.version
               /\ task[v].pc = "import" => Waiting(o)' \subseteq In(task[v].chain)
               /\ task[v].pc \in {"refresh", "look", "retarget"} => Waiting(o)' = {}
               /\ task[v].pc = "retarget" => /\ task[v].seen.version <= rec'[o].version
                                             /\ Ahead(o, task[v].seen.version)'
               /\ (o \in acked' /\ ~rec'[o].cancel) =>
                    \E f \in Waiting(o)' : f.state = "cancellation_requested"
    <3>1. /\ Active(v)' = files'[task[v].cap].slots[t.active]
          /\ Inactive(v)' = files'[task[v].cap].slots[1 - t.active]
      BY DEF Active, Inactive
    <3>2. task[v].pc \in Holding => Active(v)' = Active(v) /\ Inactive(v)' = Inactive(v)
      BY <3>1 DEF Active, Inactive
    <3>3. Fact(t)' = Fact(t)
      BY DEF Fact
    <3>4. Waiting(task[v].op)' = Waiting(o)'
      BY DEF Waiting, Done
    <3> QED
      BY <1>2, <2>1, <3>2, <3>3 DEF WaitOf, Ahead, Waiting, Done
  <2>2. t \in Tickets /\ t.committed \in Nat /\ t.version \in Nat
    BY <1>0, <2>1 DEF TaskWell, TypeOK, Tickets
  <2>3. /\ t.committed <= rec[o].version /\ Ahead(o, t.version)
        /\ t.version \in {t.committed, t.committed + 1, t.committed + 2}
        /\ t.version # t.committed => Active(v) = Fact(t) /\ Active(v) \in reported[o]
        /\ \A f \in Waiting(o) : \/ t.version # t.committed /\ f = Active(v)
                                 \/ t.version = t.committed + 2 /\ f = Inactive(v) /\ f.version < t.version
        /\ task[v].pc = "import" => Waiting(o) \subseteq In(task[v].chain)
        /\ task[v].pc \in {"refresh", "look", "retarget"} => Waiting(o) = {}
        /\ task[v].pc = "retarget" => /\ task[v].seen.version <= rec[o].version
                                      /\ Ahead(o, task[v].seen.version)
        /\ (o \in acked /\ ~rec[o].cancel) =>
             \E f \in Waiting(o) : f.state = "cancellation_requested"
    BY <1>0, <2>1 DEF HeldOf, WaitOf
  <2>4. t.committed <= rec'[o].version /\ Ahead(o, t.version)'
    BY <1>0, <1>2, <2>2, <2>3, AheadStays DEF Ahead
  <2>5. ASSUME task[v].pc = "retarget"
        PROVE  task[v].seen.version <= rec'[o].version /\ Ahead(o, task[v].seen.version)'
    <3>1. task[v].seen.version \in Nat
      BY <1>0, <2>5 DEF TaskWell, Tasks, Records
    <3> QED
      BY <1>0, <1>2, <2>3, <2>5, <3>1, AheadStays DEF Ahead
  <2>6. (o \in acked' /\ ~rec'[o].cancel) => \E f \in Waiting(o)' : f.state = "cancellation_requested"
    BY <1>2, <1>3, <2>3 DEF Still, Cancels, Grows
  <2> QED
    BY <1>3, <2>3, <2>4, <2>5, <2>6
<1> QED
  BY <1>0, <1>5, <1>6, <1>7, <1>8 DEF HeldOf, Ahead, ChainWell, Evidence

\* Another caller's ticket still counts what waits: only a cancellation moves its record.
LEMMA OthersHeld ==
  ASSUME CoreInv, CapsuleInv, SlotInv, NEW w \in Workers, CapsuleStep(w), Effect(w), NEW v \in Workers \ {w}
  PROVE  HeldOf(v)'
<1> DEFINE o == task[v].op
           c == task[v].cap
<1>0. /\ TypeOK /\ TaskWell(v) /\ EffectOf(v) /\ CapsuleOf(w) /\ FileKept(v) /\ HeldOf(v)
      /\ OneCaller /\ task'[v] = task[v] /\ ticket'[v] = ticket[v]
  BY DEF CoreInv, CallersWell, CapsuleInv, SlotInv, CapsuleStep, OthersKept
<1>1. ASSUME task[v].pc \in Committed \cup Holding
      PROVE  /\ o \in Ops /\ rec[o] # None
             /\ Still(o) \/ Cancels(o)
             /\ reported'[o] = reported[o] /\ (sends[o] # 0 => sends'[o] # 0)
             /\ o \in acked' => o \in acked \/ rec'[o].cancel
  <2>1. o \in Ops /\ rec[o] # None /\ rec[o].state # "prepared"
    BY <1>0, <1>1 DEF TaskWell, EffectOf, Rec, Committed, Holding
  <2>2. ~Holder(w, o) /\ ~Reports(w, o)
    BY <1>0, <1>1 DEF OneCaller, Holder, Reports, Holding
  <2> QED
    BY <2>1, <2>2 DEF Effect, RecordsOf, Opens
<1>2. ASSUME task[v].pc \in Holding
      PROVE  files'[c] = files[c]
  <2>1. c \in Capsules /\ c # None /\ ~Closed(o)
    BY <1>0, <1>2, OpsAssumption DEF TaskWell, HeldOf, OpenOf
  <2>2. ~is_terminal(rec'[o].state)
    BY <1>1, <1>2, <2>1 DEF Still, Cancels, Closed, is_terminal, TerminalStates
  <2>3. files[c] # None /\ ~Wrecks(w, c)
    BY <1>0, <1>2, <2>1 DEF FileKept, Guarded
  <2>4. files'[c] # None
    <3>1. FileKept(v)'
      BY CallerFiles
    <3> QED
      BY <1>0, <1>2, <2>2, <3>1 DEF FileKept, Guarded, Closed
  <2>5. ~Fills(w, c)
    <3>1. SUFFICES ASSUME Fills(w, c) PROVE FALSE
      OBVIOUS
    <3>2. task[w].cap = c /\ task[w].op = o /\ task[w].pc \in {"slots", "materialize", "record"}
      BY <2>1, <2>3, <3>1 DEF Fills, CapsuleInv, CapsMatch
    <3>3. task[w].pc # "slots"
      BY <1>0, <2>3, <3>2 DEF CapsuleOf, MarksOf, Wrecks, Early
    <3> QED
      BY <1>0, <1>2, <3>2, <3>3 DEF OneCaller, Committed, Holding
  <2> QED
    BY <2>1, <2>4, <2>5 DEF Effect
<1> QED
  BY <1>0, <1>1, <1>2, HeldStays DEF Effect

\* An operation that was never dispatched has nothing to wait for.
LEMMA NothingReported ==
  ASSUME CoreInv, SlotInv, NEW o \in Ops, rec[o] = None \/ rec[o].state = "prepared"
  PROVE  reported[o] = {} /\ sends[o] = 0
  BY DEF CoreInv, CallersWell, Unsent, SlotInv, OpWell

\* Facts that wait keep their order while the record grows.
LEMMA LadderStays ==
  ASSUME CoreInv, SlotInv, NEW o \in Ops, OpWell(o)', Still(o) \/ Opens(o) \/ Grows(o),
         reported'[o] = reported[o], overlaid \subseteq overlaid',
         o \in acked' => o \in acked \/ rec'[o].cancel,
         o \in acked /\ o \notin overlaid' /\ Grows(o) => rec'[o].state # "succeeded"
  PROVE  LadderOf(o)'
<1>0. TypeOK /\ LadderOf(o) /\ OpWell(o)
  BY DEF CoreInv, SlotInv
<1>1. SUFFICES ASSUME o \notin overlaid, o \notin overlaid'
      PROVE  LadderOf(o)'
  BY DEF LadderOf
<1>2. CASE Opens(o)
  <2>1. reported[o] = {} /\ o \notin acked
    BY <1>0, <1>2, NothingReported DEF Opens, OpWell
  <2> QED
    BY <1>2, <2>1 DEF LadderOf, Waiting, Opens
<1>3. CASE rec[o] # None /\ (Still(o) \/ Grows(o))
  <2>1. Waiting(o)' \subseteq Waiting(o)
    BY <1>0, <1>3, WaitingShrinks
  <2>2. \A f \in Waiting(o)' : f.version <= rec[o].version + 1 => f.version <= rec'[o].version + 1
    <3>1. rec[o].version \in Nat /\ \A f \in Waiting(o) : f.version \in Nat
      BY <1>0, <1>3 DEF TypeOK, Records, Waiting, Facts
    <3>2. CASE Still(o)
      BY <3>2 DEF Still
    <3>3. CASE Grows(o)
      BY <2>1, <3>1, <3>3 DEF Grows, Records
    <3> QED
      BY <1>3, <3>2, <3>3
  <2>3. ASSUME o \in acked'
        PROVE  /\ rec'[o].state # "succeeded"
               /\ ~rec'[o].cancel => \A f \in reported[o] : f.state # "succeeded"
    <3>1. CASE rec'[o].cancel
      <4>1. rec'[o] # None
        BY <1>3, NoneAssumption DEF Still, Grows
      <4> QED
        BY <3>1, <4>1 DEF OpWell
    <3>2. CASE ~rec'[o].cancel
      <4>1. o \in acked /\ ~rec[o].cancel
        BY <1>3, <2>3, <3>2 DEF Still, Grows
      <4>2. rec[o].state # "succeeded" /\ \A f \in reported[o] : f.state # "succeeded"
        BY <1>0, <1>1, <4>1 DEF LadderOf
      <4> QED
        BY <1>1, <1>3, <4>1, <4>2 DEF Still
    <3> QED
      BY <3>1, <3>2
  <2> QED
    BY <1>0, <1>1, <2>1, <2>2, <2>3 DEF LadderOf
<1>4. CASE rec[o] = None /\ Still(o)
  <2>1. reported[o] = {} /\ o \notin acked
    BY <1>0, <1>4, NothingReported DEF OpWell
  <2>2. o \in acked' => rec'[o] # None
    BY DEF OpWell
  <2> QED
    BY <1>4, <2>1, <2>2 DEF LadderOf, Waiting, Still
<1> QED
  BY <1>2, <1>3, <1>4 DEF Grows

\* What is settled stays settled.
LEMMA SettledStays ==
  ASSUME TypeOK, NEW o \in Ops, Still(o) \/ Grows(o), NEW f, Settled(o, f)
  PROVE  Settled(o, f)'
<1>1. events[o] \subseteq events'[o]
  BY DEF Still, Grows
<1> QED
  BY <1>1 DEF Settled, Overtaken

\* Facts a cancellation takes the version of are overtaken.
LEMMA CancelsSettle ==
  ASSUME TypeOK, NEW o \in Ops, rec[o] # None, Cancels(o), reported'[o] = reported[o],
         NEW f \in Waiting(o) \ Waiting(o)'
  PROVE  Settled(o, f)'
<1>1. f \in Facts /\ f \in reported[o] /\ ~Done(o, f) /\ Done(o, f)'
  BY DEF Waiting, TypeOK, Done
<1>2. rec[o].version \in Nat /\ f.version \in Nat
  BY <1>1 DEF TypeOK, Records, Facts
<1>3. /\ f.version > rec[o].version
      /\ f.version <= rec'[o].version \/ (f.version = rec'[o].version + 1 /\ f.state = rec'[o].state)
  BY <1>1, DoneStays DEF Cancels
<1>4. /\ rec'[o].version = rec[o].version + 1 /\ rec'[o].state = "cancellation_requested"
      /\ Fact(rec'[o]) \in events'[o]
  BY DEF Cancels, Grows
<1>5. Fact(rec'[o]).version = rec'[o].version /\ Fact(rec'[o]).state = rec'[o].state
  BY DEF Fact
<1>6. CASE f.version <= rec'[o].version
  <2>1. f.version = rec'[o].version
    BY <1>2, <1>3, <1>4, <1>6
  <2> QED
    BY <1>4, <1>5, <2>1 DEF Settled, Overtaken
<1>7. CASE f.state = rec'[o].state
  BY <1>4, <1>5, <1>7 DEF Settled
<1> QED
  BY <1>3, <1>6, <1>7

\* The capsule on which facts wait is still there after the step of a caller.
LEMMA ShelfStays ==
  ASSUME CoreInv, CapsuleInv, SlotInv, NEW w \in Workers, CapsuleStep(w), Effect(w),
         NEW o \in Ops, NEW c \in Capsules, Shelf(o, c), files[c] # None, reported[o] # {},
         ~Reports(w, o)
  PROVE  /\ files'[c] = files[c] /\ ledger'[o] = c
         /\ \A v \in Workers : ~Danger(v, c)'
<1>0. /\ TypeOK /\ c # None /\ ledger[o] = c /\ ~Closed(o) /\ CapsuleOf(w) /\ EffectOf(w) /\ TaskWell(w)
      /\ \A v \in Workers : ~Danger(v, c)
  BY OpsAssumption DEF CoreInv, CallersWell, CapsuleInv, Shelf
<1>1. rec[o] # None /\ rec[o].state # "prepared" /\ sends[o] # 0
  BY NothingReported DEF SlotInv, OpWell
<1>2. ~\E p \in Ops : ledger[p] = c /\ Closed(p)
  BY <1>0 DEF CapsuleInv, RowsApart
<1>3. files'[c] # None
  BY <1>0, <1>2 DEF CapsuleStep, LosesFile, Danger
<1>4. ~Fills(w, c)
  <2>1. SUFFICES ASSUME Fills(w, c) PROVE FALSE
    OBVIOUS
  <2>2. task[w].cap = c /\ task[w].op = o /\ task[w].pc \in {"slots", "materialize", "record"}
    BY <1>0, <2>1 DEF Fills, CapsuleInv, CapsMatch
  <2>3. task[w].pc # "slots"
    BY <1>0, <2>2 DEF CapsuleOf, MarksOf, Danger, Early
  <2>4. task[w].pc # "materialize"
    BY <1>0, <1>1, <2>2 DEF EffectOf, Committed
  <2> QED
    BY <2>1, <2>2, <2>3, <2>4 DEF Fills, Reports
<1>5. ledger'[o] = c
  BY <1>0, <1>1 DEF CapsuleStep, LosesRow, GainsRow
<1>6. ASSUME NEW v \in Workers
      PROVE  ~Danger(v, c)'
  <2>1. CASE v = w
    BY <1>0, <2>1 DEF CapsuleStep
  <2>2. CASE v # w
    BY <1>0, <2>2 DEF CapsuleStep, OthersKept, Danger
  <2> QED
    BY <2>1, <2>2
<1> QED
  BY <1>3, <1>4, <1>5, <1>6 DEF Effect

\* What waits keeps its capsule, if the step settles what it overtakes.
LEMMA RestStays ==
  ASSUME CoreInv, CapsuleInv, SlotInv, NEW w \in Workers, CapsuleStep(w), Effect(w),
         NEW o \in Ops, ~Reports(w, o),
         Grows(o) /\ rec[o].state # "prepared" /\ o \notin overlaid' =>
           /\ \A f \in Waiting(o) \ Waiting(o)' : Settled(o, f)'
           /\ Waiting(o)' # {} => ~is_terminal(rec'[o].state)
  PROVE  RestOf(o)'
<1>0. /\ TypeOK /\ RestOf(o) /\ boot' = boot /\ quarantine' = quarantine /\ quarantine = {}
      /\ boot.pc = "open" /\ reported'[o] = reported[o] /\ (Still(o) \/ Opens(o) \/ Grows(o))
  BY DEF CoreInv, SlotInv, Effect, RecordsOf, BootWell, CapsuleStep, Running
<1>1. SUFFICES ASSUME o \notin overlaid', o \notin stray'
      PROVE  /\ Waiting(o)' # {} => \E c \in Capsules : Keeps(o, c)'
             /\ \A f \in reported[o] \ Waiting(o)' : Settled(o, f)'
  BY <1>0 DEF RestOf
<1>2. o \notin overlaid \cup stray
  BY <1>1 DEF Effect, CapsuleStep
<1>3. CASE rec[o] = None \/ rec[o].state = "prepared"
  BY <1>0, <1>3, NothingReported DEF Waiting
<1>4. CASE rec[o] # None /\ rec[o].state # "prepared"
  <2>1. Still(o) \/ Grows(o)
    BY <1>0, <1>4 DEF Opens
  <2>2. Waiting(o)' \subseteq Waiting(o) /\ (Still(o) => Waiting(o)' = Waiting(o))
    BY <1>0, <1>4, <2>1, WaitingShrinks
  <2>3. ASSUME NEW f \in reported[o] \ Waiting(o)'
        PROVE  Settled(o, f)'
    <3>1. CASE f \in Waiting(o)
      BY <1>1, <1>4, <2>1, <2>2, <2>3, <3>1
    <3>2. CASE f \notin Waiting(o)
      <4>1. Settled(o, f)
        BY <1>0, <1>2, <2>3, <3>2 DEF RestOf, Quarantined
      <4> QED
        BY <1>0, <2>1, <4>1, SettledStays
    <3> QED
      BY <3>1, <3>2
  <2>4. ASSUME Waiting(o)' # {}
        PROVE  \E c \in Capsules : Keeps(o, c)'
    <3>1. PICK c \in Capsules : Keeps(o, c)
      BY <1>0, <1>2, <2>2, <2>4 DEF RestOf
    <3>2. Shelf(o, c) /\ files[c] # None /\ files[c].op = o /\ Waiting(o) \subseteq Slots(c) /\ reported[o] # {}
      BY <1>0, <2>2, <2>4, <3>1 DEF Keeps, Waiting
    <3>3. files'[c] = files[c] /\ ledger'[o] = c /\ \A v \in Workers : ~Danger(v, c)'
      BY <3>2, ShelfStays
    <3>4. ~is_terminal(rec'[o].state)
      BY <1>1, <1>4, <2>1, <2>4, <3>2 DEF Still, Shelf, Closed
    <3>5. Shelf(o, c)'
      BY <1>0, <3>3, <3>4 DEF Shelf, Closed, PerOp
    <3>6. Slots(c)' = Slots(c)
      BY <3>3 DEF Slots
    <3>7. Keeps(o, c)'
      BY <2>2, <3>2, <3>3, <3>5, <3>6 DEF Keeps
    <3> QED
      BY <3>7
  <2> QED
    BY <2>3, <2>4
<1> QED
  BY <1>3, <1>4

\* An operation that the step does not move as the holder of its ticket.
LEMMA OthersRest ==
  ASSUME CoreInv, CapsuleInv, SlotInv, NEW w \in Workers, CapsuleStep(w), Effect(w),
         NEW o \in Ops, ~Reports(w, o), Still(o) \/ ~Holder(w, o)
  PROVE  LadderOf(o)' /\ RestOf(o)'
<1>0. TypeOK /\ OpWell(o)' /\ RecordsOf(w, o) /\ OpWell(o)
  BY CallerOps DEF CoreInv, Effect, SlotInv
<1>1. reported'[o] = reported[o] /\ (o \in acked' => o \in acked \/ rec'[o].cancel) /\ overlaid \subseteq overlaid'
  BY <1>0 DEF RecordsOf, Effect
<1>2. Grows(o) => ~Still(o)
  <2>1. rec[o] # None => rec[o].version \in Nat
    BY <1>0 DEF TypeOK, Records
  <2> QED
    BY <2>1 DEF Grows, Still
<1>3. Still(o) \/ Opens(o) \/ (Grows(o) /\ (rec[o].state = "prepared" \/ Cancels(o)))
  BY <1>0, <1>2 DEF RecordsOf
<1>4. ASSUME o \in acked, Grows(o)
      PROVE  rec'[o].state # "succeeded"
  <2>1. rec[o].state = "prepared" => rec'[o].state # "succeeded"
    BY <1>4, EdgeFacts DEF Grows
  <2> QED
    BY <1>2, <1>3, <1>4, <2>1 DEF Cancels, Opens, Grows
<1>5. LadderOf(o)'
  BY <1>0, <1>1, <1>3, <1>4, LadderStays
<1>6. ASSUME Grows(o), rec[o].state # "prepared"
      PROVE  /\ \A f \in Waiting(o) \ Waiting(o)' : Settled(o, f)'
             /\ ~is_terminal(rec'[o].state)
  <2>1. Cancels(o) /\ rec[o] # None
    BY <1>2, <1>3, <1>6 DEF Opens, Grows
  <2> QED
    BY <1>0, <1>1, <2>1, CancelsSettle DEF Cancels, is_terminal, TerminalStates
<1>7. RestOf(o)'
  BY <1>6, RestStays
<1> QED
  BY <1>5, <1>7

\* If the call of w itself and the operation it moves end well, the invariant holds.
LEMMA CallerFrame ==
  ASSUME CoreInv, CapsuleInv, CapsuleInv', SlotInv, NEW w \in Workers, CapsuleStep(w), Effect(w),
         HeldOf(w)',
         \A o \in Ops : Reports(w, o) \/ (Holder(w, o) /\ ~Still(o)) => LadderOf(o)' /\ RestOf(o)'
  PROVE  SlotInv'
<1>1. \A v \in Workers : FileKept(v)' /\ HeldOf(v)'
  BY CallerFiles, OthersHeld
<1>2. \A o \in Ops : reported[o] \subseteq reported'[o]
  BY DEF Effect, RecordsOf
<1>3. \A c \in Capsules : SlotsOf(c)'
  BY <1>2, CallerSlots
<1>4. \A o \in Ops : OpWell(o)' /\ LadderOf(o)' /\ RestOf(o)'
  BY CallerOps, OthersRest
<1>5. ScanOf'
  BY DEF ScanOf, CapsuleStep, Running, Effect
<1> QED
  BY <1>1, <1>3, <1>4, <1>5 DEF SlotInv

\* A call that is not past its commit, or has given its ticket up.
LEMMA FreeHeld ==
  ASSUME NEW w \in Workers, task'[w].pc \notin Committed \cup Holding
  PROVE  HeldOf(w)'
  BY DEF HeldOf, OpenOf, WaitOf, Committed, Holding

\* What a ticket says of a step that only looks.
LEMMA HeldFacts ==
  ASSUME CoreInv, SlotInv, NEW w \in Workers, task[w].pc \in Holding
  PROVE  LET o == task[w].op
             t == ticket[w]
         IN
         /\ o \in Ops /\ rec[o] # None /\ rec[o] \in Records /\ rec[o].version \in Nat
         /\ t \in Tickets /\ t.version \in Nat /\ t.committed \in Nat /\ task[w].cap \in Capsules
         /\ ~Closed(o) /\ sends[o] # 0 /\ files[task[w].cap] # None /\ files[task[w].cap].op = o
         /\ task[w].pc # "sent" => /\ ~is_terminal(t.state)
                                   /\ \A f \in reported[o] : ~is_terminal(f.state)
         /\ o \notin overlaid /\ ~(t.version - t.committed > 0) =>
              /\ t.version = t.committed /\ Waiting(o) = {}
              /\ o \in acked => rec[o].cancel
<1> DEFINE o == task[w].op
           t == ticket[w]
<1>0. TypeOK /\ TaskWell(w) /\ HeldOf(w) /\ FileKept(w)
  BY DEF CoreInv, CallersWell, SlotInv
<1>1. /\ o \in Ops /\ rec[o] # None /\ rec[o] \in Records /\ rec[o].version \in Nat
      /\ t \in Tickets /\ t.version \in Nat /\ t.committed \in Nat /\ task[w].cap \in Capsules
  BY <1>0 DEF TaskWell, Rec, Holding, TypeOK, Records, Tickets
<1>2. /\ ~Closed(o) /\ sends[o] # 0
      /\ task[w].pc # "sent" => /\ ~is_terminal(t.state)
                                /\ \A f \in reported[o] : ~is_terminal(f.state)
  BY <1>0 DEF HeldOf, OpenOf
<1>3. files[task[w].cap] # None /\ files[task[w].cap].op = o
  BY <1>0, <1>1, <1>2 DEF FileKept, Guarded, SlotInv, SlotsOf
<1>4. ASSUME o \notin overlaid, ~(t.version - t.committed > 0)
      PROVE  t.version = t.committed /\ Waiting(o) = {} /\ (o \in acked => rec[o].cancel)
  <2>1. t.version = t.committed
    BY <1>0, <1>1, <1>4 DEF HeldOf, WaitOf
  <2>2. \A f \in Waiting(o) : FALSE
    BY <1>0, <1>1, <1>4, <2>1 DEF HeldOf, WaitOf
  <2> QED
    BY <1>0, <1>4, <2>1, <2>2 DEF HeldOf, WaitOf
<1> QED
  BY <1>1, <1>2, <1>3, <1>4

\* A ticket that is used on, with its slots as they are.
LEMMA HeldGoesOn ==
  ASSUME CoreInv, SlotInv, NEW w \in Workers, task[w].pc \in Holding, task'[w].pc \in Holding,
         task'[w].op = task[w].op, task'[w].cap = task[w].cap,
         ticket'[w].version = ticket[w].version, ticket'[w].state = ticket[w].state,
         ticket'[w].committed = ticket[w].committed, ticket'[w].active = ticket[w].active,
         Still(task[w].op) \/ Cancels(task[w].op), reported'[task[w].op] = reported[task[w].op],
         sends'[task[w].op] # 0,
         task[w].op \in acked' => task[w].op \in acked \/ rec'[task[w].op].cancel,
         overlaid \subseteq overlaid',
         Active(w)' = Active(w),
         Inactive(w)' = Inactive(w) \/ ~(ticket[w].version - ticket[w].committed > 1),
         task'[w].pc # "sent" => ~is_terminal(ticket[w].state),
         task'[w].pc = "import" => ChainWell(task'[w].chain, task[w].op),
         task'[w].pc = "import" /\ task[w].op \notin overlaid'
           => Waiting(task[w].op) \subseteq In(task'[w].chain),
         task'[w].pc \in {"refresh", "look", "retarget"} /\ task[w].op \notin overlaid'
           => Waiting(task[w].op) = {},
         task'[w].pc = "retarget" => Still(task[w].op) /\ task'[w].seen = rec[task[w].op]
  PROVE  HeldOf(w)'
<1> DEFINE o == task[w].op
           t == ticket[w]
<1>0. TypeOK /\ HeldOf(w)
  BY DEF CoreInv, SlotInv
<1>1. /\ o \in Ops /\ rec[o] # None /\ rec[o] \in Records /\ rec[o].version \in Nat
      /\ t.version \in Nat /\ t.committed \in Nat /\ ~Closed(o)
  BY HeldFacts
<1>2. Waiting(o)' \subseteq Waiting(o) /\ (Still(o) => Waiting(o)' = Waiting(o))
  BY <1>0, <1>1, WaitingShrinks DEF Cancels
<1>3. ~is_terminal(rec'[o].state)
  BY <1>1 DEF Still, Cancels, Closed, is_terminal, TerminalStates
<1>4. OpenOf(w)'
  BY <1>0, <1>3 DEF HeldOf, OpenOf, Closed
<1>5. task'[w].pc = "import" => ChainWell(task[w].chain, task[w].op)'
  BY DEF ChainWell, Evidence
<1>6. WaitOf(w)'
  <2>1. SUFFICES ASSUME o \notin overlaid, o \notin overlaid'
        PROVE  /\ t.committed <= rec'[o].version /\ Ahead(o, t.version)'
               /\ t.version \in {t.committed, t.committed + 1, t.committed + 2}
               /\ t.version # t.committed => Active(w) = Fact(t) /\ Active(w) \in reported[o]
               /\ \A f \in Waiting(o)' : \/ t.version # t.committed /\ f = Active(w)
                                         \/ t.version = t.committed + 2 /\ f = Inactive(w)' /\ f.version < t.version
               /\ task'[w].pc = "import" => Waiting(o)' \subseteq In(task'[w].chain)
               /\ task'[w].pc \in {"refresh", "look", "retarget"} => Waiting(o)' = {}
               /\ task'[w].pc = "retarget" => /\ task'[w].seen.version <= rec'[o].version
                                              /\ Ahead(o, task[w].seen.version)'
               /\ (o \in acked' /\ ~rec'[o].cancel) =>
                    \E f \in Waiting(o)' : f.state = "cancellation_requested"
    <3>1. Fact(t)' = Fact(t)
      BY DEF Fact
    <3> QED
      BY <2>1, <3>1 DEF WaitOf, Ahead, Waiting, Done
  <2>2. /\ t.committed <= rec[o].version /\ Ahead(o, t.version)
        /\ t.version \in {t.committed, t.committed + 1, t.committed + 2}
        /\ t.version # t.committed => Active(w) = Fact(t) /\ Active(w) \in reported[o]
        /\ \A f \in Waiting(o) : \/ t.version # t.committed /\ f = Active(w)
                                 \/ t.version = t.committed + 2 /\ f = Inactive(w) /\ f.version < t.version
        /\ (o \in acked /\ ~rec[o].cancel) =>
             \E f \in Waiting(o) : f.state = "cancellation_requested"
    BY <1>0, <2>1 DEF HeldOf, WaitOf
  <2>3. t.committed <= rec'[o].version /\ Ahead(o, t.version)'
    BY <1>0, <1>1, <2>2, AheadStays DEF Ahead
  <2>4. \A f \in Waiting(o)' : \/ t.version # t.committed /\ f = Active(w)
                               \/ t.version = t.committed + 2 /\ f = Inactive(w)' /\ f.version < t.version
    BY <1>1, <1>2, <2>2
  <2>5. task'[w].pc = "retarget" => /\ task'[w].seen.version <= rec'[o].version
                                    /\ Ahead(o, task[w].seen.version)'
    BY <1>1 DEF Still, Ahead
  <2>6. (o \in acked' /\ ~rec'[o].cancel) => \E f \in Waiting(o)' : f.state = "cancellation_requested"
    BY <1>2, <2>2 DEF Still, Cancels, Grows
  <2> QED
    BY <1>2, <2>1, <2>2, <2>3, <2>4, <2>5, <2>6
<1> QED
  BY <1>4, <1>5, <1>6 DEF HeldOf, Committed, Holding

-----------------------------------------------------------------------------
(* The steps before the ticket and after it *)

\* These hold no ticket afterwards, and write no record of a ticket they held.
LEMMA EarlyFree ==
  ASSUME CoreInv, NEW w \in Workers,
         \/ ReadPrepared(w) \/ Reserve(w) \/ CreateCapsule(w) \/ Reread(w) \/ WriteSlots(w)
         \/ Rollback(w) \/ RollbackRow(w) \/ RollbackFile(w) \/ Drop(w) \/ Confirm(w) \/ Release(w)
         \/ \E o \in Ops : BeginDispatch(w, o) \/ Expire(w, o)
  PROVE  HeldOf(w)' /\ \A o \in Ops : ~Reports(w, o) /\ (Holder(w, o) => Still(o))
<1>0. TypeOK /\ task[w] \in Tasks
  BY DEF CoreInv, TypeOK
<1>1. {"rollback", "slots", "commit", "rollback_row", "rollback_file", "release"} \subseteq PCs
  BY DEF PCs
<1>2. task'[w].pc \in {"idle", "read", "reserve", "create", "reread", "slots", "commit", "rollback",
                       "rollback_row", "rollback_file", "confirm", "release"}
  <2>1. End(w) => task'[w].pc = "idle"
    BY <1>0, EndFacts
  <2>2. \A pc \in PCs : Goto(w, pc) => task'[w].pc = pc
    BY <1>0, GotoFacts
  <2>3. CASE ReadPrepared(w)
    <3>1. CASE task' = [task EXCEPT ![w] = [@ EXCEPT !.pc = "reserve", !.version = Rec(w).version]]
      <4>1. task'[w] = [task[w] EXCEPT !.pc = "reserve", !.version = Rec(w).version]
        BY <1>0, <3>1 DEF TypeOK
      <4> QED
        BY <1>0, <4>1 DEF Tasks
    <3> QED
      BY <2>1, <2>3, <3>1 DEF ReadPrepared
  <2>4. CASE Reserve(w)
    <3>1. ASSUME NEW c, \/ task' = [task EXCEPT ![w] = [@ EXCEPT !.pc = "create", !.cap = c, !.mine = TRUE]]
                        \/ task' = [task EXCEPT ![w] = [@ EXCEPT !.pc = "create", !.cap = c]]
          PROVE  task'[w].pc = "create"
      <4>1. \/ task'[w] = [task[w] EXCEPT !.pc = "create", !.cap = c, !.mine = TRUE]
            \/ task'[w] = [task[w] EXCEPT !.pc = "create", !.cap = c]
        BY <1>0, <3>1 DEF TypeOK
      <4> QED
        BY <1>0, <4>1 DEF Tasks
    <3> QED
      BY <2>1, <2>4, <3>1 DEF Reserve
  <2>5. CASE CreateCapsule(w)
    <3>1. CASE task' = [task EXCEPT ![w] = [@ EXCEPT !.pc = "reread", !.made = TRUE]]
      <4>1. task'[w] = [task[w] EXCEPT !.pc = "reread", !.made = TRUE]
        BY <1>0, <3>1 DEF TypeOK
      <4> QED
        BY <1>0, <4>1 DEF Tasks
    <3> QED
      BY <1>1, <2>2, <2>5, <3>1 DEF CreateCapsule
  <2>6. CASE Reread(w)
    BY <1>1, <2>1, <2>2, <2>6 DEF Reread
  <2>7. CASE WriteSlots(w)
    BY <1>1, <2>2, <2>7 DEF WriteSlots
  <2>8. CASE Rollback(w) \/ RollbackRow(w) \/ RollbackFile(w)
    BY <1>1, <2>1, <2>2, <2>8 DEF Rollback, RollbackRow, RollbackFile
  <2>9. CASE Drop(w) \/ Confirm(w) \/ Release(w)
    BY <1>1, <2>1, <2>2, <2>9 DEF Drop, Confirm, Release
  <2>10. ASSUME NEW o \in Ops, BeginDispatch(w, o) \/ Expire(w, o)
         PROVE  task'[w].pc \in {"read", "confirm"}
    <3>1. \/ task'[w] = [Idle EXCEPT !.pc = "read", !.op = o]
          \/ task'[w] = [Idle EXCEPT !.pc = "confirm", !.op = o]
      BY <1>0, <2>10 DEF BeginDispatch, Expire, TypeOK
    <3> QED
      BY <3>1, IdleFacts DEF Tasks
  <2> QED
    BY <2>3, <2>4, <2>5, <2>6, <2>7, <2>8, <2>9, <2>10
<1>3. HeldOf(w)'
  BY <1>2, FreeHeld DEF Committed, Holding
<1>4. task[w].pc \in Holding => \A o \in Ops : Still(o)
  BY DEF ReadPrepared, Reserve, CreateCapsule, Reread, WriteSlots, Rollback, RollbackRow, RollbackFile,
         Drop, Confirm, Release, BeginDispatch, Expire, At, Holding, Still, durable
<1> QED
  BY <1>2, <1>3, <1>4 DEF Reports, Holder, Holding

\* The commit, and the handoff prepared with it.
LEMMA CommittedHeld ==
  ASSUME CoreInv, SlotInv, NEW w \in Workers,
         CommitDispatch(w) \/ Materialize(w) \/ \E o \in Ops : AtomicDispatch(w, o)
  PROVE  HeldOf(w)' /\ \A o \in Ops : ~Reports(w, o) /\ ~Holder(w, o)
<1>0. TypeOK /\ task[w] \in Tasks /\ TaskWell(w) /\ {"ticket", "rollback"} \subseteq PCs /\ HeldOf(w)
  BY DEF CoreInv, CallersWell, TypeOK, PCs, SlotInv
<1>1. \A o \in Ops : ~Reports(w, o) /\ ~Holder(w, o)
  BY DEF CommitDispatch, Materialize, AtomicDispatch, At, Reports, Holder
<1>2. ASSUME task'[w].pc \in Committed, NEW o \in Ops, task'[w].op = o, NEW n \in Nat,
             task'[w].version = n, rec'[o].version = n + 1
      PROVE  HeldOf(w)'
  <2>1. task'[w].version + 1 <= rec'[task'[w].op].version /\ Ahead(task[w].op, task[w].version + 1)'
    BY <1>2 DEF Ahead
  <2> QED
    BY <1>2, <2>1 DEF HeldOf, OpenOf, WaitOf, Committed, Holding
<1>3. CASE CommitDispatch(w)
  <2> DEFINE o == task[w].op
  <2>1. task[w].pc = "commit" /\ o \in Ops /\ rec[o] # None /\ task[w].version \in Nat
    BY <1>0, <1>3 DEF CommitDispatch, At, TaskWell, Rec, Tasks
  <2>2. CASE Up /\ dispatch_won(w)
    <3>1. /\ allows_transition_to(rec[o].state, "dispatching") /\ rec[o].version = task[w].version
      BY <2>2 DEF dispatch_won, transition_external_operation, validate_external_transition, Rec
    <3>2. commit(o, next_record(rec[o], "dispatching")) /\ Goto(w, "ticket")
      BY <1>3, <2>2 DEF CommitDispatch, Rec
    <3>3. rec'[o].version = task[w].version + 1
      BY <1>0, <2>1, <3>1, <3>2, NextGrows
    <3>4. task'[w] = [task[w] EXCEPT !.pc = "ticket"]
      BY <1>0, <3>2, GotoFacts
    <3>5. task'[w].pc = "ticket" /\ task'[w].op = o /\ task'[w].version = task[w].version
      BY <1>0, <3>4 DEF Tasks
    <3> QED
      BY <1>1, <1>2, <2>1, <3>3, <3>5 DEF Committed
  <2>3. CASE ~(Up /\ dispatch_won(w))
    <3>1. Goto(w, "rollback")
      BY <1>3, <2>3 DEF CommitDispatch
    <3>2. task'[w].pc = "rollback"
      BY <1>0, <3>1, GotoFacts
    <3> QED
      BY <1>1, <3>2, FreeHeld DEF Committed, Holding
  <2> QED
    BY <2>2, <2>3
<1>4. CASE Materialize(w)
  <2>1. task[w].pc = "materialize" /\ rec' = rec
    BY <1>4 DEF Materialize, At
  <2>2. CASE Goto(w, "ticket")
    <3>1. task'[w] = [task[w] EXCEPT !.pc = "ticket"]
      BY <1>0, <2>2, GotoFacts
    <3>2. task'[w].pc = "ticket" /\ task'[w].op = task[w].op /\ task'[w].version = task[w].version
      BY <1>0, <3>1 DEF Tasks
    <3> QED
      BY <1>0, <1>1, <2>1, <3>2 DEF HeldOf, OpenOf, WaitOf, Committed, Holding, Ahead
  <2>3. CASE End(w)
    <3>1. task'[w].pc = "idle"
      BY <1>0, <2>3, EndFacts
    <3> QED
      BY <1>1, <3>1, FreeHeld DEF Committed, Holding
  <2> QED
    BY <1>4, <2>2, <2>3 DEF Materialize
<1>5. ASSUME NEW o \in Ops, AtomicDispatch(w, o)
      PROVE  HeldOf(w)'
  <2>1. PICK c \in Unused : task' = [task EXCEPT ![w] =
          [Idle EXCEPT !.pc = "materialize", !.op = o, !.cap = c, !.version = 1]]
    BY <1>5 DEF AtomicDispatch
  <2>2. task'[w] = [Idle EXCEPT !.pc = "materialize", !.op = o, !.cap = c, !.version = 1]
    BY <1>0, <2>1 DEF TypeOK
  <2>3. task'[w].pc = "materialize" /\ task'[w].op = o /\ task'[w].version = 1
    BY <2>2, IdleFacts DEF Tasks
  <2> DEFINE R == [version |-> 2, state |-> "dispatching", cancel |-> FALSE, started |-> TRUE]
  <2>4. R.version = 2
    OBVIOUS
  <2>5. rec' = [rec EXCEPT ![o] = R]
    BY <1>5 DEF AtomicDispatch
  <2> HIDE DEF R
  <2>6. rec'[o].version = 1 + 1
    BY <1>0, <2>4, <2>5 DEF TypeOK
  <2> QED
    BY <1>2, <2>3, <2>6 DEF Committed
<1> QED
  BY <1>1, <1>3, <1>4, <1>5

\* A ticket that is brought to a committed record.
LEMMA HeldAdopts ==
  ASSUME CoreInv, SlotInv, NEW w \in Workers, task[w].pc \in Holding \ {"sent"},
         task'[w].op = task[w].op, task'[w].pc \in {"sent", "record"},
         Still(task[w].op) \/ Grows(task[w].op), reported'[task[w].op] = reported[task[w].op],
         acked' = acked, overlaid \subseteq overlaid', sends' = sends,
         NEW r \in Records, ticket'[w].version = r.version, ticket'[w].state = r.state,
         ticket'[w].committed = r.version, ~is_terminal(r.state),
         ~is_terminal(rec'[task[w].op].state),
         task[w].op \notin overlaid' =>
           /\ Waiting(task[w].op) = {} /\ r.version <= rec'[task[w].op].version
           /\ \/ rec'[task[w].op].version <= r.version
              \/ /\ rec'[task[w].op].version = r.version + 1
                 /\ rec'[task[w].op].state = "cancellation_requested"
  PROVE  HeldOf(w)'
<1> DEFINE o == task[w].op
<1>0. TypeOK /\ HeldOf(w)
  BY DEF CoreInv, SlotInv
<1>1. /\ o \in Ops /\ rec[o] # None /\ sends[o] # 0
      /\ \A f \in reported[o] : ~is_terminal(f.state)
  BY HeldFacts
<1>2. Waiting(o)' \subseteq Waiting(o)
  BY <1>0, <1>1, WaitingShrinks
<1>3. OpenOf(w)'
  BY <1>1 DEF OpenOf, Closed
<1>4. WaitOf(w)'
  <2>1. SUFFICES ASSUME o \notin overlaid, o \notin overlaid'
        PROVE  /\ Waiting(o)' = {}
               /\ o \in acked => rec'[o].cancel
    BY <2>1 DEF WaitOf, Ahead, Waiting, Done
  <2>2. o \in acked => rec[o].cancel
    BY <1>0, <2>1 DEF HeldOf, WaitOf
  <2> QED
    BY <1>2, <2>1, <2>2 DEF Still, Grows
<1> QED
  BY <1>3, <1>4 DEF HeldOf, Committed, Holding

\* What a transition of the holder leaves of the facts that were reported: none waits
\* for a record it overtakes.
LEMMA CommitsRest ==
  ASSUME CoreInv, CapsuleInv, SlotInv, NEW w \in Workers, CapsuleStep(w), Effect(w),
         NEW o \in Ops, task[w].op = o, task[w].pc \in Holding, Grows(o), ~Reports(w, o),
         reported'[o] = reported[o], acked' = acked,
         o \notin overlaid' => Waiting(o) = {}
  PROVE  LadderOf(o)' /\ RestOf(o)'
<1>0. TypeOK /\ HeldOf(w) /\ rec[o] # None /\ overlaid \subseteq overlaid'
  BY HeldFacts DEF CoreInv, SlotInv, Effect
<1>1. o \in acked /\ o \notin overlaid' => rec[o].cancel
  BY <1>0 DEF HeldOf, WaitOf
<1>2. o \in acked /\ o \notin overlaid' => rec'[o].state # "succeeded"
  BY <1>1 DEF Grows
<1>3. OpWell(o)'
  BY CallerOps
<1>4. LadderOf(o)'
  BY <1>0, <1>2, <1>3, LadderStays
<1>5. Waiting(o)' \subseteq Waiting(o)
  BY <1>0, WaitingShrinks
<1>6. o \notin overlaid' => Waiting(o) = {} /\ Waiting(o)' = {}
  BY <1>5
<1>7. RestOf(o)'
  BY <1>6, RestStays
<1> QED
  BY <1>4, <1>7

\* record_external_operation_outcome and retarget_outcome.
LEMMA DecidesHeld ==
  ASSUME CoreInv, CapsuleInv, SlotInv, NEW w \in Workers, CapsuleStep(w), Effect(w),
         RecordDb(w) \/ Retarget(w)
  PROVE  /\ HeldOf(w)'
         /\ \A o \in Ops : Reports(w, o) \/ (Holder(w, o) /\ ~Still(o)) => LadderOf(o)' /\ RestOf(o)'
<1>0. PICK o \in Ops : task[w].op = o
  BY RecordDbCall, RetargetCall DEF HolderCall
<1>1. /\ TypeOK /\ HeldOf(w) /\ HolderCall(w) /\ task[w].pc \in {"record", "retarget"}
      /\ overlaid \subseteq overlaid' /\ EffectOf(w)
  BY RecordDbCall, RetargetCall DEF CoreInv, CallersWell, SlotInv
<1>2. /\ rec[o] # None /\ rec[o] \in Records /\ rec[o].version \in Nat /\ ~Closed(o) /\ sends[o] # 0
      /\ ticket[w].version \in Nat /\ ticket[w].committed \in Nat /\ ~is_terminal(ticket[w].state)
      /\ task[w].pc \in Holding \ {"sent"} /\ task[w].pc \in Holding
  BY <1>0, <1>1, HeldFacts DEF Holding
<1>3. o \notin overlaid' => Waiting(o) = {}
  <2>1. CASE RecordDb(w)
    <3>1. o \notin overlaid' => o \notin overlaid /\ ~(ticket[w].version - ticket[w].committed > 0)
      BY <1>0, <2>1, RecordDbCall
    <3> QED
      BY <1>0, <1>2, <3>1, HeldFacts
  <2>2. CASE Retarget(w)
    BY <1>0, <1>1, <1>2, <2>2, RetargetCall DEF HeldOf, WaitOf
  <2> QED
    BY <2>1, <2>2
<1>4. ~Reports(w, o)
  BY <1>0, RecordDbCall, RetargetCall DEF Reports
<1>5. \A p \in Ops : p # o => ~Reports(w, p) /\ ~Holder(w, p)
  BY <1>0 DEF Reports, Holder
<1>6. UNCHANGED <<files, sends, reported, acked>> /\ task'[w].op = o /\ task'[w].cap = task[w].cap
  BY <1>0, <1>1 DEF HolderCall
<1>7. ASSUME NEW r \in Records, Adopts(w, r), Still(o) \/ Grows(o),
             ~is_terminal(r.state) => ~is_terminal(rec'[o].state),
             o \notin overlaid' =>
               /\ r.version <= rec'[o].version
               /\ \/ rec'[o].version <= r.version
                  \/ rec'[o].version = r.version + 1 /\ rec'[o].state = "cancellation_requested"
      PROVE  HeldOf(w)'
  <2>1. CASE is_terminal(r.state)
    BY <1>7, <2>1, FreeHeld DEF Adopts, Committed, Holding
  <2>2. CASE ~is_terminal(r.state)
    BY <1>0, <1>1, <1>2, <1>3, <1>6, <1>7, <2>2, HeldAdopts DEF Adopts
  <2> QED
    BY <2>1, <2>2
<1>8. CASE Commits(w)
  <2>1. Grows(o) /\ rec'[o] \in Records /\ Adopts(w, rec'[o]) /\ rec'[o].version \in Nat
    BY <1>0, <1>8 DEF Commits, Grows, Records
  <2>2. HeldOf(w)'
    BY <1>7, <2>1
  <2> QED
    BY <1>0, <1>2, <1>3, <1>4, <1>5, <1>6, <2>1, <2>2, CommitsRest
<1>9. CASE Still(o) /\ Adopts(w, rec[o])
  <2>1. HeldOf(w)'
    BY <1>2, <1>7, <1>9 DEF Still, Closed
  <2> QED
    BY <1>4, <1>5, <1>9, <2>1
<1>10. CASE Retarget(w) /\ Still(o) /\ Adopts(w, task[w].seen)
  <2>1. task[w].seen \in Records /\ overlaid' = overlaid /\ task[w].pc = "retarget"
    BY <1>10, RetargetCall
  <2>2. o \notin overlaid => /\ task[w].seen.version <= rec[o].version
                             /\ Ahead(o, task[w].seen.version)
    BY <1>0, <1>1, <1>2, <2>1 DEF HeldOf, WaitOf
  <2>3. HeldOf(w)'
    BY <1>2, <1>7, <1>10, <2>1, <2>2 DEF Still, Closed, Ahead
  <2> QED
    BY <1>4, <1>5, <1>10, <2>3
<1>11. CASE /\ Still(o) /\ ticket'[w] = ticket[w]
            /\ \/ task'[w].pc \in {"look", "sent"}
               \/ task'[w].pc = "retarget" /\ task'[w].seen = rec[o]
  <2>1. Active(w)' = Active(w) /\ Inactive(w)' = Inactive(w)
    BY <1>6, <1>11 DEF Active, Inactive
  <2>2. HeldOf(w)'
    BY <1>0, <1>1, <1>2, <1>3, <1>6, <1>11, <2>1, HeldGoesOn DEF Holding
  <2> QED
    BY <1>4, <1>5, <1>11, <2>2
<1> QED
  BY <1>0, <1>8, <1>9, <1>10, <1>11, RecordDbCall, RetargetCall

\* The handoff of an operation nothing was reported of.
LEMMA HandoffHeld ==
  ASSUME CoreInv, SlotInv, NEW w \in Workers, Handoff(w)
  PROVE  HeldOf(w)' /\ \A o \in Ops : ~Reports(w, o) /\ Still(o)
<1> DEFINE n == task[w].version + 1
           K == [version |-> n, state |-> "dispatching", cancel |-> FALSE, active |-> 1,
                 committed |-> n, calls |-> 0]
<1>0. /\ TypeOK /\ task[w].pc = "ticket" /\ TaskWell(w) /\ EffectOf(w) /\ HeldOf(w) /\ task[w] \in Tasks
      /\ UNCHANGED <<rec, events, reported, acked, overlaid>>
  BY DEF CoreInv, CallersWell, SlotInv, Handoff, At, TypeOK, durable
<1>1. PICK o \in Ops : task[w].op = o
  BY <1>0 DEF TaskWell
<1>2. /\ rec[o] # None /\ rec[o].state \in {"dispatching", "cancellation_requested"} /\ sends[o] = 0
      /\ OpWell(o)
  BY <1>0, <1>1 DEF TaskWell, EffectOf, Rec, Committed, SlotInv
<1>3. reported[o] = {} /\ (o \in acked => rec[o].cancel) /\ ~Closed(o)
  BY <1>2 DEF OpWell, Closed, is_terminal, TerminalStates
<1>4. n <= rec[o].version /\ Ahead(o, n)
  BY <1>0, <1>1 DEF HeldOf, Committed
<1>5. task'[w].pc = "sent" /\ task'[w].op = o
  BY <1>0, <1>1, ReturnFacts DEF Handoff
<1>6. ticket' = [ticket EXCEPT ![w] = K] /\ sends' = [sends EXCEPT ![o] = @ + 1]
  BY <1>1 DEF Handoff
<1>7. ticket'[w] = K
  BY <1>0, <1>6 DEF TypeOK
<1>8. K.version = n /\ K.committed = n
  OBVIOUS
<1>9. sends'[o] # 0
  BY <1>0, <1>2, <1>6 DEF TypeOK
<1> HIDE DEF n, K
<1>10. OpenOf(w)'
  BY <1>0, <1>3, <1>5, <1>9 DEF OpenOf, Closed
<1>11. WaitOf(w)'
  BY <1>0, <1>3, <1>4, <1>5, <1>7, <1>8 DEF WaitOf, Ahead, Waiting
<1> QED
  BY <1>0, <1>5, <1>10, <1>11 DEF HeldOf, Committed, Reports, Still

\* Two sequences of one element make one of two.
LEMMA Pair ==
  ASSUME NEW S, NEW a \in S, NEW b \in S
  PROVE  <<a>> \o <<b>> = <<a, b>>
<1>1. /\ <<a>> \in Seq(S) /\ <<b>> \in Seq(S) /\ <<a, b>> \in Seq(S)
      /\ Len(<<a>>) = 1 /\ Len(<<b>>) = 1 /\ Len(<<a, b>>) = 2
  OBVIOUS
<1> DEFINE s == <<a>> \o <<b>>
<1>2. Len(s) = 2 /\ s \in Seq(S)
  BY <1>1
<1>3. s[1] = a
  BY <1>1
<1>4. s[2] = b
  BY <1>1
<1>5. \A i \in 1 .. Len(s) : s[i] = <<a, b>>[i]
  <2> HIDE DEF s
  <2>1. \A i \in 1 .. 2 : i = 1 \/ i = 2
    OBVIOUS
  <2> QED
    BY <1>2, <1>3, <1>4, <2>1
<1> HIDE DEF s
<1>6. s = <<a, b>>
  BY <1>1, <1>2, <1>5, SeqEqual
<1> QED
  BY <1>6 DEF s

\* authentic_slots: all of them, in order.
LEMMA AuthenticChain ==
  ASSUME CoreInv, SlotInv, NEW c \in Capsules, files[c] # None,
         NEW ch \in authentic_slots(c) \ {<<>>}
  PROVE  /\ ChainWell(ch, files[c].op)
         /\ \A f \in Slots(c) : f \in Facts => f \in In(ch)
<1> DEFINE s == files[c].slots
           o == files[c].op
           good(i) == IF s[i] = Blank THEN <<>> ELSE <<s[i]>>
<1>0. TypeOK /\ SlotsOf(c) /\ files[c] \in Contents
  BY DEF CoreInv, SlotInv, TypeOK
<1>1. s \in [{0, 1} -> Facts \cup {Blank}]
  BY <1>0 DEF Contents
<1>2. Blank \notin Facts /\ Blank.version = 0
  BY DEF Blank, Facts, States
<1>3. s[0].version \in Nat /\ s[1].version \in Nat
  BY <1>1, <1>2 DEF Facts
<1>4. \A i \in {0, 1} : s[i] # Blank => Evidence(o, s[i])
  BY <1>0 DEF SlotsOf
<1>5. Slots(c) = {s[0], s[1]}
  BY DEF Slots
<1>6. \/ s[0].version < s[1].version /\ ch = good(0) \o good(1)
      \/ s[1].version < s[0].version /\ ch = good(1) \o good(0)
      \/ s[0].version = s[1].version /\ s[0].state = s[1].state /\ ch = good(0) /\ ch # <<>>
  BY <1>3 DEF authentic_slots
<1>13. \A a, b \in Facts : /\ <<a>> \o <<>> = <<a>> /\ <<>> \o <<a>> = <<a>>
                           /\ <<a>> \o <<b>> = <<a, b>>
  <2>1. TAKE a, b \in Facts
  <2>2. <<a>> \o <<>> = <<a>> /\ <<>> \o <<a>> = <<a>>
    OBVIOUS
  <2> QED
    BY <2>2, Pair
<1> HIDE DEF o
<1>7. ASSUME NEW a \in Facts, ch = <<a>>, Evidence(o, a), \A f \in Slots(c) : f \in {a, Blank}
      PROVE  ChainWell(ch, o) /\ \A f \in Slots(c) : f \in Facts => f \in In(ch)
  <2>1. In(<<a>>) = {a}
    BY DEF In
  <2> QED
    BY <1>2, <1>7, <2>1 DEF ChainWell
<1>8. ASSUME NEW a \in Facts, NEW b \in Facts, ch = <<a, b>>, Evidence(o, a), Evidence(o, b),
             a.version <= b.version, \A f \in Slots(c) : f \in {a, b}
      PROVE  ChainWell(ch, o) /\ \A f \in Slots(c) : f \in Facts => f \in In(ch)
  <2>1. In(<<a, b>>) = {a, b}
    BY DEF In
  <2> QED
    BY <1>8, <2>1 DEF ChainWell
<1>9. CASE s[0] = Blank /\ s[1] = Blank
  <2>1. good(0) = <<>> /\ good(1) = <<>>
    BY <1>9
  <2>2. ch = <<>>
    BY <1>6, <2>1
  <2> QED
    BY <2>2
<1>10. CASE s[0] # Blank /\ s[1] = Blank
  <2>1. good(0) = <<s[0]>> /\ good(1) = <<>> /\ s[0] \in Facts
    BY <1>1, <1>10
  <2>2. ch = <<s[0]>>
    <3> HIDE DEF good, s
    <3> QED
      BY <1>6, <1>13, <2>1
  <2>3. Evidence(o, s[0]) /\ \A f \in Slots(c) : f \in {s[0], Blank}
    BY <1>4, <1>5, <1>10
  <2> HIDE DEF s
  <2> QED
    BY <1>7, <2>1, <2>2, <2>3 DEF o
<1>11. CASE s[0] = Blank /\ s[1] # Blank
  <2>1. good(1) = <<s[1]>> /\ good(0) = <<>> /\ s[1] \in Facts
    BY <1>1, <1>11
  <2>2. ch = <<s[1]>>
    <3> HIDE DEF good, s
    <3> QED
      BY <1>6, <1>13, <2>1
  <2>3. Evidence(o, s[1]) /\ \A f \in Slots(c) : f \in {s[1], Blank}
    BY <1>4, <1>5, <1>11
  <2> HIDE DEF s
  <2> QED
    BY <1>7, <2>1, <2>2, <2>3 DEF o
<1>12. CASE s[0] # Blank /\ s[1] # Blank
  <2>1. good(0) = <<s[0]>> /\ good(1) = <<s[1]>> /\ s[0] \in Facts /\ s[1] \in Facts
    BY <1>1, <1>12
  <2>2. Evidence(o, s[0]) /\ Evidence(o, s[1]) /\ Slots(c) = {s[0], s[1]}
    BY <1>4, <1>5, <1>12
  <2>3. s[0].version = s[1].version /\ s[0].state = s[1].state => s[0] = s[1]
    BY <2>1 DEF Facts
  <2> HIDE DEF good, s
  <2>4. CASE s[0].version < s[1].version
    <3>0. ch = good(0) \o good(1)
      BY <1>3, <1>6, <2>4
    <3>1. ch = <<s[0], s[1]>>
      BY <1>13, <2>1, <3>0, Zenon
    <3> QED
      BY <1>3, <1>8, <2>1, <2>2, <2>4, <3>1 DEF o
  <2>5. CASE s[1].version < s[0].version
    <3>0. ch = good(1) \o good(0)
      BY <1>3, <1>6, <2>5
    <3>1. ch = <<s[1], s[0]>>
      BY <1>13, <2>1, <3>0, Zenon
    <3> QED
      BY <1>3, <1>8, <2>1, <2>2, <2>5, <3>1 DEF o
  <2>6. CASE s[0].version = s[1].version
    <3>1. s[0] = s[1] /\ ch = <<s[0]>>
      BY <1>3, <1>6, <2>1, <2>3, <2>6
    <3> QED
      BY <1>7, <2>1, <2>2, <3>1 DEF o
  <2> QED
    BY <1>3, <2>4, <2>5, <2>6
<1> QED
  BY <1>9, <1>10, <1>11, <1>12

\* The steps of record_outcome that only look.
LEMMA LooksHeld ==
  ASSUME CoreInv, SlotInv, NEW w \in Workers,
         (\E s \in Outcomes : RecordOutcome(w, s)) \/ Drain(w) \/ Refresh(w) \/ Look(w)
  PROVE  HeldOf(w)' /\ \A o \in Ops : ~Reports(w, o) /\ Still(o)
<1>0. /\ TypeOK /\ HeldOf(w) /\ SameCall(w) /\ task[w].pc \in Holding /\ task[w] \in Tasks
      /\ "record" \in PCs /\ task[w].pc \in {"sent", "drain", "refresh", "look"}
      /\ UNCHANGED <<rec, events, files, reported, acked, sends, overlaid>>
  BY OutcomeSame DEF CoreInv, SlotInv, TypeOK, PCs, RecordOutcome, Drain, Refresh, Look, At, durable, history
<1>1. PICK o \in Ops : task[w].op = o
  BY <1>0, HeldFacts
<1>2. /\ rec[o] # None /\ rec[o] \in Records /\ rec[o].version \in Nat /\ ~Closed(o) /\ sends[o] # 0
      /\ ticket[w] \in Tickets /\ ticket[w].version \in Nat /\ ticket[w].committed \in Nat
      /\ task[w].cap \in Capsules /\ files[task[w].cap] # None /\ files[task[w].cap].op = o
      /\ task[w].pc # "sent" => ~is_terminal(ticket[w].state)
  BY <1>0, <1>1, HeldFacts
<1>3. Still(o) /\ task'[w].op = o /\ task'[w].cap = task[w].cap
  BY <1>0, <1>1 DEF Still, SameCall
<1>4. \A p \in Ops : ~Reports(w, p) /\ Still(p)
  BY <1>0 DEF Still, Reports
<1> SUFFICES HeldOf(w)'
  BY <1>4
<1>5. ASSUME ticket'[w].version = ticket[w].version, ticket'[w].state = ticket[w].state,
             ticket'[w].committed = ticket[w].committed, ticket'[w].active = ticket[w].active,
             task'[w].pc \in Holding, task'[w].pc # "sent" => ~is_terminal(ticket[w].state),
             task'[w].pc = "import" => ChainWell(task'[w].chain, o),
             task'[w].pc = "import" /\ o \notin overlaid => Waiting(o) \subseteq In(task'[w].chain),
             task'[w].pc \notin {"refresh", "look"},
             task'[w].pc = "retarget" =>
               task'[w].seen = rec[o] /\ (o \notin overlaid => Waiting(o) = {})
      PROVE  HeldOf(w)'
  <2>1. Active(w)' = Active(w) /\ Inactive(w)' = Inactive(w)
    BY <1>0, <1>3, <1>5 DEF Active, Inactive
  <2> QED
    BY <1>0, <1>1, <1>2, <1>3, <1>5, <2>1, HeldGoesOn
<1>6. ASSUME NEW s \in Outcomes, RecordOutcome(w, s)
      PROVE  HeldOf(w)'
  <2>1. /\ task'[w].pc \in {"drain", "record"} /\ ~is_terminal(ticket[w].state)
    <3>1. PICK t \in States, pc \in {"drain", "record"} :
            task' = [task EXCEPT ![w] = [@ EXCEPT !.want = t, !.pc = pc]]
      <4>1. s \in States /\ "completed_after_cancel" \in States
        BY OutcomesAssumption DEF States
      <4> QED
        BY <1>6, <4>1 DEF RecordOutcome
    <3>2. pc \in PCs
      BY DEF PCs
    <3> QED
      BY <1>0, <1>6, <3>1, <3>2, SameCallFacts DEF RecordOutcome, Ticket
  <2>2. PICK k, n : ticket'[w] = [ticket[w] EXCEPT !.cancel = k, !.calls = n]
    BY <1>0, <1>6 DEF RecordOutcome, Ticket, TypeOK
  <2>3. /\ ticket'[w].version = ticket[w].version /\ ticket'[w].state = ticket[w].state
        /\ ticket'[w].committed = ticket[w].committed /\ ticket'[w].active = ticket[w].active
    BY <1>2, <2>2 DEF Tickets
  <2> QED
    BY <1>5, <2>1, <2>3 DEF Holding
<1>7. CASE Drain(w)
  <2>0. ticket' = ticket /\ task[w].pc = "drain"
    BY <1>7 DEF Drain, At
  <2>1. CASE Goto(w, "record")
    BY <1>0, <1>2, <1>5, <2>0, <2>1, GotoFacts DEF Holding
  <2>2. CASE Return(w)
    BY <1>0, <1>2, <1>5, <2>0, <2>2, ReturnFacts DEF Holding
  <2>3. ASSUME NEW ch \in authentic_slots(task[w].cap) \ {<<>>},
               task' = [task EXCEPT ![w] = [@ EXCEPT !.pc = "import", !.chain = ch]]
        PROVE  HeldOf(w)'
    <3>1. ChainWell(ch, o) /\ \A f \in Slots(task[w].cap) : f \in Facts => f \in In(ch)
      BY <1>2, <2>3, AuthenticChain
    <3>2. ch \in Seq(Facts) /\ "import" \in PCs
      BY <1>0, <1>2, AuthenticType DEF PCs
    <3>3. task'[w] = [task[w] EXCEPT !.pc = "import", !.chain = ch]
      BY <1>0, <2>3 DEF TypeOK
    <3>4. task'[w].pc = "import" /\ task'[w].chain = ch
      BY <1>0, <3>3 DEF Tasks
    <3>5. o \notin overlaid => Waiting(o) \subseteq In(ch)
      <4>1. SUFFICES ASSUME o \notin overlaid, NEW f \in Waiting(o)
            PROVE  f \in In(ch)
        OBVIOUS
      <4>2. f \in Facts
        BY <1>0 DEF Waiting, TypeOK
      <4>3. f = Active(w) \/ f = Inactive(w)
        BY <1>0, <1>1, <4>1 DEF HeldOf, WaitOf
      <4>4. ticket[w].active \in {0, 1} /\ 1 - ticket[w].active \in {0, 1}
        BY <1>2 DEF Tickets
      <4>5. f \in Slots(task[w].cap)
        BY <4>3, <4>4 DEF Active, Inactive, Slots
      <4> QED
        BY <3>1, <4>2, <4>5
    <3> QED
      BY <1>2, <1>5, <2>0, <3>1, <3>4, <3>5 DEF Holding
  <2> QED
    BY <1>7, <2>1, <2>2, <2>3 DEF Drain
<1>8. CASE Refresh(w)
  <2>0. task[w].pc = "refresh" /\ task'[w].pc = "record"
    BY <1>0, <1>8, GotoFacts DEF Refresh, At
  <2>1. CASE Up
    <3>1. ticket'[w] = synced(ticket[w], rec[o])
      BY <1>0, <1>1, <1>8, <2>1 DEF Refresh, Rec, TypeOK
    <3>2. /\ ticket'[w].version = rec[o].version /\ ticket'[w].state = rec[o].state
          /\ ticket'[w].committed = rec[o].version
      BY <1>2, <3>1 DEF synced, Tickets
    <3>3. o \notin overlaid => Waiting(o) = {}
      BY <1>0, <1>1, <2>0 DEF HeldOf, WaitOf, Holding
    <3> QED
      BY <1>0, <1>1, <1>2, <1>3, <2>0, <3>2, <3>3, HeldAdopts DEF Still, Closed, Holding
  <2>2. CASE ~Up
    <3>1. ticket' = ticket
      BY <1>8, <2>2 DEF Refresh
    <3> QED
      BY <1>2, <1>5, <2>0, <3>1 DEF Holding
  <2> QED
    BY <2>1, <2>2
<1>9. CASE Look(w)
  <2>0. task[w].pc = "look" /\ ticket' = ticket
    BY <1>9 DEF Look, At
  <2>1. o \notin overlaid => Waiting(o) = {}
    BY <1>0, <1>1, <2>0 DEF HeldOf, WaitOf, Holding
  <2>2. \/ task'[w].pc = "sent"
        \/ task'[w].pc = "retarget" /\ task'[w].seen = rec[o]
    <3>1. CASE Return(w)
      BY <1>0, <3>1, ReturnFacts
    <3>2. CASE task' = [task EXCEPT ![w] = [@ EXCEPT !.pc = "retarget", !.seen = Rec(w)]]
      BY <1>0, <1>1, <1>2, <3>2, SeenFacts DEF Rec
    <3> QED
      BY <1>9, <3>1, <3>2 DEF Look
  <2> QED
    BY <1>2, <1>5, <2>0, <2>1, <2>2 DEF Holding
<1> QED
  BY <1>6, <1>7, <1>8, <1>9

\* request_cancellation.
LEMMA CancelHeld ==
  ASSUME CoreInv, SlotInv, NEW w \in Workers, NEW o \in Ops, Cancel(w, o)
  PROVE  HeldOf(w)' /\ \A p \in Ops : ~Reports(w, p) /\ ~Holder(w, p)
<1>0. /\ TypeOK /\ Effect(w) /\ task[w] \in Tasks /\ EffectOf(w)
      /\ (Still(o) \/ Grows(o)) /\ (o \in acked' => o \in acked \/ rec'[o].cancel)
      /\ UNCHANGED <<files, sends, reported, overlaid>>
      /\ task[w].pc \in {"idle", "sent"} /\ (task[w].pc = "sent" => task[w].op = o)
  BY CancelEffect DEF CoreInv, CallersWell, TypeOK, Cancel, At
<1>1. \A p \in Ops : ~Reports(w, p) /\ ~Holder(w, p)
  BY <1>0 DEF Reports, Holder
<1>2. CASE task' # task
  <2>1. task' = [task EXCEPT ![w] = [@ EXCEPT !.pc = "confirm", !.op = o]]
    BY <1>2 DEF Cancel
  <2>2. task'[w] = [task[w] EXCEPT !.pc = "confirm", !.op = o]
    BY <1>0, <2>1 DEF TypeOK
  <2>3. task'[w].pc = "confirm"
    BY <1>0, <2>2 DEF Tasks
  <2> QED
    BY <1>1, <2>3, FreeHeld DEF Committed, Holding
<1>3. CASE task' = task /\ task[w].pc = "idle"
  BY <1>1, <1>3, FreeHeld DEF Committed, Holding
<1>4. CASE task' = task /\ task[w].pc = "sent"
  <2>1. /\ rec[o] # None /\ sends[o] # 0 /\ ticket[w] \in Tickets /\ rec[o].state # "prepared"
        /\ task[w].pc \in Holding
    BY <1>0, <1>4, HeldFacts DEF EffectOf, Rec, Holding
  <2>2. Still(o) \/ Cancels(o)
    BY <1>0, <1>1, <2>1 DEF Effect, RecordsOf, Opens
  <2>3. ticket' = [ticket EXCEPT ![w].cancel = TRUE]
    BY <1>4 DEF Cancel, At
  <2>4. ticket'[w] = [ticket[w] EXCEPT !.cancel = TRUE]
    BY <1>0, <2>3 DEF TypeOK
  <2>5. /\ ticket'[w].version = ticket[w].version /\ ticket'[w].state = ticket[w].state
        /\ ticket'[w].committed = ticket[w].committed /\ ticket'[w].active = ticket[w].active
    BY <2>1, <2>4 DEF Tickets
  <2>6. Active(w)' = Active(w) /\ Inactive(w)' = Inactive(w)
    BY <1>0, <1>4, <2>5 DEF Active, Inactive
  <2>7. HeldOf(w)'
    BY <1>0, <1>4, <2>1, <2>2, <2>5, <2>6, HeldGoesOn
  <2> QED
    BY <1>1, <2>7
<1> QED
  BY <1>0, <1>2, <1>3, <1>4

-----------------------------------------------------------------------------
(* import_capsule_chain *)

\* A slot that is passed over was done; of what waits, nothing comes before it.
LEMMA DuplicateDone ==
  ASSUME CoreInv, SlotInv, NEW o \in Ops, o \notin overlaid, rec[o] # None,
         NEW ch \in Seq(Facts), ChainWell(ch, o), Waiting(o) \subseteq In(ch),
         import_answer(rec[o], Head(ch)) = "duplicate"
  PROVE  Waiting(o) \subseteq In(Tail(ch))
<1> DEFINE f == Head(ch)
<1>0. TypeOK /\ LadderOf(o)
  BY DEF CoreInv, SlotInv
<1>1. /\ f \in Facts /\ In(ch) = {f} \cup In(Tail(ch))
      /\ Tail(ch) # <<>> => \A a \in In(Tail(ch)) : f.version <= a.version
      /\ In(<<>>) = {}
  BY ChainFacts
<1>2. rec[o].version \in Nat /\ f.version \in Nat
  BY <1>0, <1>1 DEF TypeOK, Records, Facts
<1>3. \A a \in In(ch) : f.version <= a.version
  <2>1. f.version <= f.version
    BY <1>2
  <2>2. \A a \in In(Tail(ch)) : Tail(ch) # <<>>
    BY <1>1, Zenon
  <2> HIDE DEF f
  <2> QED
    BY <1>1, <2>1, <2>2, Zenon
<1>4. f.version <= rec[o].version \/ f.state = rec[o].state
  BY DEF import_answer
<1>5. ASSUME f \in Waiting(o)
      PROVE  FALSE
  <2>1. f.state = rec[o].state /\ f.version > rec[o].version + 1
    BY <1>2, <1>4, <1>5 DEF Waiting, Done
  <2>2. PICK g \in reported[o] : Follows(f, g)
    BY <1>0, <1>2, <1>5, <2>1 DEF LadderOf
  <2>3. g \in Facts /\ g.version \in Nat /\ f.version = g.version + 1 /\ g.state # f.state
    BY <1>0, <2>2, EdgeFacts DEF TypeOK, Facts, Follows
  <2>4. g \in Waiting(o)
    BY <1>2, <2>1, <2>3 DEF Waiting, Done
  <2> QED
    BY <1>2, <1>3, <2>3, <2>4
<1> QED
  BY <1>1, <1>5

\* A slot that is committed was what waited first: what it overtakes with it has its
\* state.
LEMMA CommittedFirst ==
  ASSUME CoreInv, SlotInv, NEW o \in Ops, o \notin overlaid, rec[o] # None,
         NEW ch \in Seq(Facts), ChainWell(ch, o), Waiting(o) \subseteq In(ch),
         rec[o].state # "prepared", reported'[o] = reported[o],
         ImportFact(o, Head(ch)), import_answer(rec[o], Head(ch)) = "committed"
  PROVE  /\ Waiting(o)' \subseteq In(Tail(ch))
         /\ \A g \in Waiting(o) \ Waiting(o)' : g.state = Head(ch).state
<1> DEFINE f == Head(ch)
<1>0. TypeOK /\ LadderOf(o)
  BY DEF CoreInv, SlotInv
<1>1. /\ f \in Facts /\ In(ch) = {f} \cup In(Tail(ch)) /\ Evidence(o, f)
      /\ Tail(ch) # <<>> => \A a \in In(Tail(ch)) : f.version <= a.version
      /\ In(<<>>) = {}
  BY ChainFacts
<1>2. rec[o].version \in Nat /\ f.version \in Nat
  BY <1>0, <1>1 DEF TypeOK, Records, Facts
<1>3. \A a \in In(ch) : f.version <= a.version
  <2>1. f.version <= f.version
    BY <1>2
  <2>2. \A a \in In(Tail(ch)) : Tail(ch) # <<>>
    BY <1>1, Zenon
  <2> HIDE DEF f
  <2> QED
    BY <1>1, <2>1, <2>2, Zenon
<1>4. /\ Grows(o) /\ rec'[o].version = f.version /\ rec'[o].state = f.state
      /\ f.version > rec[o].version /\ f.state # rec[o].state /\ allows_transition_to(rec[o].state, f.state)
  BY <1>0, <1>1, ImportGrows
<1>5. f \in reported[o] /\ f \in Waiting(o)
  BY <1>1, <1>2, <1>4, EdgeFacts DEF Evidence, Waiting, Done
<1>6. Waiting(o)' \subseteq Waiting(o)
  BY <1>0, <1>4, WaitingShrinks
<1>7. Waiting(o)' = {g \in reported[o] : ~Done(o, g)'}
  BY DEF Waiting
<1>8. Done(o, f)'
  BY <1>2, <1>4 DEF Done
<1>9. f \notin Waiting(o)'
  BY <1>7, <1>8 DEF Done
<1>10. ASSUME NEW g \in Waiting(o) \ Waiting(o)', g # f
       PROVE  g.state = f.state
  <2>1. g \in Facts /\ g.version \in Nat /\ g \in In(ch) /\ g \in reported[o]
    BY <1>0, <1>10 DEF Waiting, TypeOK, Facts
  <2>2. g.version = f.version + 1
    BY <1>0, <1>2, <1>3, <1>5, <1>10, <2>1 DEF LadderOf, Follows
  <2>3. g.version <= rec'[o].version \/ (g.version = rec'[o].version + 1 /\ g.state = rec'[o].state)
    BY <1>7, <1>10, <2>1 DEF Done
  <2> QED
    BY <1>2, <1>4, <2>2, <2>3
<1> QED
  BY <1>1, <1>6, <1>9, <1>10

\* A worker's import of one slot: what is left of the chain has what still waits.
LEMMA ImportHeld ==
  ASSUME CoreInv, CapsuleInv, SlotInv, NEW w \in Workers, CapsuleStep(w), Effect(w), Import(w)
  PROVE  /\ HeldOf(w)'
         /\ \A o \in Ops : Reports(w, o) \/ (Holder(w, o) /\ ~Still(o)) => LadderOf(o)' /\ RestOf(o)'
<1>0. /\ TypeOK /\ HeldOf(w) /\ HolderCall(w) /\ task[w].pc = "import" /\ ticket'[w] = ticket[w]
      /\ overlaid' = overlaid /\ EffectOf(w)
  BY ImportCall DEF CoreInv, CallersWell, SlotInv
<1>1. PICK o \in Ops : task[w].op = o
  BY <1>0 DEF HolderCall
<1> DEFINE ch == task[w].chain
           f == Head(ch)
           rest == Tail(ch)
           t == ticket[w]
<1>2. /\ rec[o] # None /\ rec[o] \in Records /\ rec[o].version \in Nat /\ ~Closed(o) /\ sends[o] # 0
      /\ t.version \in Nat /\ t.committed \in Nat /\ ~is_terminal(t.state)
      /\ task[w].pc \in Holding /\ (\A g \in reported[o] : ~is_terminal(g.state))
      /\ rec[o].state # "prepared"
  BY <1>0, <1>1, HeldFacts DEF Holding, EffectOf, Rec
<1>3. ch \in Seq(Facts) /\ ChainWell(ch, o) /\ f \in Facts
      /\ (rest # <<>> => ChainWell(rest, o)) /\ In(<<>>) = {} /\ Evidence(o, f)
  BY <1>1, ImportCall, ChainFacts
<1>4. o \notin overlaid => Waiting(o) \subseteq In(ch)
  BY <1>0, <1>1, <1>2 DEF HeldOf, WaitOf
<1>5. \A p \in Ops : ~Reports(w, p) /\ (p # o => ~Holder(w, p))
  BY <1>0, <1>1 DEF Reports, Holder
<1>6. UNCHANGED <<files, sends, reported, acked>> /\ task'[w].op = o /\ task'[w].cap = task[w].cap
  BY <1>0, <1>1 DEF HolderCall
<1>7. Active(w)' = Active(w) /\ Inactive(w)' = Inactive(w)
  BY <1>0, <1>6 DEF Active, Inactive
<1>8. CASE ImportStops(w)
  <2>1. Still(o) /\ task'[w].pc \in {"record", "sent"}
    BY <1>1, <1>8 DEF ImportStops
  <2>2. HeldOf(w)'
    BY <1>0, <1>1, <1>2, <1>6, <1>7, <2>1, HeldGoesOn DEF Holding
  <2> QED
    BY <1>5, <2>1, <2>2
<1>9. CASE ImportGoesOn(w) /\ ImportFact(o, f)
  <2>0. /\ import_answer(rec[o], f) \in {"committed", "duplicate"}
        /\ task'[w].chain = rest /\ task'[w].pc = IF rest = <<>> THEN "refresh" ELSE "import"
    BY <1>1, <1>9 DEF ImportGoesOn
  <2>1. CASE import_answer(rec[o], f) = "duplicate"
    <3>1. Still(o)
      BY <1>0, <1>2, <1>3, <1>9, <2>1, ImportGrows
    <3>2. o \notin overlaid => Waiting(o) \subseteq In(rest)
      BY <1>2, <1>3, <1>4, <2>1, DuplicateDone
    <3>3. task'[w].pc = "import" => ChainWell(task'[w].chain, o)
      BY <1>3, <2>0
    <3>4. task'[w].pc = "import" /\ o \notin overlaid => Waiting(o) \subseteq In(task'[w].chain)
      BY <2>0, <3>2
    <3>5. task'[w].pc # "import" /\ o \notin overlaid => Waiting(o) = {}
      <4>1. rest = <<>> => In(rest) = {}
        BY <1>3
      <4> QED
        BY <2>0, <3>2, <4>1
    <3>6. task'[w].pc \in {"import", "refresh"}
      BY <2>0
    <3>7. HeldOf(w)'
      BY <1>0, <1>1, <1>2, <1>6, <1>7, <3>1, <3>3, <3>4, <3>5, <3>6, HeldGoesOn DEF Holding
    <3> QED
      BY <1>5, <3>1, <3>7
  <2>2. CASE import_answer(rec[o], f) = "committed"
    <3>1. /\ Grows(o) /\ rec'[o].version = f.version /\ rec'[o].state = f.state
          /\ f.version > rec[o].version /\ f.state # rec[o].state
          /\ allows_transition_to(rec[o].state, f.state)
          /\ rec'[o].cancel = (rec[o].cancel \/ f.state = "cancellation_requested")
      BY <1>0, <1>2, <1>3, <1>9, <2>2, ImportGrows
    <3>2. f \in reported[o] /\ ~is_terminal(rec'[o].state) /\ f.version \in Nat
      BY <1>2, <1>3, <3>1, EdgeFacts DEF Evidence, Facts
    <3>3. f \in Waiting(o)
      BY <1>2, <3>1, <3>2 DEF Waiting, Done
    <3>4. ASSUME o \notin overlaid
          PROVE  /\ Waiting(o)' \subseteq In(rest) /\ Waiting(o)' \subseteq Waiting(o)
                 /\ \A g \in Waiting(o) \ Waiting(o)' : g.state = f.state
      <4>1. Waiting(o)' \subseteq Waiting(o)
        BY <1>0, <1>2, <1>6, <3>1, WaitingShrinks
      <4> QED
        BY <1>2, <1>3, <1>4, <1>6, <1>9, <2>2, <3>4, <4>1, CommittedFirst
    <3>5. LadderOf(o)'
      <4>1. OpWell(o)'
        BY CallerOps
      <4>2. rec'[o].state # "succeeded"
        BY <3>2 DEF is_terminal, TerminalStates
      <4> QED
        BY <1>0, <1>6, <3>1, <4>1, <4>2, LadderStays
    <3>6. RestOf(o)'
      <4>1. ASSUME o \notin overlaid, NEW g \in Waiting(o) \ Waiting(o)'
            PROVE  Settled(o, g)'
        <5>1. g.state = rec'[o].state /\ Fact(rec'[o]) \in events'[o] /\ Fact(rec'[o]).state = rec'[o].state
          BY <3>1, <3>4, <4>1 DEF Grows, Fact
        <5> QED
          BY <5>1 DEF Settled
      <4> QED
        BY <1>0, <1>5, <3>2, <4>1, RestStays
    <3>7. OpenOf(w)'
      BY <1>0, <1>2, <1>6, <3>2 DEF OpenOf, Closed
    <3>8. task'[w].pc = "import" => ChainWell(task[w].chain, task[w].op)'
      BY <1>3, <1>6, <2>0 DEF ChainWell, Evidence
    <3>9. WaitOf(w)'
      <4>1. SUFFICES ASSUME o \notin overlaid
            PROVE  /\ t.committed <= rec'[o].version /\ Ahead(o, t.version)'
                   /\ t.version \in {t.committed, t.committed + 1, t.committed + 2}
                   /\ t.version # t.committed => Active(w) = Fact(t) /\ Active(w) \in reported[o]
                   /\ \A g \in Waiting(o)' :
                        \/ t.version # t.committed /\ g = Active(w)
                        \/ t.version = t.committed + 2 /\ g = Inactive(w) /\ g.version < t.version
                   /\ task'[w].pc = "import" => Waiting(o)' \subseteq In(rest)
                   /\ task'[w].pc = "refresh" => Waiting(o)' = {}
                   /\ task'[w].pc \in {"import", "refresh"}
                   /\ (o \in acked /\ ~rec'[o].cancel) =>
                        \E g \in Waiting(o)' : g.state = "cancellation_requested"
        <5>1. Fact(t)' = Fact(t)
          BY <1>0 DEF Fact
        <5> QED
          BY <1>0, <1>6, <1>7, <2>0, <4>1, <5>1 DEF WaitOf, Ahead, Waiting, Done
      <4>2. /\ t.committed <= rec[o].version
            /\ t.version \in {t.committed, t.committed + 1, t.committed + 2}
            /\ t.version # t.committed => Active(w) = Fact(t) /\ Active(w) \in reported[o]
            /\ \A g \in Waiting(o) :
                 \/ t.version # t.committed /\ g = Active(w)
                 \/ t.version = t.committed + 2 /\ g = Inactive(w) /\ g.version < t.version
            /\ (o \in acked /\ ~rec[o].cancel) =>
                 \E g \in Waiting(o) : g.state = "cancellation_requested"
        BY <1>0, <1>1, <1>2, <4>1 DEF HeldOf, WaitOf
      <4>3. t.committed <= rec'[o].version
        BY <1>2, <3>1, <3>2, <4>2
      <4>4. f.version <= t.version
        BY <1>2, <3>2, <3>3, <4>2 DEF Fact
      <4>5. Ahead(o, t.version)'
        BY <1>0, <3>1, <4>4 DEF Ahead
      <4>6. (o \in acked /\ ~rec'[o].cancel) => \E g \in Waiting(o)' : g.state = "cancellation_requested"
        BY <3>1, <3>4, <4>1, <4>2
      <4>7. task'[w].pc = "refresh" => Waiting(o)' = {}
        <5>1. rest = <<>> => In(rest) = {}
          BY <1>3
        <5> QED
          BY <2>0, <3>4, <4>1, <5>1
      <4> QED
        BY <2>0, <3>4, <4>1, <4>2, <4>3, <4>5, <4>6, <4>7
    <3>10. HeldOf(w)'
      BY <2>0, <3>7, <3>8, <3>9 DEF HeldOf, Committed
    <3> QED
      BY <1>5, <3>5, <3>6, <3>10
  <2> QED
    BY <2>0, <2>1, <2>2
<1> QED
  BY <1>1, <1>8, <1>9, ImportCall

-----------------------------------------------------------------------------
(* write_fallback *)

\* The capsule of a ticket keeps what waits while it is among its slots.
LEMMA FallbackKeeps ==
  ASSUME CoreInv, CapsuleInv, SlotInv, NEW w \in Workers, Fallback(w),
         NEW o \in Ops, task[w].op = o, o \notin stray, NEW c \in Capsules, task[w].cap = c,
         files'[c] # None, files'[c].op = o, Waiting(o)' \subseteq Slots(c)'
  PROVE  Keeps(o, c)'
<1>1. /\ UNCHANGED <<rec, ledger, boot>> /\ OthersKept(w) /\ task'[w].pc = "sent" /\ Running
      /\ task[w].pc = "record"
  BY FallbackCall
<1>2. CapsuleOf(w) /\ ~Closed(o) /\ Guarded(w)
  BY <1>1, HeldFacts DEF CapsuleInv, Guarded, Holding
<1>3. ledger[o] = c /\ \A v \in Workers \ {w} : ~Danger(v, c)
  BY <1>1, <1>2 DEF CapsuleOf, KeepOf
<1>4. \A v \in Workers : ~Danger(v, c)'
  BY <1>1, <1>3 DEF Danger, OthersKept, Early
<1> QED
  BY <1>1, <1>2, <1>3, <1>4 DEF Keeps, Shelf, Closed, Running, PerOp

\* An outcome that did not become durable.
LEMMA BlanksHeld ==
  ASSUME CoreInv, CapsuleInv, SlotInv, NEW w \in Workers, CapsuleStep(w), Effect(w), Fallback(w), Blanks(w),
         NEW o \in Ops, task[w].op = o
  PROVE  HeldOf(w)' /\ LadderOf(o)' /\ RestOf(o)'
<1>0. /\ TypeOK /\ task[w].pc = "record" /\ task'[w].pc = "sent" /\ task'[w].op = o
      /\ task'[w].cap = task[w].cap /\ task[w].pc \in Holding /\ HeldOf(w) /\ RestOf(o)
      /\ UNCHANGED <<rec, events, sends, stray, overlaid, quarantine>> /\ quarantine = {}
  BY FallbackCall DEF SlotInv, Holding
<1>1. PICK c \in Capsules : task[w].cap = c
  BY FallbackCall
<1> DEFINE t == ticket[w]
<1>2. /\ rec[o] # None /\ sends[o] # 0 /\ t \in Tickets /\ t.version \in Nat /\ t.committed \in Nat
      /\ files[c] # None /\ files[c].op = o
  BY <1>0, <1>1, HeldFacts
<1>3. /\ UNCHANGED <<ticket, reported, acked>> /\ files'[c] # None /\ files'[c].op = o
      /\ files'[c].slots[t.active] = files[c].slots[t.active]
  BY <1>1, <1>2, BlanksFacts
<1>4. t.version - t.committed > 1 => files' = files
  <2>1. t.version - t.committed > 1 => ~(t.version - t.committed < 2)
    BY <1>2
  <2>2. t.version - t.committed > 1 => ~chain_open(w)
    BY <2>1 DEF chain_open, pending, Ticket
  <2> QED
    BY <2>2 DEF Fallback
<1>5. Active(w)' = Active(w) /\ (Inactive(w)' = Inactive(w) \/ ~(t.version - t.committed > 1))
  BY <1>0, <1>1, <1>3, <1>4 DEF Active, Inactive
<1>6. Still(o)
  BY <1>0 DEF Still
<1>7. HeldOf(w)'
  BY <1>0, <1>2, <1>3, <1>5, <1>6, HeldGoesOn DEF Holding
<1>8. LadderOf(o)'
  <2>1. OpWell(o)'
    BY CallerOps
  <2>2. ~Grows(o)
    <3>1. rec[o].version \in Nat
      BY <1>0, <1>2 DEF TypeOK, Records
    <3> QED
      BY <1>6, <3>1 DEF Still, Grows
  <2> QED
    BY <1>0, <1>3, <1>6, <2>1, <2>2, LadderStays
<1>9. Waiting(o)' = Waiting(o)
  BY <1>0, <1>2, <1>3, <1>6, WaitingShrinks
<1>10. RestOf(o)'
  <2>1. SUFFICES ASSUME o \notin overlaid \cup stray
        PROVE  /\ Waiting(o)' # {} => \E d \in Capsules : Keeps(o, d)'
               /\ \A f \in reported[o] \ Waiting(o) : Settled(o, f)'
    BY <1>0, <1>3, <1>9 DEF RestOf
  <2>2. \A f \in Waiting(o) : f = Active(w) \/ (t.version - t.committed > 1 /\ f = Inactive(w))
    BY <1>0, <1>2, <2>1 DEF HeldOf, WaitOf
  <2>3. t.active \in {0, 1} /\ 1 - t.active \in {0, 1}
    BY <1>2 DEF Tickets
  <2>4. Waiting(o)' \subseteq Slots(c)'
    <3>1. Active(w)' \in Slots(c)' /\ Inactive(w)' \in Slots(c)'
      BY <1>0, <1>1, <1>3, <2>3 DEF Active, Inactive, Slots
    <3> QED
      BY <1>5, <1>9, <2>2, <3>1
  <2>5. Keeps(o, c)'
    BY <1>1, <1>3, <2>1, <2>4, FallbackKeeps
  <2>6. \A f \in reported[o] \ Waiting(o) : Settled(o, f)
    BY <1>0, <2>1 DEF RestOf, Quarantined
  <2>7. \A f : Settled(o, f) => Settled(o, f)'
    BY <1>0, <1>6, SettledStays
  <2> QED
    BY <2>5, <2>6, <2>7
<1> QED
  BY <1>7, <1>8, <1>10

\* An outcome that became durable follows the one before it, and waits unless somebody
\* cancelled the operation meanwhile or it is what the record says.
LEMMA FallsHeld ==
  ASSUME CoreInv, CapsuleInv, SlotInv, NEW w \in Workers, Fallback(w), Falls(w),
         NEW o \in Ops, task[w].op = o
  PROVE  HeldOf(w)' /\ LadderOf(o)' /\ RestOf(o)'
<1>0. /\ TypeOK /\ task[w].pc = "record" /\ task'[w].pc = "sent" /\ task'[w].op = o
      /\ task'[w].cap = task[w].cap /\ task[w].pc \in Holding
      /\ HeldOf(w) /\ RestOf(o) /\ OpWell(o) /\ LadderOf(o)
      /\ UNCHANGED <<rec, events, sends, stray, overlaid, quarantine>> /\ quarantine = {}
  BY FallbackCall DEF SlotInv, Holding
<1>1. PICK c \in Capsules : task[w].cap = c
  BY FallbackCall
<1>2. PICK f : f = Fallen(w)
  OBVIOUS
<1> DEFINE t == ticket[w]
<1>3. /\ rec[o] # None /\ rec[o].version \in Nat /\ ~Closed(o) /\ sends[o] # 0
      /\ t \in Tickets /\ t.version \in Nat /\ t.committed \in Nat
      /\ files[c].op = o /\ \A g \in reported[o] : ~is_terminal(g.state)
  BY <1>0, <1>1, HeldFacts
<1>4. t.active \in {0, 1} /\ 1 - t.active \in {0, 1} /\ 1 - (1 - t.active) = t.active
  BY <1>3 DEF Tickets
<1>14. /\ f \in Facts /\ f.version = t.version + 1
       /\ t.version - t.committed < 2 /\ allows_transition_to(t.state, f.state)
       /\ files'[task[w].cap] # None /\ files'[task[w].cap].op = files[task[w].cap].op
       /\ files'[task[w].cap].slots[1 - t.active] = f /\ files'[task[w].cap].slots[t.active] = files[task[w].cap].slots[t.active]
       /\ ticket'[w].version = f.version /\ ticket'[w].state = f.state
       /\ ticket'[w].active = 1 - t.active /\ ticket'[w].committed = t.committed
       /\ reported'[task[w].op] = reported[task[w].op] \cup {f}
       /\ task[w].op \in acked' => task[w].op \in acked \/ f.state = "cancellation_requested"
  BY <1>2, FallsFacts
<1>5. /\ f \in Facts /\ f.version = t.version + 1
      /\ t.version - t.committed < 2 /\ allows_transition_to(t.state, f.state)
      /\ files'[c] # None /\ files'[c].op = o
      /\ files'[c].slots[1 - t.active] = f /\ files'[c].slots[t.active] = files[c].slots[t.active]
      /\ ticket'[w].version = f.version /\ ticket'[w].state = f.state
      /\ ticket'[w].active = 1 - t.active /\ ticket'[w].committed = t.committed
      /\ reported'[o] = reported[o] \cup {f}
      /\ o \in acked' => o \in acked \/ f.state = "cancellation_requested"
  BY <1>1, <1>3, <1>14
<1>6. Active(w)' = f /\ Inactive(w)' = Active(w)
  BY <1>0, <1>1, <1>4, <1>5 DEF Active, Inactive
<1>7. Fact(ticket[w])' = f
  BY <1>2, <1>5 DEF Fact, Fallen
<1>8. Waiting(o) \subseteq Waiting(o)' /\ Waiting(o)' \subseteq Waiting(o) \cup {f}
      /\ (~Done(o, f) => f \in Waiting(o)') /\ (f \in Waiting(o)' => ~Done(o, f))
      /\ \A g \in reported[o] : g \notin Waiting(o)' => g \notin Waiting(o)
  BY <1>0, <1>5 DEF Waiting, Done
<1>9. ASSUME o \notin overlaid
      PROVE  /\ t.committed <= rec[o].version /\ Ahead(o, t.version)
             /\ t.version = t.committed \/ t.version = t.committed + 1
             /\ t.version # t.committed =>
                  /\ Active(w) \in reported[o] /\ Active(w).version = t.version
                  /\ Active(w).state = t.state /\ Follows(f, Active(w))
             /\ \A g \in Waiting(o) : t.version # t.committed /\ g = Active(w)
             /\ (o \in acked /\ ~rec[o].cancel) =>
                  \E g \in Waiting(o) : g.state = "cancellation_requested"
  <2>1. /\ t.committed <= rec[o].version /\ Ahead(o, t.version)
        /\ t.version \in {t.committed, t.committed + 1, t.committed + 2}
        /\ t.version # t.committed => Active(w) = Fact(t) /\ Active(w) \in reported[o]
        /\ \A g \in Waiting(o) : \/ t.version # t.committed /\ g = Active(w)
                                 \/ t.version = t.committed + 2
        /\ (o \in acked /\ ~rec[o].cancel) =>
             \E g \in Waiting(o) : g.state = "cancellation_requested"
    BY <1>0, <1>9 DEF HeldOf, WaitOf
  <2>2. t.version # t.committed + 2
    BY <1>3, <1>5
  <2> QED
    BY <1>5, <2>1, <2>2 DEF Fact, Follows
<1>10. ASSUME o \notin overlaid, Done(o, f)
       PROVE  Settled(o, f)' /\ (f.state = "cancellation_requested" => rec[o].cancel)
  <2>1. \/ rec[o].version = f.version /\ rec[o].state = "cancellation_requested"
        \/ f.state = rec[o].state
    BY <1>3, <1>5, <1>9, <1>10 DEF Done, Ahead
  <2>2. Fact(rec[o]) \in events[o] /\ Fact(rec[o]).version = rec[o].version /\ Fact(rec[o]).state = rec[o].state
    BY <1>0, <1>3 DEF OpWell, Fact
  <2>3. Settled(o, f)
    BY <2>1, <2>2 DEF Settled, Overtaken
  <2>4. Settled(o, f)'
    BY <1>0, <2>3 DEF Settled, Overtaken
  <2>5. f.state = "cancellation_requested" => rec[o].cancel
    BY <1>0, <1>3, <2>1 DEF OpWell
  <2> QED
    BY <2>4, <2>5
<1>11. HeldOf(w)'
  <2>1. OpenOf(w)'
    BY <1>0, <1>3, <1>5 DEF OpenOf, Closed
  <2>2. WaitOf(w)'
    <3>1. SUFFICES ASSUME o \notin overlaid
          PROVE  /\ t.committed <= rec[o].version
                 /\ \/ rec[o].version <= f.version
                    \/ rec[o].version = f.version + 1 /\ rec[o].state = "cancellation_requested"
                 /\ f.version \in {t.committed, t.committed + 1, t.committed + 2}
                 /\ \A g \in Waiting(o)' :
                      \/ f.version # t.committed /\ g = f
                      \/ f.version = t.committed + 2 /\ g = Active(w) /\ g.version < f.version
                 /\ (o \in acked' /\ ~rec[o].cancel) =>
                      \E g \in Waiting(o)' : g.state = "cancellation_requested"
      BY <1>0, <1>5, <1>6, <1>7 DEF WaitOf, Ahead, Waiting, Done
    <3>2. rec[o].version <= f.version
      BY <1>3, <1>5, <1>9, <3>1 DEF Ahead
    <3>3. f.version \in {t.committed, t.committed + 1, t.committed + 2} /\ f.version # t.committed
      BY <1>3, <1>5, <1>9, <3>1
    <3>4. ASSUME NEW g \in Waiting(o)', g # f
          PROVE  f.version = t.committed + 2 /\ g = Active(w) /\ g.version < f.version
      <4>1. g \in Waiting(o)
        BY <1>8, <3>4
      <4> QED
        BY <1>3, <1>5, <1>9, <3>1, <4>1
    <3>5. (o \in acked' /\ ~rec[o].cancel) => \E g \in Waiting(o)' : g.state = "cancellation_requested"
      BY <1>5, <1>8, <1>9, <1>10, <3>1
    <3> QED
      BY <1>9, <3>1, <3>2, <3>3, <3>4, <3>5
  <2> QED
    BY <1>0, <2>1, <2>2 DEF HeldOf, Committed
<1>12. LadderOf(o)'
  <2>1. SUFFICES ASSUME o \notin overlaid
        PROVE  /\ \A g, h \in Waiting(o)' : g = h \/ Follows(g, h) \/ Follows(h, g)
               /\ \A g \in Waiting(o)' :
                    g.version <= rec[o].version + 1 \/ \E h \in reported'[o] : Follows(g, h)
               /\ o \in acked' => /\ rec[o].state # "succeeded"
                                  /\ ~rec[o].cancel => \A g \in reported'[o] : g.state # "succeeded"
    BY <1>0 DEF LadderOf, Follows
  <2>2. \A g \in Waiting(o) : Follows(f, g)
    BY <1>9, <2>1
  <2>3. \A g, h \in Waiting(o)' : g = h \/ Follows(g, h) \/ Follows(h, g)
    BY <1>0, <1>8, <2>1, <2>2 DEF LadderOf
  <2>4. f.version <= rec[o].version + 1 \/ \E h \in reported'[o] : Follows(f, h)
    BY <1>3, <1>5, <1>9, <2>1
  <2>5. \A g \in Waiting(o) : g.version <= rec[o].version + 1 \/ \E h \in reported'[o] : Follows(g, h)
    BY <1>0, <1>5, <2>1 DEF LadderOf
  <2>6. rec[o].state # "succeeded" /\ \A g \in reported[o] : g.state # "succeeded"
    BY <1>3 DEF Closed, is_terminal, TerminalStates
  <2>7. ASSUME o \in acked', ~rec[o].cancel
        PROVE  f.state # "succeeded"
    <3>1. CASE o \in acked
      <4>1. t.state = "cancellation_requested"
        BY <1>9, <2>1, <2>7, <3>1
      <4> QED
        BY <1>5, <4>1 DEF allows_transition_to, LegalEdges
    <3> QED
      BY <1>5, <2>7, <3>1
  <2> QED
    BY <1>5, <1>8, <2>3, <2>4, <2>5, <2>6, <2>7
<1>13. RestOf(o)'
  <2>1. SUFFICES ASSUME o \notin overlaid \cup stray
        PROVE  /\ \E d \in Capsules : Keeps(o, d)'
               /\ \A g \in reported'[o] \ Waiting(o)' : Settled(o, g)'
    BY <1>0 DEF RestOf
  <2>2. Waiting(o)' \subseteq Slots(c)'
    <3>1. Active(w)' \in Slots(c)' /\ Inactive(w)' \in Slots(c)'
      BY <1>0, <1>1, <1>4, <1>5 DEF Active, Inactive, Slots
    <3> QED
      BY <1>6, <1>8, <1>9, <2>1, <3>1
  <2>3. Keeps(o, c)'
    BY <1>1, <1>5, <2>1, <2>2, FallbackKeeps
  <2>4. \A g \in reported[o] \ Waiting(o) : Settled(o, g)
    BY <1>0, <2>1 DEF RestOf, Quarantined
  <2>5. \A g : Settled(o, g) => Settled(o, g)'
    BY <1>0 DEF Settled, Overtaken
  <2> QED
    BY <1>5, <1>8, <1>10, <2>1, <2>3, <2>4, <2>5
<1> QED
  BY <1>11, <1>12, <1>13

\* Both ends of write_fallback.
LEMMA FallbackHeld ==
  ASSUME CoreInv, CapsuleInv, SlotInv, NEW w \in Workers, CapsuleStep(w), Effect(w), Fallback(w)
  PROVE  /\ HeldOf(w)'
         /\ \A o \in Ops : Reports(w, o) \/ (Holder(w, o) /\ ~Still(o)) => LadderOf(o)' /\ RestOf(o)'
<1>1. PICK o \in Ops : task[w].op = o
  BY FallbackCall
<1>2. \A p \in Ops : p # o => ~Reports(w, p) /\ ~Holder(w, p)
  BY <1>1 DEF Reports, Holder
<1>3. HeldOf(w)' /\ LadderOf(o)' /\ RestOf(o)'
  BY <1>1, FallbackCases, FallsHeld, BlanksHeld
<1> QED
  BY <1>2, <1>3

-----------------------------------------------------------------------------
(* Every step of a caller *)

\* Every step of a caller keeps the invariant.
LEMMA CallerSlotNext ==
  ASSUME CoreInv, CapsuleInv, CapsuleInv', SlotInv, RecStep, NEW w \in Workers, CallerStep(w)
  PROVE  SlotInv'
<1>1. CapsuleStep(w) /\ Effect(w)
  BY CallerCapsule, CallerEffect
<1> DEFINE Goal == /\ HeldOf(w)'
                   /\ \A o \in Ops : Reports(w, o) \/ (Holder(w, o) /\ ~Still(o)) => LadderOf(o)' /\ RestOf(o)'
<1>2. CASE DispatchStep(w)
  <2>1. Goal
    BY <1>2, EarlyFree, CommittedHeld, HandoffHeld DEF DispatchStep
  <2> QED
    BY <1>1, <2>1, CallerFrame
<1>3. CASE OutcomeStep(w)
  <2>1. Goal
    BY <1>1, <1>3, EarlyFree, LooksHeld, DecidesHeld, ImportHeld, FallbackHeld DEF OutcomeStep
  <2> QED
    BY <1>1, <2>1, CallerFrame
<1>4. ASSUME \/ Drop(w)
             \/ \E o \in Ops : BeginDispatch(w, o) \/ AtomicDispatch(w, o) \/ Cancel(w, o) \/ Expire(w, o)
      PROVE  SlotInv'
  <2>1. Goal
    BY <1>4, EarlyFree, CommittedHeld, CancelHeld
  <2> QED
    BY <1>1, <2>1, CallerFrame
<1> QED
  BY <1>2, <1>3, <1>4 DEF CallerStep

-----------------------------------------------------------------------------
(* The steps of nobody *)

\* A quarantined file is kept, and the one recovery imports from is, or joins them.
KeptAside == \A c \in quarantine : c \in quarantine' /\ files'[c] = files[c]
Carries(o) ==
  \A c \in Capsules :
    (/\ o \notin overlaid \cup stray /\ Waiting(o) # {} /\ Waiting(o) \subseteq Slots(c)
     /\ files[c] # None /\ files[c].op = o /\ c \notin quarantine /\ Shelf(o, c))
    => files'[c] = files[c] /\ (c \in quarantine' \/ Shelf(o, c)')

\* What is in quarantine stays there.
LEMMA QuarantinedStays ==
  ASSUME TypeOK, NEW o, NEW f, KeptAside, Quarantined(o, f)
  PROVE  Quarantined(o, f)'
  BY DEF Quarantined, KeptAside, Slots

\* So an operation whose record does not grow keeps what waits.
LEMMA RestCarried ==
  ASSUME CoreInv, SlotInv, NEW o \in Ops, Still(o) \/ Opens(o), reported'[o] = reported[o],
         overlaid \subseteq overlaid', stray \subseteq stray', KeptAside, Still(o) => Carries(o)
  PROVE  RestOf(o)'
<1>0. TypeOK /\ RestOf(o)
  BY DEF CoreInv, SlotInv
<1>1. CASE rec[o] = None
  BY <1>1, NothingReported DEF RestOf, Waiting
<1>2. CASE rec[o] # None
  <2>0. Still(o)
    BY <1>2 DEF Opens
  <2>1. Waiting(o)' = Waiting(o)
    BY <1>0, <1>2, <2>0, WaitingShrinks
  <2>2. SUFFICES ASSUME o \notin overlaid \cup stray
        PROVE  /\ Waiting(o) # {} => \E c \in Capsules : Keeps(o, c)'
               /\ \A f \in reported[o] \ Waiting(o) : Settled(o, f)' \/ Quarantined(o, f)'
    BY <2>1 DEF RestOf
  <2>3. ASSUME Waiting(o) # {}
        PROVE  \E c \in Capsules : Keeps(o, c)'
    <3>1. PICK c \in Capsules : Keeps(o, c)
      BY <1>0, <2>2, <2>3 DEF RestOf
    <3>2. files'[c] = files[c] /\ (c \in quarantine' \/ Shelf(o, c)')
      BY <2>0, <2>2, <2>3, <3>1 DEF Keeps, KeptAside, Carries
    <3>3. Keeps(o, c)'
      BY <2>1, <3>1, <3>2 DEF Keeps, Slots
    <3> QED
      BY <3>3
  <2>4. \A f \in reported[o] \ Waiting(o) : Settled(o, f)' \/ Quarantined(o, f)'
    BY <1>0, <2>0, <2>2, SettledStays, QuarantinedStays DEF RestOf
  <2> QED
    BY <2>3, <2>4
<1> QED
  BY <1>1, <1>2

\* prepare, and what happens to the database.
LEMMA BystanderSlots ==
  ASSUME CoreInv, SlotInv, UNCHANGED <<ledger, files, quarantine, task, ticket, boot, history>>,
         \A o \in Ops : Still(o) \/ Opens(o)
  PROVE  SlotInv'
<1>0. /\ TypeOK /\ \A w \in Workers : TaskWell(w)
      /\ UNCHANGED <<sends, reported, acked, stray, overlaid>>
  BY DEF CoreInv, CallersWell, history
<1>1. \A o \in Ops : rec[o] # None => Still(o)
  BY DEF Opens
<1>2. \A w \in Workers : task[w].pc # "idle" => task[w].op \in Ops /\ rec[task[w].op] # None
  BY <1>0 DEF TaskWell, Rec
<1>3. ASSUME NEW w \in Workers
      PROVE  HeldOf(w)'
  BY <1>0, <1>1, <1>2, HeldStays DEF Committed, Holding
<1>4. ASSUME NEW w \in Workers
      PROVE  FileKept(w)'
  <2>1. Guarded(w) => task[w].pc # "idle"
    BY <1>0, IdleFacts DEF Guarded, TaskWell, Holding
  <2>2. FileKept(w)
    BY DEF SlotInv
  <2> QED
    BY <1>1, <1>2, <2>1, <2>2 DEF FileKept, Guarded, Wrecks, Closed, Still
<1>5. ASSUME NEW c \in Capsules
      PROVE  SlotsOf(c)'
  <2>1. SlotsOf(c)
    BY DEF SlotInv
  <2> QED
    BY <1>0, <2>1 DEF SlotsOf, Evidence
<1>6. ASSUME NEW o \in Ops
      PROVE  OpWell(o)' /\ LadderOf(o)' /\ RestOf(o)'
  <2>1. OpWell(o)'
    BY <1>0, OpWellStays DEF SlotInv, TypeOK
  <2>2. ~Grows(o)
    <3>1. rec[o] # None => rec[o].version \in Nat
      BY <1>0 DEF TypeOK, Records
    <3> QED
      BY <1>1, <3>1 DEF Still, Grows
  <2>3. LadderOf(o)'
    BY <1>0, <2>1, <2>2, LadderStays
  <2>4. KeptAside
    BY DEF KeptAside
  <2>5. ASSUME Still(o)
        PROVE  Carries(o)
    <3>1. CASE rec[o] = None
      <4>1. Waiting(o) = {}
        BY <3>1, NothingReported DEF Waiting
      <4> QED
        BY <4>1 DEF Carries
    <3>2. CASE rec[o] # None
      <4>1. Waiting(o)' = Waiting(o)
        BY <1>0, <2>5, <3>2, WaitingShrinks
      <4> QED
        BY <2>5, <4>1 DEF Carries, Shelf, Danger, Closed, Still
    <3> QED
      BY <3>1, <3>2
  <2> QED
    BY <1>0, <2>1, <2>3, <2>4, <2>5, RestCarried
<1>7. ScanOf'
  <2>1. boot.pc = "import" => boot.op \in Ops /\ rec[boot.op] # None
    BY DEF CoreInv, BootWell, PerOp
  <2>2. ScanOf
    BY DEF SlotInv
  <2> QED
    BY <1>0, <1>1, <2>1, <2>2 DEF ScanOf, ChainWell, Evidence, Still
<1> QED
  BY <1>3, <1>4, <1>5, <1>6, <1>7 DEF SlotInv

-----------------------------------------------------------------------------
(* start_at *)

\* Recovery has no callers, reports nothing and keeps what is in quarantine.
LEMMA RecoveryFacts ==
  ASSUME CoreInv, BootStep \/ Crash
  PROVE  /\ \A w \in Workers : task'[w] = Idle
         /\ UNCHANGED <<sends, reported, acked, overlaid>> /\ stray \subseteq stray'
         /\ \A o \in Ops : ledger'[o] \in {ledger[o], None}
         /\ \A c \in Capsules : files'[c] \in {files[c], None}
         /\ KeptAside
<1>0. TypeOK
  BY DEF CoreInv
<1>1. \A w \in Workers : task'[w] = Idle
  <2>1. CASE Crash
    BY <2>1 DEF Crash
  <2>2. CASE BootStep
    <3>1. ASSUME BootList \/ BootReclaim \/ BootImport \/ BootFlag \/ BootLatch
          PROVE  ~Running /\ task' = task
      BY <3>1 DEF BootList, BootReclaim, BootImport, BootFlag, BootLatch, Scanning, Running
    <3>2. ASSUME \/ BootConvert \/ BootSettle \/ BootFree \/ BootOrphans \/ BootGate \/ BootFails
          PROVE  ~Running /\ task' = task
      BY <3>2 DEF BootConvert, BootSettle, BootFree, BootOrphans, BootGate, BootFails, Scanning, Running
    <3>3. ASSUME NEW o \in Ops, BootScan(o)
          PROVE  ~Running /\ task' = task
      BY <3>3 DEF BootScan, Scanning, Running
    <3>4. ~Running /\ task' = task
      BY <2>2, <3>1, <3>2, <3>3 DEF BootStep
    <3> QED
      BY <3>4 DEF CoreInv, CallersWell, TaskWell
  <2> QED
    BY <2>1, <2>2
<1>2. UNCHANGED <<sends, reported, acked, overlaid>> /\ stray \subseteq stray'
  <2>1. ASSUME BootFails \/ Crash
        PROVE  UNCHANGED <<sends, reported, acked, overlaid>> /\ stray \subseteq stray'
    BY <2>1 DEF BootFails, Crash
  <2>2. ASSUME BootList \/ BootReclaim \/ BootImport \/ BootFlag \/ BootLatch
        PROVE  UNCHANGED history
    BY <2>2 DEF BootList, BootReclaim, BootImport, BootFlag, BootLatch
  <2>3. ASSUME BootConvert \/ BootSettle \/ BootFree \/ BootOrphans \/ BootGate
        PROVE  UNCHANGED history
    BY <2>3 DEF BootConvert, BootSettle, BootFree, BootOrphans, BootGate
  <2>4. ASSUME NEW o \in Ops, BootScan(o)
        PROVE  UNCHANGED history
    BY <2>4 DEF BootScan
  <2>5. UNCHANGED history => UNCHANGED <<sends, reported, acked, overlaid>> /\ stray \subseteq stray'
    BY DEF history
  <2> QED
    BY <2>1, <2>2, <2>3, <2>4, <2>5 DEF BootStep
<1>3. CASE \E o \in Ops : BootScan(o)
  <2>1. PICK o \in Ops : BootScan(o)
    BY <1>3
  <2>2. \/ files' = files /\ quarantine \subseteq quarantine'
        \/ /\ files' = [files EXCEPT ![ledger[o]] = None] /\ ledger[o] \notin quarantine
           /\ quarantine' = quarantine
    BY <2>1 DEF BootScan, Present
  <2>3. ledger' = ledger \/ ledger' = [ledger EXCEPT ![o] = None]
    BY <2>1 DEF BootScan
  <2> QED
    BY <1>0, <1>1, <1>2, <2>2, <2>3 DEF TypeOK, KeptAside
<1>4. CASE BootSettle
  <2>1. /\ ledger' = ledger /\ quarantine' = quarantine
        /\ \/ files' = files
           \/ files' = [files EXCEPT ![ledger[boot.op]] = None] /\ ledger[boot.op] \notin quarantine
    BY <1>0, <1>4, RemoveFacts DEF BootSettle, Present
  <2> QED
    BY <1>0, <1>1, <1>2, <2>1 DEF TypeOK, KeptAside
<1>5. CASE files' = files /\ quarantine \subseteq quarantine' /\ \A o \in Ops : ledger'[o] \in {ledger[o], None}
  BY <1>1, <1>2, <1>5 DEF KeptAside
<1>6. ASSUME \/ BootList \/ BootImport \/ BootFlag \/ BootLatch \/ BootConvert
             \/ BootOrphans \/ BootGate \/ BootFails \/ Crash
      PROVE  files' = files /\ quarantine \subseteq quarantine' /\ ledger' = ledger
  BY <1>6 DEF BootList, BootImport, BootFlag, BootLatch, BootConvert, BootOrphans, BootGate,
     BootFails, Crash, durable
<1>7. ASSUME BootReclaim \/ BootFree
      PROVE  /\ files' = files /\ quarantine \subseteq quarantine'
             /\ \A o \in Ops : ledger'[o] \in {ledger[o], None}
  BY <1>0, <1>7 DEF BootReclaim, BootFree, TypeOK
<1> QED
  BY <1>3, <1>4, <1>5, <1>6, <1>7 DEF BootStep

\* What is left to show of a step of recovery: what waits is kept.
LEMMA RecoveryFrame ==
  ASSUME CoreInv, SlotInv, BootStep \/ Crash, ScanOf',
         \A o \in Ops : /\ Still(o) \/ Grows(o)
                        /\ o \in acked /\ o \notin overlaid /\ Grows(o) => rec'[o].state # "succeeded"
                        /\ RestOf(o)'
  PROVE  SlotInv'
<1>0. /\ TypeOK /\ \A w \in Workers : task'[w] = Idle
      /\ UNCHANGED <<sends, reported, acked, overlaid>>
      /\ \A o \in Ops : ledger'[o] \in {ledger[o], None}
      /\ \A c \in Capsules : files'[c] \in {files[c], None}
  BY RecoveryFacts DEF CoreInv
<1>1. /\ Idle.pc = "idle" /\ Idle.cap = None /\ Idle.made = FALSE
      /\ \A c \in Capsules : c # None
  BY IdleFacts, OpsAssumption
<1>2. ASSUME NEW w \in Workers
      PROVE  FileKept(w)' /\ HeldOf(w)'
  <2>1. task'[w].pc = "idle" /\ task'[w].made = FALSE
    BY <1>0, <1>1
  <2>2. HeldOf(w)'
    BY <2>1, FreeHeld DEF Committed, Holding
  <2> QED
    BY <2>1, <2>2 DEF FileKept, Guarded, Holding
<1>3. ASSUME NEW c \in Capsules
      PROVE  SlotsOf(c)'
  <2>1. SUFFICES ASSUME files'[c] = files[c], files[c] # None
                 PROVE  SlotsOf(c)'
    BY <1>0 DEF SlotsOf
  <2>2. SlotsOf(c)
    BY DEF SlotInv
  <2>3. \A w \in Workers : task'[w].cap # c
    BY <1>0, <1>1
  <2>4. \A o \in Ops : ledger'[o] = c => ledger[o] = c
    BY <1>0, <1>1
  <2> QED
    BY <1>0, <2>1, <2>2, <2>3, <2>4 DEF SlotsOf, Evidence
<1>4. ASSUME NEW o \in Ops
      PROVE  OpWell(o)' /\ LadderOf(o)'
  <2>1. OpWell(o)'
    BY <1>0, OpWellStays DEF SlotInv, TypeOK
  <2> QED
    BY <1>0, <2>1, LadderStays
<1> QED
  BY <1>2, <1>3, <1>4 DEF SlotInv

\* The capsule recovery will import from, after a step that leaves its operation alone.
LEMMA ShelfKept ==
  ASSUME TypeOK, NEW o \in Ops, NEW c \in Capsules, Shelf(o, c), rec[o] # None, Still(o),
         \A w \in Workers : task'[w] = Idle, ledger'[o] = ledger[o],
         (boot'.op = o /\ boot'.pc \in PerOp) =>
           boot'.pc = "import" /\ Waiting(o)' \subseteq In(boot'.chain)
  PROVE  Shelf(o, c)'
<1>1. Idle.cap = None /\ c # None
  BY IdleFacts, OpsAssumption
<1>2. \A w \in Workers : ~Danger(w, c)'
  BY <1>1 DEF Danger
<1>3. ledger'[o] = c /\ ~Closed(o)'
  BY DEF Shelf, Closed, Still
<1> QED
  BY <1>2, <1>3 DEF Shelf

\* The steps of recovery that are about no operation.
LEMMA WholeSlots ==
  ASSUME CoreInv, SlotInv, BootList \/ BootOrphans \/ BootGate \/ BootFails \/ Crash
  PROVE  SlotInv'
<1>0. TypeOK /\ (BootStep \/ Crash)
  BY DEF CoreInv, BootStep
<1>1. /\ UNCHANGED <<reported, overlaid>> /\ stray \subseteq stray' /\ KeptAside
      /\ \A w \in Workers : task'[w] = Idle
  BY <1>0, RecoveryFacts
<1>2. UNCHANGED <<rec, events, ledger, files>>
  BY DEF BootList, BootOrphans, BootGate, BootFails, Crash, durable
<1>3. boot'.pc \notin PerOp
  <2>1. CASE BootList
    BY <1>0, <2>1 DEF BootList, TypeOK, Boots, CoreInv, PerOp
  <2>2. CASE BootOrphans
    BY <1>0, <2>2, BootGotoFacts DEF BootOrphans, BootPCs, CoreInv, PerOp
  <2>3. CASE \E pc \in {"open", "off", "list"} : boot' = [Open EXCEPT !.pc = pc]
    BY <2>3, OpenFacts DEF BootPCs, PerOp
  <2> QED
    BY <2>1, <2>2, <2>3 DEF BootGate, BootFails, Crash
<1>4. \A o \in Ops : Still(o) /\ ~Grows(o)
  <2>1. \A o \in Ops : rec[o] # None => rec[o].version \in Nat
    BY DEF CoreInv, TypeOK, Records
  <2> QED
    BY <1>2, <2>1 DEF Still, Grows
<1>5. ASSUME NEW o \in Ops
      PROVE  RestOf(o)'
  <2>1. CASE rec[o] = None
    BY <1>1, <2>1, <1>4, NothingReported DEF RestOf, Waiting
  <2>2. CASE rec[o] # None
    <3>1. Carries(o)
      BY <1>1, <1>2, <1>3, <1>4, <2>2, ShelfKept DEF Carries, CoreInv
    <3> QED
      BY <1>1, <1>4, <3>1, RestCarried
  <2> QED
    BY <2>1, <2>2
<1>6. ScanOf'
  BY <1>3 DEF ScanOf, PerOp
<1> QED
  BY <1>0, <1>4, <1>5, <1>6, RecoveryFrame

\* The steps that are about one, past its import: it has nothing left to wait for
\* outside the quarantine.
LEMMA PastImportSlots ==
  ASSUME CoreInv, CapsuleInv, SlotInv,
         BootReclaim \/ BootFlag \/ BootLatch \/ BootSettle \/ BootFree
  PROVE  SlotInv'
<1>0. TypeOK /\ BootStep /\ BootWell
  BY DEF CoreInv, BootStep
<1>1. /\ UNCHANGED <<reported, overlaid>> /\ stray \subseteq stray' /\ KeptAside
      /\ \A w \in Workers : task'[w] = Idle
  BY <1>0, RecoveryFacts
<1>2. UNCHANGED <<rec, events>> /\ boot.pc \in PerOp \ {"import"}
  BY DEF BootReclaim, BootFlag, BootLatch, BootSettle, BootFree, durable, Scanning, PerOp
<1>3. PICK b \in Ops : b = boot.op
  BY <1>0, <1>2 DEF BootWell
<1>4. boot'.op \in {b, None} /\ boot'.pc # "import"
  <2>1. CASE BootNext
    BY <1>0, <2>1, BootNextFacts
  <2>2. CASE BootGoto("convert") \/ BootGoto("free")
    BY <1>0, <1>3, <2>2, BootGotoFacts DEF BootPCs
  <2> QED
    BY <2>1, <2>2 DEF BootReclaim, BootFlag, BootLatch, BootSettle, BootFree
<1>5. \A o \in Ops : o # b => ledger'[o] = ledger[o]
  BY <1>0, <1>3 DEF BootReclaim, BootFlag, BootLatch, BootSettle, BootFree, durable, TypeOK
<1>6. \A c \in Capsules : c # ledger[b] => files'[c] = files[c]
  <2>1. files' = files \/ files' = [files EXCEPT ![ledger[b]] = None]
    BY <1>0, <1>3, RemoveFacts
       DEF BootReclaim, BootFlag, BootLatch, BootSettle, BootFree, durable
  <2> QED
    BY <1>0, <2>1 DEF TypeOK
<1>7. \A o \in Ops : Still(o) /\ ~Grows(o)
  <2>1. \A o \in Ops : rec[o] # None => rec[o].version \in Nat
    BY DEF CoreInv, TypeOK, Records
  <2> QED
    BY <1>2, <2>1 DEF Still, Grows
<1>8. ASSUME NEW o \in Ops
      PROVE  RestOf(o)'
  <2>1. CASE rec[o] = None
    BY <1>1, <2>1, <1>7, NothingReported DEF RestOf, Waiting
  <2>2. CASE o = b
    <3>1. Carries(o)
      BY <1>2, <1>3, <2>2 DEF Carries, Shelf
    <3> QED
      BY <1>1, <1>7, <3>1, RestCarried
  <2>3. CASE rec[o] # None /\ o # b
    <3>1. ASSUME NEW c \in Capsules, Shelf(o, c)
          PROVE  files'[c] = files[c] /\ Shelf(o, c)'
      <4>1. c # ledger[b]
        BY <2>3, <3>1, OpsAssumption DEF Shelf, CapsuleInv, RowsApart
      <4>2. boot'.op # o
        BY <1>4, <2>3, OpsAssumption
      <4> QED
        BY <1>0, <1>1, <1>5, <1>6, <1>7, <2>3, <3>1, <4>1, <4>2, ShelfKept
    <3>2. Carries(o)
      BY <3>1 DEF Carries
    <3> QED
      BY <1>1, <1>7, <3>2, RestCarried
  <2> QED
    BY <2>1, <2>2, <2>3
<1>9. ScanOf'
  BY <1>4 DEF ScanOf
<1> QED
  BY <1>0, <1>7, <1>8, <1>9, RecoveryFrame

\* The scan comes to a reservation: its capsule is imported, or goes to quarantine; one that
\* is missing, or never dispatched from, has nothing that waits.
LEMMA ScanSlots ==
  ASSUME CoreInv, CapsuleInv, SlotInv, NEW b \in Ops, BootScan(b)
  PROVE  SlotInv'
<1>0. TypeOK /\ BootStep /\ BootWell
  BY DEF CoreInv, BootStep
<1>1. /\ UNCHANGED <<reported, overlaid>> /\ stray \subseteq stray' /\ KeptAside
      /\ \A w \in Workers : task'[w] = Idle
  BY <1>0, RecoveryFacts
<1> DEFINE c == ledger[b]
<1>2. /\ UNCHANGED <<rec, events>> /\ boot.pc = "scan" /\ b \in boot.todo /\ boot \in Boots
      /\ boot.op = None
  BY <1>0 DEF BootScan, Scanning, BootWell, TypeOK
<1>3. c \in Capsules /\ rec[b] # None
  BY <1>0, <1>2, OpsAssumption DEF BootWell, CoreInv, RowsWell, TypeOK
<1>4. boot'.op = b
  BY <1>2 DEF BootScan, Boots
<1>5. /\ \A o \in Ops : o # b => ledger'[o] = ledger[o]
      /\ \A d \in Capsules : d # c => files'[d] = files[d]
  BY <1>0 DEF BootScan, TypeOK
<1>6. \A o \in Ops : Still(o) /\ ~Grows(o)
  <2>1. \A o \in Ops : rec[o] # None => rec[o].version \in Nat
    BY DEF CoreInv, TypeOK, Records
  <2> QED
    BY <1>2, <2>1 DEF Still, Grows
<1> DEFINE Takes == /\ Present(c) /\ rec[b].state # "prepared"
                    /\ \E ch \in authentic_slots(c) \ {<<>>} :
                         boot' = [boot EXCEPT !.pc = "import", !.op = b, !.chain = ch]
                    /\ UNCHANGED <<ledger, files, quarantine>>
<1>7. ASSUME Takes
      PROVE  /\ boot'.pc = "import" /\ ChainWell(boot'.chain, b)
             /\ \A f \in Slots(c) : f \in Facts => f \in In(boot'.chain)
  <2>1. files[c] # None /\ files[c].op = b
    BY <1>3, <1>7 DEF Present, SlotInv, SlotsOf
  <2>2. PICK ch \in authentic_slots(c) \ {<<>>} : boot'.pc = "import" /\ boot'.chain = ch
    BY <1>2, <1>7 DEF Boots
  <2> QED
    BY <1>3, <2>1, <2>2, AuthenticChain
<1>8. \/ ~Present(c) /\ boot'.pc = "convert"
      \/ Present(c) /\ rec[b].state = "prepared" /\ boot'.pc = "reclaim"
      \/ Takes
      \/ Present(c) /\ quarantine' = quarantine \cup {c} /\ UNCHANGED files /\ boot'.pc = "flag"
  BY <1>2 DEF BootScan, Boots
<1> HIDE DEF c, Takes
<1>9. Carries(b)
  <2>1. SUFFICES ASSUME NEW d \in Capsules, Waiting(b) # {}, Waiting(b) \subseteq Slots(d),
                        files[d] # None, d \notin quarantine, Shelf(b, d)
                 PROVE  files'[d] = files[d] /\ (d \in quarantine' \/ Shelf(b, d)')
    BY DEF Carries
  <2>2. d = c /\ Present(c)
    BY <2>1 DEF Shelf, Present, c
  <2>3. rec[b].state # "prepared"
    BY <2>1, NothingReported DEF Waiting
  <2>4. CASE Takes
    <3>1. files'[d] = files[d] /\ ledger'[b] = ledger[b]
      BY <2>4 DEF Takes
    <3>2. Waiting(b)' = Waiting(b)
      BY <1>0, <1>1, <1>3, <1>6, WaitingShrinks
    <3>3. Waiting(b) \subseteq Facts
      BY <1>0 DEF TypeOK, Waiting
    <3>4. boot'.pc = "import" /\ Waiting(b)' \subseteq In(boot'.chain)
      BY <1>7, <2>1, <2>2, <2>4, <3>2, <3>3
    <3>5. Shelf(b, d)'
      BY <1>0, <1>1, <1>3, <1>6, <2>1, <3>1, <3>4, ShelfKept
    <3> QED
      BY <3>1, <3>5
  <2>5. CASE quarantine' = quarantine \cup {c} /\ UNCHANGED files
    BY <2>2, <2>5
  <2> QED
    BY <1>8, <2>2, <2>3, <2>4, <2>5
<1>10. ASSUME NEW o \in Ops
       PROVE  RestOf(o)'
  <2>1. CASE rec[o] = None
    BY <1>1, <2>1, <1>6, NothingReported DEF RestOf, Waiting
  <2>2. CASE o = b
    BY <1>1, <1>6, <1>9, <2>2, RestCarried
  <2>3. CASE rec[o] # None /\ o # b
    <3>1. ASSUME NEW d \in Capsules, Shelf(o, d)
          PROVE  files'[d] = files[d] /\ Shelf(o, d)'
      <4>1. d # c
        BY <2>3, <3>1, OpsAssumption DEF Shelf, CapsuleInv, RowsApart, c
      <4> QED
        BY <1>0, <1>1, <1>4, <1>5, <1>6, <2>3, <3>1, <4>1, ShelfKept
    <3>2. Carries(o)
      BY <3>1 DEF Carries
    <3> QED
      BY <1>1, <1>6, <3>2, RestCarried
  <2> QED
    BY <2>1, <2>2, <2>3
<1>11. ScanOf'
  <2>1. SUFFICES ASSUME Takes PROVE ScanOf'
    BY <1>8 DEF ScanOf
  <2>2. ChainWell(boot.chain, boot.op)'
    BY <1>1, <1>4, <1>7, <2>1 DEF ChainWell, Evidence
  <2> QED
    BY <1>2, <1>4, <2>1, <2>2 DEF ScanOf, Takes
<1> QED
  BY <1>0, <1>6, <1>10, <1>11, RecoveryFrame

\* The record at hand grows: what it overtakes outside the quarantine is settled, and what
\* still waits has its capsule.
Settles(o) ==
  \A c \in Capsules :
    (/\ o \notin overlaid \cup stray /\ Waiting(o) # {} /\ Waiting(o) \subseteq Slots(c)
     /\ files[c] # None /\ files[c].op = o /\ c \notin quarantine /\ Shelf(o, c))
    => /\ Waiting(o)' # {} => files'[c] = files[c] /\ (c \in quarantine' \/ Shelf(o, c)')
       /\ \A g \in Waiting(o) \ Waiting(o)' : Settled(o, g)'

\* Then the operation's outcomes are still accounted for.
LEMMA RestGrown ==
  ASSUME CoreInv, SlotInv, NEW o \in Ops, Grows(o), reported'[o] = reported[o],
         overlaid \subseteq overlaid', stray \subseteq stray', KeptAside, Settles(o)
  PROVE  RestOf(o)'
<1>0. TypeOK /\ RestOf(o) /\ rec[o] # None
  BY DEF CoreInv, SlotInv, Grows
<1>1. Waiting(o)' \subseteq Waiting(o)
  BY <1>0, WaitingShrinks
<1>2. SUFFICES ASSUME o \notin overlaid \cup stray
      PROVE  /\ Waiting(o)' # {} => \E c \in Capsules : Keeps(o, c)'
             /\ \A f \in reported[o] \ Waiting(o)' : Settled(o, f)' \/ Quarantined(o, f)'
  BY DEF RestOf
<1>3. \A f \in reported[o] \ Waiting(o) : Settled(o, f)' \/ Quarantined(o, f)'
  BY <1>0, <1>2, SettledStays, QuarantinedStays DEF RestOf
<1>4. CASE Waiting(o) = {}
  BY <1>1, <1>3, <1>4
<1>5. CASE Waiting(o) # {}
  <2>1. PICK c \in Capsules : Keeps(o, c)
    BY <1>0, <1>2, <1>5 DEF RestOf
  <2>2. CASE c \in quarantine
    <3>1. files'[c] = files[c] /\ c \in quarantine' /\ files[c].op = o /\ Waiting(o) \subseteq Slots(c)
          /\ files[c] # None
      BY <2>1, <2>2 DEF KeptAside, Keeps
    <3>2. Slots(c)' = Slots(c)
      BY <3>1 DEF Slots
    <3>3. Keeps(o, c)'
      BY <1>1, <3>1, <3>2 DEF Keeps
    <3>4. \A g \in Waiting(o) : Quarantined(o, g)'
      BY <3>1, <3>2 DEF Quarantined
    <3> QED
      BY <1>3, <3>3, <3>4
  <2>3. CASE c \notin quarantine
    <3>1. /\ Waiting(o)' # {} => files'[c] = files[c] /\ (c \in quarantine' \/ Shelf(o, c)')
          /\ \A g \in Waiting(o) \ Waiting(o)' : Settled(o, g)'
      BY <1>2, <1>5, <2>1, <2>3 DEF Keeps, Settles
    <3>2. ASSUME Waiting(o)' # {}
          PROVE  Keeps(o, c)'
      BY <1>1, <2>1, <3>1, <3>2 DEF Keeps, Slots
    <3> QED
      BY <1>3, <3>1, <3>2
  <2> QED
    BY <2>2, <2>3
<1> QED
  BY <1>4, <1>5

\* What a step about one operation keeps for the others.
LEMMA OthersCarried ==
  ASSUME CoreInv, SlotInv, BootStep, NEW b \in Ops, boot'.op = b,
         UNCHANGED <<ledger, files>>, NEW o \in Ops, o # b, Still(o)
  PROVE  RestOf(o)'
<1>0. TypeOK
  BY DEF CoreInv
<1>1. /\ UNCHANGED <<reported, overlaid>> /\ stray \subseteq stray' /\ KeptAside
      /\ \A w \in Workers : task'[w] = Idle
  BY RecoveryFacts
<1>2. CASE rec[o] = None
  BY <1>1, <1>2, NothingReported DEF RestOf, Waiting
<1>3. CASE rec[o] # None
  <2>1. Carries(o)
    BY <1>0, <1>1, <1>3, ShelfKept DEF Carries
  <2> QED
    BY <1>1, <2>1, RestCarried
<1> QED
  BY <1>2, <1>3

\* A record left without evidence is converted.
LEMMA ConvertSlots ==
  ASSUME CoreInv, SlotInv, BootConvert
  PROVE  SlotInv'
<1>0. TypeOK /\ BootStep /\ BootWell /\ boot.pc = "convert"
  BY DEF CoreInv, BootStep, BootConvert, Scanning
<1>1. /\ UNCHANGED <<reported, overlaid, ledger, files>> /\ stray \subseteq stray' /\ KeptAside
  BY <1>0, RecoveryFacts DEF BootConvert
<1>2. PICK b \in Ops : b = boot.op /\ rec[b] # None
  BY <1>0 DEF BootWell, PerOp
<1>3. boot'.pc = "settle" /\ boot'.op = b
  BY <1>0, <1>2, BootGotoFacts DEF BootConvert, BootPCs
<1>4. /\ \A o \in Ops : o # b => Still(o)
      /\ Still(b) \/ (Grows(b) /\ rec'[b].state = "submission_unknown")
  <2>1. CASE rec[b].state = "dispatching"
    <3>1. allows_transition_to(rec[b].state, "submission_unknown")
      BY <2>1 DEF allows_transition_to, LegalEdges
    <3>2. commit(b, next_record(rec[b], "submission_unknown"))
      BY <1>2, <2>1 DEF BootConvert, convert_if_dispatching
    <3> QED
      BY <1>0, <1>2, <3>1, <3>2, NextGrows
  <2>2. CASE rec[b].state # "dispatching"
    BY <1>2, <2>2 DEF BootConvert, convert_if_dispatching, Still
  <2> QED
    BY <2>1, <2>2
<1>5. \A c : ~Shelf(b, c)
  BY <1>0, <1>2 DEF Shelf, PerOp
<1>6. RestOf(b)'
  <2>1. Carries(b) /\ Settles(b)
    BY <1>5 DEF Carries, Settles
  <2> QED
    BY <1>1, <1>4, <2>1, RestCarried, RestGrown
<1>7. ASSUME NEW o \in Ops, o # b
      PROVE  RestOf(o)'
  BY <1>0, <1>1, <1>3, <1>4, <1>7, OthersCarried
<1>8. ASSUME NEW o \in Ops, Grows(o)
      PROVE  rec'[o].state # "succeeded"
  <2>1. ~Still(o)
    <3>1. rec[o] # None /\ rec[o].version \in Nat
      BY <1>0, <1>8 DEF Grows, TypeOK, Records
    <3> QED
      BY <1>8, <3>1 DEF Grows, Still
  <2> QED
    BY <1>4, <2>1
<1>9. ScanOf'
  BY <1>3 DEF ScanOf
<1> QED
  BY <1>0, <1>4, <1>6, <1>7, <1>8, <1>9, RecoveryFrame

\* import_capsule_chain by recovery. Evidence no edge reaches goes to quarantine with its
\* capsule; a slot that is imported leaves the rest of the chain to what still waits.
LEMMA ImportSlots ==
  ASSUME CoreInv, SlotInv, BootImport
  PROVE  SlotInv'
<1> DEFINE ch == boot.chain
           f == Head(ch)
           rest == Tail(ch)
<1>0. TypeOK /\ BootStep /\ BootWell /\ boot.pc = "import" /\ boot \in Boots /\ ScanOf
  BY DEF CoreInv, BootStep, BootImport, Scanning, TypeOK, SlotInv
<1>1. /\ UNCHANGED <<reported, overlaid, acked, ledger, files>> /\ stray \subseteq stray' /\ KeptAside
      /\ \A w \in Workers : task'[w] = Idle
  BY <1>0, RecoveryFacts DEF BootImport
<1>2. PICK b \in Ops : b = boot.op /\ rec[b] # None
  BY <1>0 DEF BootWell, PerOp
<1>3. /\ ch \in Seq(Facts) /\ ChainWell(ch, b) /\ rec[b].state # "prepared" /\ f \in Facts
      /\ (rest # <<>> => ChainWell(rest, b)) /\ In(<<>>) = {} /\ Evidence(b, f)
  <2>1. ch \in Seq(Facts) /\ ChainWell(ch, b) /\ rec[b].state # "prepared"
    BY <1>0, <1>2 DEF Boots, ScanOf
  <2> QED
    BY <2>1, ChainFacts
<1>4. rec[b].version \in Nat /\ f.version \in Nat
  BY <1>0, <1>2, <1>3 DEF TypeOK, Records, Facts
<1> DEFINE answer == import_answer(rec[b], f)
<1>5. /\ ImportFact(b, f) /\ boot'.op = b /\ answer \in {"duplicate", "committed", "conflict"}
      /\ answer = "conflict" => boot'.pc = "latch" /\ quarantine' = quarantine \cup {ledger[b]}
      /\ answer # "conflict" => /\ boot'.chain = rest
                                /\ boot'.pc = IF rest = <<>> THEN "convert" ELSE "import"
  BY <1>0, <1>2 DEF BootImport, Boots, import_answer
<1>6. /\ \A o \in Ops : o # b => Still(o)
      /\ answer # "committed" => Still(b)
      /\ answer = "committed" =>
           /\ Grows(b) /\ rec'[b].version = f.version /\ rec'[b].state = f.state
           /\ f.version > rec[b].version /\ f.state # rec[b].state
           /\ allows_transition_to(rec[b].state, f.state) /\ ~(rec[b].cancel /\ f.state = "succeeded")
  BY <1>0, <1>2, <1>3, <1>5, ImportGrows
<1> HIDE DEF ch, f, rest, answer
<1>7. ASSUME NEW c \in Capsules, Shelf(b, c)
      PROVE  c = ledger[b] /\ Waiting(b) \subseteq In(ch) /\ files'[c] = files[c]
  BY <1>0, <1>1, <1>2, <1>7 DEF Shelf, PerOp, ch
<1>8. ASSUME answer # "conflict"
      PROVE  (Waiting(b)' \subseteq In(rest) /\ Waiting(b)' # {}) =>
               boot'.pc = "import" /\ Waiting(b)' \subseteq In(boot'.chain)
  <2>1. SUFFICES ASSUME Waiting(b)' \subseteq In(rest), Waiting(b)' # {}
                 PROVE  boot'.pc = "import" /\ Waiting(b)' \subseteq In(boot'.chain)
    OBVIOUS
  <2>2. rest = <<>> => In(rest) = {}
    BY <1>3, Zenon
  <2>3. rest # <<>>
    BY <2>1, <2>2
  <2> QED
    BY <1>5, <1>8, <2>1, <2>3
<1> DEFINE Goal == /\ RestOf(b)' /\ rec'[b].state # "prepared"
                   /\ b \in acked /\ b \notin overlaid /\ Grows(b) => rec'[b].state # "succeeded"
<1>9. ASSUME answer # "committed"
      PROVE  Goal
  <2>1. Still(b) /\ Waiting(b)' = Waiting(b)
    BY <1>0, <1>1, <1>2, <1>6, <1>9, WaitingShrinks
  <2>2. Carries(b)
    <3>1. SUFFICES ASSUME NEW c \in Capsules, b \notin overlaid, Waiting(b) # {}, Shelf(b, c)
                   PROVE  c \in quarantine' \/ Shelf(b, c)'
      BY <1>1 DEF Carries
    <3>2. CASE answer = "conflict"
      BY <1>5, <1>7, <3>1, <3>2
    <3>3. CASE answer = "duplicate"
      <4>1. Waiting(b) \subseteq In(rest)
        BY <1>2, <1>3, <1>7, <3>1, <3>3, DuplicateDone DEF answer, f, rest
      <4>2. boot'.pc = "import" /\ Waiting(b)' \subseteq In(boot'.chain)
        BY <1>8, <2>1, <3>1, <3>3, <4>1
      <4> QED
        BY <1>0, <1>1, <1>2, <2>1, <3>1, <4>2, ShelfKept
    <3> QED
      BY <1>5, <1>9, <3>2, <3>3
  <2>3. RestOf(b)'
    BY <1>1, <2>1, <2>2, RestCarried
  <2>4. rec'[b].state # "prepared" /\ ~Grows(b)
    BY <1>3, <1>4, <2>1 DEF Still, Grows
  <2> QED
    BY <2>3, <2>4
<1>10. ASSUME answer = "committed"
       PROVE  Goal
  <2>1. f \in reported[b] /\ rec'[b].state # "prepared"
    BY <1>3, <1>6, <1>10, EdgeFacts DEF Evidence
  <2>2. f \in Waiting(b)
    BY <1>4, <1>6, <1>10, <2>1 DEF Waiting, Done
  <2>3. Waiting(b)' \subseteq Waiting(b)
    BY <1>0, <1>1, <1>2, <1>6, <1>10, WaitingShrinks
  <2>4. Settles(b)
    <3>1. SUFFICES ASSUME NEW c \in Capsules, b \notin overlaid, Shelf(b, c)
                   PROVE  /\ Waiting(b)' # {} => Shelf(b, c)'
                          /\ \A g \in Waiting(b) \ Waiting(b)' : Settled(b, g)'
      BY <1>1 DEF Settles
    <3>2. /\ Waiting(b)' \subseteq In(rest)
          /\ \A g \in Waiting(b) \ Waiting(b)' : g.state = f.state
      BY <1>1, <1>2, <1>3, <1>5, <1>7, <1>10, <3>1, CommittedFirst DEF answer, f, rest
    <3>3. \A g \in Waiting(b) \ Waiting(b)' : Settled(b, g)'
      <4>1. Fact(rec'[b]) \in events'[b] /\ Fact(rec'[b]).state = f.state
        BY <1>6, <1>10 DEF Grows, Fact
      <4> QED
        BY <3>2, <4>1 DEF Settled
    <3>4. ASSUME NEW g \in Waiting(b)'
          PROVE  Shelf(b, c)'
      <4>1. g \in Waiting(b) /\ g \in Facts /\ ~(g.version <= f.version)
        <5>1. g \in Waiting(b) /\ ~Done(b, g)' /\ reported[b] \subseteq Facts
          BY <1>0, <2>3, <3>4 DEF Waiting, TypeOK, Done
        <5> QED
          BY <1>6, <1>10, <5>1 DEF Done, Waiting
      <4>2. g = f \/ Follows(g, f) \/ Follows(f, g)
        BY <2>2, <3>1, <4>1 DEF SlotInv, LadderOf
      <4>3. Follows(g, f)
        BY <1>4, <4>1, <4>2 DEF Follows, Facts
      <4>4. ~Closed(b)'
        BY <1>6, <1>10, <4>3, EdgeFacts DEF Follows, Closed
      <4>5. boot'.pc = "import" /\ Waiting(b)' \subseteq In(boot'.chain)
        BY <1>8, <1>10, <3>2, <3>4
      <4>6. \A w \in Workers : ~Danger(w, c)'
        BY <1>1, IdleFacts, OpsAssumption DEF Danger
      <4> QED
        BY <1>1, <3>1, <4>4, <4>5, <4>6 DEF Shelf
    <3> QED
      BY <3>3, <3>4
  <2>5. RestOf(b)'
    BY <1>1, <1>6, <1>10, <2>4, RestGrown
  <2>6. ASSUME b \in acked, b \notin overlaid
        PROVE  rec'[b].state # "succeeded"
    BY <1>6, <1>10, <2>1, <2>6 DEF SlotInv, LadderOf
  <2> QED
    BY <2>1, <2>5, <2>6
<1>11. Goal
  BY <1>9, <1>10
<1> HIDE DEF Goal
<1>12. ASSUME NEW o \in Ops, o # b
       PROVE  RestOf(o)' /\ ~Grows(o)
  <2>1. RestOf(o)'
    BY <1>0, <1>1, <1>5, <1>6, <1>12, OthersCarried
  <2>2. rec[o] # None => rec[o].version \in Nat
    BY <1>0 DEF TypeOK, Records
  <2> QED
    BY <1>6, <1>12, <2>1, <2>2 DEF Grows, Still
<1>13. ScanOf'
  <2>1. SUFFICES ASSUME boot'.pc = "import"
                 PROVE  ChainWell(boot.chain, boot.op)' /\ rec'[b].state # "prepared"
    BY <1>5 DEF ScanOf
  <2>2. boot'.chain = rest /\ rest # <<>>
    BY <1>5, <2>1
  <2>3. ChainWell(rest, b)
    BY <1>3, <2>2
  <2>4. ChainWell(boot.chain, boot.op)'
    BY <1>1, <1>5, <2>2, <2>3 DEF ChainWell, Evidence
  <2> QED
    BY <1>11, <2>4 DEF Goal
<1>14. \A o \in Ops : Still(o) \/ Grows(o)
  BY <1>6
<1>15. \A o \in Ops : /\ o \in acked /\ o \notin overlaid /\ Grows(o) => rec'[o].state # "succeeded"
                      /\ RestOf(o)'
  BY <1>11, <1>12 DEF Goal
<1> QED
  BY <1>0, <1>13, <1>14, <1>15, RecoveryFrame

-----------------------------------------------------------------------------
(* The theorems *)

\* The journal starts without calls, files and records.
LEMMA SlotInit == Init => SlotInv
<1>1. SUFFICES ASSUME Init PROVE SlotInv
  OBVIOUS
<1>2. /\ \A w \in Workers : task[w].pc = "idle" /\ task[w].made = FALSE
      /\ \A c \in Capsules : files[c] = None
      /\ \A o \in Ops : rec[o] = None /\ reported[o] = {} /\ Waiting(o) = {}
      /\ acked = {} /\ boot.pc = "open"
  BY <1>1, IdleFacts DEF Init, Waiting, Open
<1>3. ASSUME NEW w \in Workers
      PROVE  FileKept(w) /\ HeldOf(w)
  BY <1>2 DEF FileKept, Guarded, HeldOf, OpenOf, WaitOf, Committed, Holding
<1>4. \A c \in Capsules : SlotsOf(c)
  BY <1>2 DEF SlotsOf
<1>5. \A o \in Ops : OpWell(o) /\ LadderOf(o) /\ RestOf(o)
  BY <1>2 DEF OpWell, LadderOf, RestOf
<1>6. ScanOf
  BY <1>2 DEF ScanOf
<1> QED
  BY <1>3, <1>4, <1>5, <1>6 DEF SlotInv

\* prepare makes a record where there is none.
LEMMA PrepareSlots ==
  ASSUME CoreInv, SlotInv, NEW o \in Ops, Prepare(o)
  PROVE  SlotInv'
<1> DEFINE r == [version |-> 1, state |-> "prepared", cancel |-> FALSE, started |-> FALSE]
<1>0. TypeOK /\ rec[o] = None /\ commit(o, r)
  BY DEF CoreInv, Prepare
<1>1. r \in Records
  BY DEF Records, States
<1>2. rec'[o] = r /\ Fact(r) \in events'[o] /\ \A p \in Ops : p # o => Still(p)
  BY <1>0 DEF commit, TypeOK, Fact, Still
<1>3. Opens(o)
  BY <1>0, <1>1, <1>2 DEF Opens
<1>4. UNCHANGED <<ledger, files, quarantine, task, ticket, boot, history>>
  BY DEF Prepare
<1> QED
  BY <1>2, <1>3, <1>4, BystanderSlots

\* Every step keeps the invariant.
LEMMA SlotNext ==
  ASSUME CoreInv, CapsuleInv, SlotInv, [Next]_vars
  PROVE  SlotInv'
<1>0. RecStep /\ CapsuleInv'
  BY AnyRecStep, CapsuleNext
<1>1. ASSUME NEW w \in Workers, CallerStep(w)
      PROVE  SlotInv'
  BY <1>0, <1>1, CallerSlotNext
<1>2. ASSUME DbFails \/ DbHeals \/ UNCHANGED vars
      PROVE  SlotInv'
  <2>1. UNCHANGED <<durable, task, ticket, boot, history>>
    BY <1>2 DEF DbFails, DbHeals, vars
  <2>2. UNCHANGED <<ledger, files, quarantine, task, ticket, boot, history>> /\ UNCHANGED <<rec, events>>
    BY <2>1 DEF durable
  <2>3. \A o \in Ops : Still(o)
    BY <2>2 DEF Still
  <2> QED
    BY <2>2, <2>3, BystanderSlots
<1>3. ASSUME BootStep \/ Crash
      PROVE  SlotInv'
  BY <1>3, WholeSlots, ScanSlots, ImportSlots, ConvertSlots, PastImportSlots DEF BootStep
<1> QED
  BY <1>1, <1>2, <1>3, PrepareSlots DEF Next, CallerStep

\* The three invariants hold in every state of every behaviour.
LEMMA SlotHolds == Spec => [](CoreInv /\ CapsuleInv /\ SlotInv)
<1>1. CoreInv /\ CapsuleInv /\ SlotInv /\ [Next]_vars => SlotInv'
  BY SlotNext
<1> QED
  BY <1>1, SlotInit, CapsuleHolds, PTL DEF Spec

\* An operation whose cancellation was acknowledged, by SQLite or by a capsule slot while
\* the database was out of reach, never ends `succeeded` (cancellation_permits): not by a
\* retargeted outcome, by the import of its slots or by recovery, for any number of callers,
\* outages, file faults and restarts. Left out are the operations given an outcome over
\* slots that were not imported yet (overlaid).
THEOREM CancellationsHonoured == Spec => []CancelHonoured
<1>1. CoreInv /\ SlotInv => CancelHonoured
  BY DEF CoreInv, TypeOK, SlotInv, LadderOf, CancelHonoured
<1> QED
  BY <1>1, SlotHolds, PTL

\* An outcome that write_fallback reported durable from a capsule slot is in the history of
\* its record, or its version is a cancellation's that was committed meanwhile, or the slot
\* is still there, for recovery to import or in quarantine, whatever the callers,
\* the rollbacks, the drains and the restarts do. Left out are the operations given an
\* outcome over slots that were not imported yet (overlaid) and those without the row of
\* their capsule (stray).
THEOREM FallbacksSurvive == Spec => []FallbackSurvives
<1>1. CoreInv /\ SlotInv => FallbackSurvives
  <2>1. SUFFICES ASSUME CoreInv, SlotInv, NEW o \in Ops, o \notin overlaid \cup stray,
                        NEW f \in reported[o]
                 PROVE  \/ Settled(o, f)
                        \/ \E c \in Capsules :
                             /\ files[c] # None /\ files[c].op = o /\ f \in Slots(c)
                             /\ c \in quarantine \/ (ledger[o] = c /\ f.version > rec[o].version
                                                       /\ Recoverable(c, f))
    BY DEF FallbackSurvives, Settled
  <2>2. TypeOK /\ RestOf(o) /\ quarantine \subseteq {c \in Capsules : files[c] # None}
    BY <2>1 DEF CoreInv, SlotInv, TypeOK
  <2>3. CASE f \in Waiting(o)
    <3>1. PICK c \in Capsules : Keeps(o, c)
      BY <2>1, <2>2, <2>3 DEF RestOf
    <3>2. rec[o] # None
      BY <2>1, NothingReported
    <3>3. f.version > rec[o].version
      BY <2>1, <2>2, <2>3, <3>2 DEF Waiting, Done, TypeOK, Facts, Records
    <3>4. files[c] # None /\ f \in Slots(c) /\ f \in Facts
      BY <2>2, <2>3, <3>1 DEF Keeps, Waiting, TypeOK
    <3>5. Recoverable(c, f)
      BY <2>1, <3>4, AuthenticChain DEF Recoverable, In
    <3> QED
      BY <2>3, <3>1, <3>3, <3>5 DEF Keeps, Shelf
  <2>4. CASE f \notin Waiting(o)
    BY <2>1, <2>2, <2>4 DEF RestOf, Quarantined
  <2> QED
    BY <2>3, <2>4
<1> QED
  BY <1>1, SlotHolds, PTL
=============================================================================
