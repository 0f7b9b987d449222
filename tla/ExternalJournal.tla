-------------------------- MODULE ExternalJournal --------------------------
(***************************************************************************)
(* The journal of ambiguous external effects                               *)
(* (crates/cockpit-core/src/external_journal) over its SQLite tables       *)
(* (cockpit-db/src/db/external_journal.rs) and its spool of two-slot       *)
(* capsules (external_journal/spool.rs, capsule.rs).                       *)
(*                                                                         *)
(* One action is one SQLite transaction or read with the synchronous file  *)
(* operations that follow it, or one group of file operations without an   *)
(* await between them. Other workers run between two actions, the database *)
(* may be out of reach for any of them, a worker's future may be dropped,  *)
(* and the daemon may stop. An unreachable database writes nothing: a      *)
(* transaction that was not enqueued or was rolled back has no effect. A   *)
(* write torn by a crash is a failed write followed by a crash.            *)
(***************************************************************************)
EXTENDS Naturals, Sequences, FiniteSets

CONSTANTS
  Ops,             \* operations
  Workers,         \* tasks that dispatch, settle, cancel or expire operations
  Capsules,        \* capsule UUIDs; a new reservation takes an unused one
  None,
  Outcomes,        \* the states consumers pass to record_outcome
  MaxOutcomes,     \* bound: record_outcome calls per dispatch ticket
  MaxOutages,      \* bound: times the database becomes unreachable
  MaxSpoolFaults,  \* bound: failing file operations
  MaxCrashes       \* bound: restarts of the daemon

\* Every state, in graph order.
States == {"prepared", "dispatching", "accepted", "rejected",
           "submission_unknown", "reconciling", "cancellation_requested",
           "cancelled", "expired", "completed_after_cancel", "succeeded",
           "failed"}

TerminalStates == {"rejected", "cancelled", "expired",
                   "completed_after_cancel", "succeeded", "failed"}

ASSUME OpsAssumption == None \notin Ops \cup Capsules
ASSUME OutcomesAssumption == Outcomes \subseteq States \ {"prepared", "dispatching"}
ASSUME LimitsAssumption == /\ MaxOutcomes \in Nat /\ MaxOutages \in Nat
                           /\ MaxSpoolFaults \in Nat /\ MaxCrashes \in Nat

LegalEdges ==
  ({"prepared"} \X {"dispatching", "cancelled", "expired"})
  \cup ({"dispatching"} \X {"accepted", "rejected", "submission_unknown",
                            "cancellation_requested"})
  \cup ({"accepted"} \X {"succeeded", "completed_after_cancel", "failed",
                         "cancellation_requested"})
  \cup ({"submission_unknown"} \X {"reconciling", "cancellation_requested"})
  \cup ({"reconciling"} \X {"accepted", "rejected", "submission_unknown",
                            "failed", "cancellation_requested"})
  \cup ({"cancellation_requested"} \X {"cancelled", "accepted",
                                       "completed_after_cancel", "failed",
                                       "submission_unknown", "reconciling"})

VARIABLES
  rec,       \* external_journal_operations
  events,    \* external_journal_events: the facts committed for an operation
  ledger,    \* external_journal_spool_capsules: operation -> capsule
  fault,     \* the integrity fault is recorded in SQLite
  files,     \* capsule files, wherever they are: capsule -> contents
  quarantine,\* the capsules whose file is in the quarantine directory
  latch,     \* ExternalJournal.integrity, in memory
  task,      \* the call each worker is in
  ticket,    \* the DispatchTicket each worker holds
  boot,      \* start_at: recovery, the dispatch gate, open or disabled
  db,        \* is the database reachable
  used,      \* how much of each bound is used up
  sends,     \* history: provider calls per operation
  reported,  \* history: facts a capsule slot made durable and the caller was told
  acked,     \* history: operations whose cancellation was acknowledged in time
  stray,     \* history: operations dispatched, or left dispatching, without the
             \* row of their capsule
  overlaid   \* history: operations given an outcome over slots not yet imported

durable == <<rec, events, ledger, fault, files, quarantine>>
history == <<sends, reported, acked, stray, overlaid>>
vars == <<durable, latch, task, ticket, boot, db, used, history>>

-----------------------------------------------------------------------------
(* State *)

Facts == [version : Nat, state : States]
Records == [version : Nat, state : States, cancel : BOOLEAN, started : BOOLEAN]

\* A slot that holds its sentinel, or bytes that do not authenticate.
Blank == [version |-> 0, state |-> "blank"]
Contents == [op : Ops, slots : [{0, 1} -> Facts \cup {Blank}]]

PCs == {"idle", "read", "reserve", "create", "reread", "slots", "commit",
        "rollback", "rollback_row", "rollback_file", "materialize", "ticket",
        "sent", "drain", "import", "refresh", "record", "look", "retarget",
        "confirm", "release"}

Tasks == [pc : PCs, op : Ops \cup {None}, cap : Capsules \cup {None},
          mine : BOOLEAN,            \* reserved_here
          made : BOOLEAN,            \* created_here
          version : Nat,             \* version_at_admission
          want : States \cup {None}, \* the outcome to record
          chain : Seq(Facts),        \* slots still to import
          seen : Records \cup {None}]

Idle == [pc |-> "idle", op |-> None, cap |-> None, mine |-> FALSE,
         made |-> FALSE, version |-> 0, want |-> None, chain |-> <<>>,
         seen |-> None]

Tickets == [version : Nat, state : States, cancel : BOOLEAN,
            active : {0, 1}, committed : Nat, calls : Nat]

BootPCs == {"list", "scan", "reclaim", "import", "flag", "latch", "convert",
            "settle", "free", "orphans", "gate", "open", "off"}
Boots == [pc : BootPCs, op : Ops \cup {None}, todo : SUBSET Ops,
          known : SUBSET Capsules, chain : Seq(Facts)]
Open == [pc |-> "open", op |-> None, todo |-> {}, known |-> {}, chain |-> <<>>]

\* None is what a reader finds where there is no record, ticket or file.
ASSUME NoneAssumption == None \notin Records \cup Tickets \cup Contents

TypeOK ==
  /\ rec \in [Ops -> Records \cup {None}]
  /\ events \in [Ops -> SUBSET Facts]
  /\ ledger \in [Ops -> Capsules \cup {None}]
  /\ fault \in BOOLEAN /\ latch \in BOOLEAN
  /\ files \in [Capsules -> Contents \cup {None}]
  /\ quarantine \subseteq {c \in Capsules : files[c] # None}
  /\ task \in [Workers -> Tasks]
  /\ ticket \in [Workers -> Tickets \cup {None}]
  /\ boot \in Boots
  /\ db \in {"up", "down"}
  /\ used \in [outages : 0..MaxOutages, spool : 0..MaxSpoolFaults,
               crashes : 0..MaxCrashes]
  /\ sends \in [Ops -> Nat]
  /\ reported \in [Ops -> SUBSET Facts]
  /\ acked \subseteq Ops /\ stray \subseteq Ops /\ overlaid \subseteq Ops

Init ==
  /\ rec = [o \in Ops |-> None]
  /\ events = [o \in Ops |-> {}]
  /\ ledger = [o \in Ops |-> None]
  /\ fault = FALSE /\ latch = FALSE
  /\ files = [c \in Capsules |-> None]
  /\ quarantine = {}
  /\ task = [w \in Workers |-> Idle]
  /\ ticket = [w \in Workers |-> None]
  /\ boot = Open
  /\ db = "up"
  /\ used = [outages |-> 0, spool |-> 0, crashes |-> 0]
  /\ sends = [o \in Ops |-> 0]
  /\ reported = [o \in Ops |-> {}]
  /\ acked = {} /\ stray = {} /\ overlaid = {}

-----------------------------------------------------------------------------
(* The state graph and the SQLite transactions *)

is_terminal(s) == s \in TerminalStates
allows_transition_to(s, t) == <<s, t>> \in LegalEdges

\* Once cancellation is requested plain `succeeded` is unreachable; `expired`
\* needs the proof that dispatch never began.
validate_external_transition(r, t) ==
  /\ allows_transition_to(r.state, t)
  /\ ~(r.cancel /\ t = "succeeded")
  /\ ~(r.started /\ t = "expired")

cancellation_aware_outcome(r, t) ==
  IF r.cancel /\ t = "succeeded" THEN "completed_after_cancel" ELSE t

\* Mutant: the cancellation fact is rewritten by every transition.
moved_forgetful(r, t, v, cancelling) ==
  [version |-> v, state |-> t,
   cancel |-> cancelling \/ t = "cancellation_requested",
   started |-> r.started \/ t = "dispatching"]

\* commit_transition_at_version: the cancellation fact is kept for ever.
moved(r, t, v, cancelling) ==
  [version |-> v, state |-> t,
   cancel |-> r.cancel \/ cancelling \/ t = "cancellation_requested",
   started |-> r.started \/ t = "dispatching"]

\* The committed record and its one event.
commit(o, r) ==
  /\ rec' = [rec EXCEPT ![o] = r]
  /\ events' = [events EXCEPT
       ![o] = @ \cup {[version |-> r.version, state |-> r.state]}]

\* transition_external_operation: what the compare-and-set answers.
transition_external_operation(r, expected, t) ==
  IF r.state = t THEN "duplicate"
  ELSE IF r.version # expected THEN "conflict"
  ELSE IF validate_external_transition(r, t) THEN "committed" ELSE "illegal"

next_record(r, t) == moved(r, t, r.version + 1, FALSE)

\* import_external_journal_record: a strictly newer slot that the graph allows
\* is committed at the slot's own version.
import_answer(r, f) ==
  IF f.version <= r.version \/ r.state = f.state THEN "duplicate"
  ELSE IF validate_external_transition(r, f.state) THEN "committed"
  ELSE "conflict"

-----------------------------------------------------------------------------
(* Files *)

\* Mutant: a quarantined capsule passes for a live one.
Somewhere(c) == files[c] # None

Present(c) == files[c] # None /\ c \notin quarantine

Unused == {c \in Capsules : /\ files[c] = None
                            /\ \A o \in Ops : ledger[o] # c
                            /\ \A w \in Workers : task[w].cap # c}
Sentinels(o) == [op |-> o, slots |-> [i \in {0, 1} |-> Blank]]

\* authentic_slots: what it may answer, ascending, or <<>> when it refuses the
\* capsule: no slot authenticates, or two carry the same version and are not
\* the same facts. Two slots of one version and state are so only if they also
\* have their timestamp and their key in common.
authentic_slots(c) ==
  LET s == files[c].slots
      good(i) == IF s[i] = Blank THEN <<>> ELSE <<s[i]>>
  IN IF s[0].version < s[1].version THEN {good(0) \o good(1)}
     ELSE IF s[1].version < s[0].version THEN {good(1) \o good(0)}
     ELSE IF s[0].state = s[1].state THEN {<<>>, good(0)}
     ELSE {<<>>}

SpoolFault == /\ used.spool < MaxSpoolFaults
              /\ used' = [used EXCEPT !.spool = @ + 1]

\* remove_capsule. Its callers go on when it fails: the file stays.
remove_capsule(c) == \/ files' = [files EXCEPT ![c] = None] /\ UNCHANGED used
                     \/ SpoolFault /\ UNCHANGED files

-----------------------------------------------------------------------------
(* Workers *)

At(w, pc) == task[w].pc = pc
Goto(w, pc) == task' = [task EXCEPT ![w].pc = pc]
End(w) == /\ task' = [task EXCEPT ![w] = Idle]
          /\ ticket' = [ticket EXCEPT ![w] = None]
\* A call on a held ticket returned; the ticket is kept.
Return(w) == task' = [task EXCEPT ![w] = [Idle EXCEPT !.pc = "sent",
                                            !.op = task[w].op,
                                            !.cap = task[w].cap]]
Up == db = "up"
Running == boot.pc = "open"
dispatch_allowed == ~latch /\ ~fault /\ quarantine = {}
Rec(w) == rec[task[w].op]

\* prepare: an existing identity is returned as it is.
Prepare(o) ==
  /\ Running /\ Up /\ rec[o] = None
  /\ commit(o, [version |-> 1, state |-> "prepared", cancel |-> FALSE,
                started |-> FALSE])
  /\ UNCHANGED <<ledger, fault, files, quarantine, latch, task, ticket, boot,
                 db, used, history>>

\* begin_dispatch: ensure_dispatch_allowed. It also sets the latch when it finds
\* the recorded fault; either of them refuses every later dispatch.
BeginDispatch(w, o) ==
  /\ Running /\ Up /\ At(w, "idle") /\ rec[o] # None
  /\ dispatch_allowed
  /\ task' = [task EXCEPT ![w] = [Idle EXCEPT !.pc = "read", !.op = o]]
  /\ UNCHANGED <<durable, latch, ticket, boot, db, used, history>>

ReadPrepared(w) ==
  /\ At(w, "read")
  /\ IF Up /\ Rec(w).state = "prepared"
     THEN /\ task' = [task EXCEPT ![w] = [@ EXCEPT !.pc = "reserve",
                                                   !.version = Rec(w).version]]
          /\ UNCHANGED ticket
     ELSE End(w)
  /\ UNCHANGED <<durable, latch, boot, db, used, history>>

\* reserve_external_journal_capsule: Reserved or AlreadyReserved.
Reserve(w) ==
  LET o == task[w].op IN
  /\ At(w, "reserve")
  /\ \/ /\ Up /\ ledger[o] = None
        /\ \E c \in Unused :
             /\ ledger' = [ledger EXCEPT ![o] = c]
             /\ task' = [task EXCEPT ![w] = [@ EXCEPT !.pc = "create", !.cap = c,
                                                      !.mine = TRUE]]
        /\ UNCHANGED ticket
     \/ /\ Up /\ ledger[o] # None
        /\ task' = [task EXCEPT ![w] = [@ EXCEPT !.pc = "create", !.cap = ledger[o]]]
        /\ UNCHANGED <<ledger, ticket>>
     \/ ~Up /\ End(w) /\ UNCHANGED ledger
  /\ UNCHANGED <<rec, events, fault, files, quarantine, latch, boot, db, used,
                 history>>

\* create_capsule: exclusive; a failed provisioning leaves no file.
CreateCapsule(w) ==
  LET c == task[w].cap
      o == task[w].op
      unbacked == \/ ledger[o] # c
                  \/ \E v \in Workers \ {w} : At(v, "rollback_row") /\ task[v].cap = c
  IN
  /\ At(w, "create")
  /\ \/ /\ files[c] = None
        /\ files' = [files EXCEPT ![c] = Sentinels(o)]
        /\ task' = [task EXCEPT ![w] = [@ EXCEPT !.pc = "reread", !.made = TRUE]]
        /\ stray' = IF unbacked THEN stray \cup {o} ELSE stray
        /\ UNCHANGED used
     \/ /\ files[c] # None
        /\ Goto(w, "rollback")
        /\ UNCHANGED <<files, used, stray>>
     \/ /\ SpoolFault
        /\ Goto(w, "rollback")
        /\ UNCHANGED <<files, stray>>
  /\ UNCHANGED <<rec, events, ledger, fault, quarantine, latch, ticket, boot,
                 db, sends, reported, acked, overlaid>>

\* The record must not have moved; a failed read returns without a rollback.
Reread(w) ==
  /\ At(w, "reread")
  /\ IF ~Up THEN End(w)
     ELSE /\ Goto(w, IF /\ Rec(w).state = "prepared"
                        /\ Rec(w).version = task[w].version
                     THEN "slots" ELSE "rollback")
          /\ UNCHANGED ticket
  /\ UNCHANGED <<durable, latch, boot, db, used, history>>

BothSlots(v) == [i \in {0, 1} |-> IF i = 0
                   THEN [version |-> v, state |-> "prepared"]
                   ELSE [version |-> v + 1, state |-> "dispatching"]]

\* What a failed pair of writes leaves: slot 0 is written and synced first.
PartSlots(v) == {[i \in {0, 1} |-> Blank], [BothSlots(v) EXCEPT ![1] = Blank],
                 BothSlots(v)}

\* provision_and_commit, the slots: `prepared`, then `dispatching`.
WriteSlots(w) ==
  LET c == task[w].cap IN
  /\ At(w, "slots")
  /\ \/ /\ Present(c)
        /\ files' = [files EXCEPT ![c].slots = BothSlots(task[w].version)]
        /\ Goto(w, "commit")
        /\ UNCHANGED used
     \/ /\ Present(c) /\ SpoolFault
        /\ \E s \in PartSlots(task[w].version) : files' = [files EXCEPT ![c].slots = s]
        /\ Goto(w, "rollback")
     \/ /\ ~Present(c)
        /\ Goto(w, "rollback")
        /\ UNCHANGED <<files, used>>
  /\ UNCHANGED <<rec, events, ledger, fault, quarantine, latch, ticket, boot,
                 db, history>>

\* Mutant: a `dispatching` somebody else committed is adopted.
dispatch_won_or_adopted(w) ==
  transition_external_operation(Rec(w), task[w].version, "dispatching")
     \in {"committed", "duplicate"}

\* Only a genuine commit produces a ticket.
dispatch_won(w) ==
  transition_external_operation(Rec(w), task[w].version, "dispatching") = "committed"

CommitDispatch(w) ==
  /\ At(w, "commit")
  /\ IF Up /\ dispatch_won(w)
     THEN commit(task[w].op, next_record(Rec(w), "dispatching")) /\ Goto(w, "ticket")
     ELSE UNCHANGED <<rec, events>> /\ Goto(w, "rollback")
  /\ UNCHANGED <<ledger, fault, files, quarantine, latch, ticket, boot, db,
                 used, history>>

\* begin_dispatch returned Ok, and the consumer calls its provider.
Handoff(w) ==
  /\ At(w, "ticket")
  /\ ticket' = [ticket EXCEPT ![w] =
       [version |-> task[w].version + 1, state |-> "dispatching",
        cancel |-> FALSE, active |-> 1, committed |-> task[w].version + 1,
        calls |-> 0]]
  /\ Return(w)
  /\ sends' = [sends EXCEPT ![task[w].op] = @ + 1]
  /\ UNCHANGED <<durable, latch, boot, db, used, reported, acked, stray, overlaid>>

-----------------------------------------------------------------------------
(* roll_back_undispatched *)

\* Mutant: the row is rolled back although the file is another dispatcher's.
keep_nothing(w) == FALSE

\* The reservation is this call's, the file another dispatcher's.
file_of_another(w) == task[w].mine /\ ~task[w].made /\ Present(task[w].cap)

Rollback(w) ==
  /\ At(w, "rollback")
  /\ IF /\ Up /\ Rec(w).state = "prepared" /\ ~Rec(w).started
        /\ ~file_of_another(w)
        /\ task[w].mine \/ task[w].made
     THEN /\ Goto(w, IF task[w].mine THEN "rollback_row" ELSE "rollback_file")
          /\ UNCHANGED ticket
     ELSE End(w)
  /\ UNCHANGED <<durable, latch, boot, db, used, history>>

\* Refused unless the record is still an undispatched `prepared`.
RollbackRow(w) ==
  /\ At(w, "rollback_row")
  /\ IF Up /\ Rec(w).state = "prepared" /\ ~Rec(w).started
     THEN /\ ledger' = [ledger EXCEPT ![task[w].op] = None]
          /\ IF task[w].made THEN Goto(w, "rollback_file") /\ UNCHANGED ticket
                             ELSE End(w)
     ELSE UNCHANGED ledger /\ End(w)
  /\ UNCHANGED <<rec, events, fault, files, quarantine, latch, boot, db, used,
                 history>>

RollbackFile(w) ==
  /\ At(w, "rollback_file")
  /\ remove_capsule(task[w].cap)
  /\ End(w)
  /\ UNCHANGED <<rec, events, ledger, fault, quarantine, latch, boot, db,
                 history>>

-----------------------------------------------------------------------------
(* prepare_external_handoff of media_reservation.rs: `prepared`, the       *)
(* reservation and `dispatching` in one transaction, the capsule after it. *)

AtomicDispatch(w, o) ==
  /\ Running /\ Up /\ At(w, "idle") /\ rec[o] = None
  /\ dispatch_allowed
  /\ \E c \in Unused :
       /\ ledger' = [ledger EXCEPT ![o] = c]
       /\ task' = [task EXCEPT ![w] = [Idle EXCEPT !.pc = "materialize",
                                         !.op = o, !.cap = c, !.version = 1]]
  /\ rec' = [rec EXCEPT ![o] = [version |-> 2, state |-> "dispatching",
                                cancel |-> FALSE, started |-> TRUE]]
  /\ events' = [events EXCEPT ![o] = {[version |-> 1, state |-> "prepared"],
                                      [version |-> 2, state |-> "dispatching"]}]
  /\ UNCHANGED <<fault, files, quarantine, latch, ticket, boot, db, used, history>>

\* materialize_preprovisioned: no capsule, no ticket. A capsule that is not
\* complete is removed, unless that fails too.
Materialize(w) ==
  LET filled(s) == files' = [files EXCEPT ![task[w].cap] = [op |-> task[w].op, slots |-> s]]
  IN
  /\ At(w, "materialize")
  /\ \/ /\ filled(BothSlots(1))
        /\ Goto(w, "ticket")
        /\ UNCHANGED <<used, ticket>>
     \/ /\ SpoolFault /\ End(w)
        /\ UNCHANGED files \/ \E s \in PartSlots(1) : filled(s)
  /\ UNCHANGED <<rec, events, ledger, fault, quarantine, latch, boot, db, history>>

-----------------------------------------------------------------------------
(* record_outcome on a held ticket *)

Ticket(w) == ticket[w]
pending(w) == Ticket(w).version - Ticket(w).committed

\* record_outcome does not look at the ticket's state. That it is not terminal is
\* an assumption: the consumers drop a ticket they have settled.
RecordOutcome(w, s) ==
  LET cancel == Ticket(w).cancel \/ s = "cancellation_requested" IN
  /\ At(w, "sent")
  /\ Ticket(w).calls < MaxOutcomes /\ ~is_terminal(Ticket(w).state)
  /\ ticket' = [ticket EXCEPT ![w] = [@ EXCEPT !.cancel = cancel,
                                                     !.calls = Ticket(w).calls + 1]]
  /\ task' = [task EXCEPT ![w] = [@ EXCEPT
       !.want = IF cancel /\ s = "succeeded" THEN "completed_after_cancel" ELSE s,
       !.pc = IF pending(w) > 0 THEN "drain" ELSE "record"]]
  /\ UNCHANGED <<durable, latch, boot, db, used, history>>

\* drain_pending_fallback: the slots of a previous fallback go first. An
\* unreachable database is ignored; no authentic slot, or two that disagree about
\* a version, is an error that ends the call.
Drain(w) ==
  /\ At(w, "drain")
  /\ IF ~Up THEN Goto(w, "record")
     ELSE IF ~Present(task[w].cap) THEN Return(w)
     ELSE \E chain \in authentic_slots(task[w].cap) :
            IF chain = <<>> THEN Return(w)
            ELSE task' = [task EXCEPT ![w] = [@ EXCEPT !.pc = "import",
                                                       !.chain = chain]]
  /\ UNCHANGED <<durable, latch, ticket, boot, db, used, history>>

\* import_external_journal_record of one slot by a worker or by recovery.
ImportFact(o, f) ==
  IF import_answer(rec[o], f) = "committed"
  THEN commit(o, moved(rec[o], f.state, f.version, FALSE))
  ELSE UNCHANGED <<rec, events>>

\* import_capsule_chain. Newer evidence that no edge reaches ends the call.
Import(w) ==
  LET f == Head(task[w].chain)
      rest == Tail(task[w].chain)
  IN
  /\ At(w, "import")
  /\ IF ~Up
     THEN /\ task' = [task EXCEPT ![w] = [@ EXCEPT !.pc = "record", !.chain = <<>>]]
          /\ UNCHANGED <<rec, events>>
     ELSE /\ ImportFact(task[w].op, f)
          /\ IF import_answer(Rec(w), f) = "conflict" THEN Return(w)
             ELSE task' = [task EXCEPT ![w] = [@ EXCEPT !.chain = rest,
                            !.pc = IF rest = <<>> THEN "refresh" ELSE "import"]]
  /\ UNCHANGED <<ledger, fault, files, quarantine, latch, ticket, boot, db,
                 used, history>>

\* The ticket as the record has it; active_slot stays.
synced(t, r) == [t EXCEPT !.version = r.version, !.state = r.state,
                          !.cancel = r.cancel, !.committed = r.version]

Refresh(w) ==
  /\ At(w, "refresh")
  /\ ticket' = IF Up THEN [ticket EXCEPT ![w] = synced(@, Rec(w))] ELSE ticket
  /\ Goto(w, "record")
  /\ UNCHANGED <<durable, latch, boot, db, used, history>>

\* adopt_committed: a terminal record's capsule goes before the call returns.
Adopt(w, r) ==
  /\ ticket' = [ticket EXCEPT ![w] = synced(@, r)]
  /\ IF is_terminal(r.state) THEN Goto(w, "confirm") ELSE Return(w)

\* record_external_operation_outcome. A lost compare-and-set and an illegal
\* edge are retargeted.
RecordDb(w) ==
  LET t == cancellation_aware_outcome(Rec(w), task[w].want)
      answer == transition_external_operation(Rec(w), Ticket(w).version, t)
  IN
  /\ At(w, "record") /\ Up
  /\ \/ /\ answer = "committed"
        /\ commit(task[w].op, next_record(Rec(w), t))
        /\ Adopt(w, next_record(Rec(w), t))
     \/ /\ answer = "duplicate"
        /\ Adopt(w, Rec(w))
        /\ UNCHANGED <<rec, events>>
     \/ /\ answer = "conflict"
        /\ task' = [task EXCEPT ![w] = [@ EXCEPT !.pc = "retarget", !.seen = Rec(w)]]
        /\ UNCHANGED <<rec, events, ticket>>
     \/ /\ answer = "illegal"
        /\ Goto(w, "look")
        /\ UNCHANGED <<rec, events, ticket>>
  /\ overlaid' = IF pending(w) > 0 THEN overlaid \cup {task[w].op} ELSE overlaid
  /\ UNCHANGED <<ledger, fault, files, quarantine, latch, boot, db, used, sends,
                 reported, acked, stray>>

Look(w) ==
  /\ At(w, "look")
  /\ IF Up THEN task' = [task EXCEPT ![w] = [@ EXCEPT !.pc = "retarget", !.seen = Rec(w)]]
           ELSE Return(w)
  /\ UNCHANGED <<durable, latch, ticket, boot, db, used, history>>

\* retarget_outcome onto the state that was seen to hold.
Retarget(w) ==
  LET r == task[w].seen
      t == cancellation_aware_outcome(r, task[w].want)
      tries == r.state # t /\ allows_transition_to(r.state, t) /\ Up
      answer == transition_external_operation(Rec(w), r.version, t)
  IN
  /\ At(w, "retarget")
  /\ \/ /\ r.state = t \/ (tries /\ answer = "duplicate")
        /\ Adopt(w, IF r.state = t THEN r ELSE Rec(w))
        /\ UNCHANGED <<rec, events>>
     \/ /\ tries /\ answer = "committed"
        /\ commit(task[w].op, next_record(Rec(w), t))
        /\ Adopt(w, next_record(Rec(w), t))
     \/ /\ r.state # t
        /\ tries => answer \in {"conflict", "illegal"}
        /\ Return(w)
        /\ UNCHANGED <<rec, events, ticket>>
  /\ UNCHANGED <<ledger, fault, files, quarantine, latch, boot, db, used, history>>

\* latch_and_persist: the durable half works only if the database is back.
Latch == latch' = TRUE /\ fault' \in {fault, TRUE}

\* Mutant: a third pending fallback is written over the bridging slot.
chain_open_any_depth(w) == allows_transition_to(Ticket(w).state, task[w].want)

\* A capsule bridges two versions, each a legal successor of the other slot's.
chain_open(w) == /\ pending(w) < 2
                 /\ allows_transition_to(Ticket(w).state, task[w].want)

\* write_fallback: the inactive slot takes the outcome, or retain_unresolved. Of
\* what a failed write_slot may leave, the torn slot is the worst: it takes the old
\* one and gives nothing.
Fallback(w) ==
  LET c == task[w].cap
      i == 1 - Ticket(w).active
      f == [version |-> Ticket(w).version + 1, state |-> task[w].want]
  IN
  /\ At(w, "record") /\ ~Up
  /\ Return(w)
  /\ \/ /\ chain_open(w) /\ Present(c)
        /\ files' = [files EXCEPT ![c].slots[i] = f]
        /\ ticket' = [ticket EXCEPT ![w] = [@ EXCEPT !.version = f.version,
                                                     !.state = f.state, !.active = i]]
        /\ reported' = [reported EXCEPT ![task[w].op] = @ \cup {f}]
        /\ acked' = IF f.state = "cancellation_requested"
                     THEN acked \cup {task[w].op} ELSE acked
        /\ UNCHANGED <<latch, fault, used>>
     \/ /\ chain_open(w) /\ Present(c) /\ SpoolFault
        /\ files' = [files EXCEPT ![c].slots[i] = Blank]
        /\ Latch
        /\ UNCHANGED <<ticket, reported, acked>>
     \/ /\ ~chain_open(w) \/ ~Present(c)
        /\ Latch
        /\ UNCHANGED <<files, ticket, reported, acked, used>>
  /\ UNCHANGED <<rec, events, ledger, quarantine, boot, db, sends, stray,
                 overlaid>>

-----------------------------------------------------------------------------
(* confirm_and_release: the record is terminal, and terminal records stay  *)
(* so. The file goes first, then the row.                                  *)

Confirm(w) ==
  LET c == ledger[task[w].op] IN
  /\ At(w, "confirm")
  /\ \/ /\ Up
        /\ IF c # None /\ Present(c) THEN remove_capsule(c) ELSE UNCHANGED <<files, used>>
        /\ Goto(w, "release")
        /\ UNCHANGED ticket
     \/ ~Up /\ End(w) /\ UNCHANGED <<files, used>>
  /\ UNCHANGED <<rec, events, ledger, fault, quarantine, latch, boot, db, history>>

Release(w) ==
  /\ At(w, "release")
  /\ ledger' = IF Up THEN [ledger EXCEPT ![task[w].op] = None] ELSE ledger
  /\ End(w)
  /\ UNCHANGED <<rec, events, fault, files, quarantine, latch, boot, db, used,
                 history>>

\* request_cancellation, by the ticket's holder (which notes it on the ticket)
\* or by anyone else who knows the operation.
Cancel(w, o) ==
  LET r == rec[o]
      t == IF r.state = "prepared" THEN "cancelled" ELSE "cancellation_requested"
      n == moved(r, t, r.version + 1, TRUE)
      done == is_terminal(r.state) \/ r.cancel
      after == IF done THEN r ELSE n
  IN
  /\ Running /\ Up /\ r # None
  /\ At(w, "idle") \/ (At(w, "sent") /\ task[w].op = o)
  /\ IF done THEN UNCHANGED <<rec, events>> ELSE commit(o, n)
  /\ acked' = IF is_terminal(r.state) THEN acked ELSE acked \cup {o}
  /\ ticket' = IF At(w, "sent") THEN [ticket EXCEPT ![w].cancel = TRUE] ELSE ticket
  /\ task' = IF is_terminal(after.state)
             THEN [task EXCEPT ![w] = [@ EXCEPT !.pc = "confirm", !.op = o]] ELSE task
  /\ UNCHANGED <<ledger, fault, files, quarantine, latch, boot, db, used,
                 sends, reported, stray, overlaid>>

\* expire_prepared, past EXTERNAL_JOURNAL_PREPARED_TTL_MS.
Expire(w, o) ==
  /\ Running /\ Up /\ At(w, "idle")
  /\ rec[o] # None /\ rec[o].state = "prepared" /\ ~rec[o].started
  /\ commit(o, next_record(rec[o], "expired"))
  /\ task' = [task EXCEPT ![w] = [Idle EXCEPT !.pc = "confirm", !.op = o]]
  /\ UNCHANGED <<ledger, fault, files, quarantine, latch, ticket, boot, db,
                 used, history>>

\* The consumer is done with its ticket, or its future is dropped at an await:
\* nothing is undone.
Drop(w) ==
  /\ ~At(w, "idle")
  /\ End(w)
  /\ UNCHANGED <<durable, latch, boot, db, used, history>>

-----------------------------------------------------------------------------
(* start_at: recover, then ensure_dispatch_allowed. Nothing else runs      *)
(* before the journal is published. Any database error leaves it disabled  *)
(* ("off") until the daemon starts again.                                  *)

BootGoto(pc) == boot' = [boot EXCEPT !.pc = pc]
\* The next reservation of the scan.
BootNext == boot' = [boot EXCEPT !.pc = "scan", !.op = None, !.chain = <<>>,
                                 !.todo = @ \ {boot.op}]
Scanning(pc) == boot.pc = pc /\ Up

BootList ==
  /\ Scanning("list")
  /\ boot' = [boot EXCEPT !.pc = "scan",
                !.todo = {o \in Ops : ledger[o] # None},
                !.known = {ledger[o] : o \in Ops} \ {None}]
  /\ UNCHANGED <<durable, latch, task, ticket, db, used, history>>

\* A verified capsule: one that is present but fails verification is left out.
BootScan(o) ==
  LET c == ledger[o]
      Take(pc) == boot' = [boot EXCEPT !.pc = pc, !.op = o]
  IN
  /\ Scanning("scan") /\ o \in boot.todo
  /\ \/ /\ ~Present(c)                         \* CapsulePresence::Missing
        /\ ledger' = [ledger EXCEPT ![o] = None]
        /\ Take("convert")
        /\ UNCHANGED <<files, quarantine>>
     \/ /\ Present(c) /\ rec[o].state = "prepared"
        /\ files' = [files EXCEPT ![c] = None]
        /\ Take("reclaim")
        /\ UNCHANGED <<ledger, quarantine>>
     \/ /\ Present(c) /\ rec[o].state # "prepared"
        /\ \E chain \in authentic_slots(c) \ {<<>>} :
             boot' = [boot EXCEPT !.pc = "import", !.op = o, !.chain = chain]
        /\ UNCHANGED <<ledger, files, quarantine>>
     \/ /\ Present(c) /\ rec[o].state # "prepared"
        /\ <<>> \in authentic_slots(c)
        /\ quarantine' = quarantine \cup {c}
        /\ Take("flag")
        /\ UNCHANGED <<ledger, files>>
  /\ UNCHANGED <<rec, events, fault, latch, task, ticket, db, used, history>>

BootReclaim ==
  /\ Scanning("reclaim")
  /\ ledger' = [ledger EXCEPT ![boot.op] = None]
  /\ BootNext
  /\ UNCHANGED <<rec, events, fault, files, quarantine, latch, task, ticket, db,
                 used, history>>

BootImport ==
  LET f == Head(boot.chain)
      rest == Tail(boot.chain)
      unreachable == import_answer(rec[boot.op], f) = "conflict"
  IN
  /\ Scanning("import")
  /\ ImportFact(boot.op, f)
  /\ quarantine' = IF unreachable THEN quarantine \cup {ledger[boot.op]} ELSE quarantine
  /\ boot' = [boot EXCEPT
       !.chain = IF unreachable THEN <<>> ELSE rest,
       !.pc = IF unreachable THEN "latch" ELSE IF rest = <<>> THEN "convert" ELSE "import"]
  /\ UNCHANGED <<ledger, fault, files, latch, task, ticket, db, used, history>>

\* quarantine_external_journal_capsule flags the row, which stays.
BootFlag ==
  /\ Scanning("flag")
  /\ BootGoto("convert")
  /\ UNCHANGED <<durable, latch, task, ticket, db, used, history>>

\* Unreachable evidence: the row is flagged, the fault latched, and the
\* conversion skipped.
BootLatch ==
  /\ Scanning("latch")
  /\ Latch
  /\ BootNext
  /\ UNCHANGED <<rec, events, ledger, files, quarantine, task, ticket, db, used,
                 history>>

\* Mutant: recovery leaves `dispatching` alone.
left_dispatching(o) == UNCHANGED <<rec, events>>

\* convert_dispatching_without_evidence
convert_if_dispatching(o) ==
  IF rec[o].state = "dispatching"
  THEN commit(o, next_record(rec[o], "submission_unknown"))
  ELSE UNCHANGED <<rec, events>>

BootConvert ==
  /\ Scanning("convert")
  /\ convert_if_dispatching(boot.op)
  /\ BootGoto("settle")
  /\ UNCHANGED <<ledger, fault, files, quarantine, latch, task, ticket, db, used,
                 history>>

BootSettle ==
  LET c == ledger[boot.op] IN
  /\ Scanning("settle")
  /\ IF is_terminal(rec[boot.op].state) /\ c # None
     THEN /\ IF Present(c) THEN remove_capsule(c) ELSE UNCHANGED <<files, used>>
          /\ BootGoto("free")
     ELSE UNCHANGED <<files, used>> /\ BootNext
  /\ UNCHANGED <<rec, events, ledger, fault, quarantine, latch, task, ticket, db,
                 history>>

BootFree ==
  /\ Scanning("free")
  /\ ledger' = [ledger EXCEPT ![boot.op] = None]
  /\ BootNext
  /\ UNCHANGED <<rec, events, fault, files, quarantine, latch, task, ticket, db,
                 used, history>>

\* A capsule without a ledger row at the scan cannot be attributed.
BootOrphans ==
  /\ boot.pc = "scan" /\ boot.todo = {}
  /\ quarantine' = quarantine \cup {c \in Capsules : files[c] # None /\ c \notin boot.known}
  /\ BootGoto("gate")
  /\ UNCHANGED <<rec, events, ledger, fault, files, latch, task, ticket, db, used,
                 history>>

BootGate ==
  /\ Scanning("gate")
  /\ boot' = [Open EXCEPT !.pc = IF dispatch_allowed THEN "open" ELSE "off"]
  /\ latch' = (latch \/ fault)
  /\ UNCHANGED <<durable, task, ticket, db, used, history>>

\* History: a recovery that stops between releasing the row of a missing capsule
\* and converting the record leaves an operation that no later scan lists.
Unlisted == IF /\ boot.pc = "convert" /\ ledger[boot.op] = None
               /\ rec[boot.op].state = "dispatching"
            THEN {boot.op} ELSE {}

BootFails ==
  /\ boot.pc \notin {"open", "off"} /\ ~Up
  /\ boot' = [Open EXCEPT !.pc = "off"]
  /\ stray' = stray \cup Unlisted
  /\ UNCHANGED <<durable, latch, task, ticket, db, used, sends, reported, acked, overlaid>>

-----------------------------------------------------------------------------
(* Faults *)

DbFails ==
  /\ Up /\ used.outages < MaxOutages
  /\ db' = "down"
  /\ used' = [used EXCEPT !.outages = @ + 1]
  /\ UNCHANGED <<durable, latch, task, ticket, boot, history>>

DbHeals ==
  /\ ~Up
  /\ db' = "up"
  /\ UNCHANGED <<durable, latch, task, ticket, boot, used, history>>

\* Everything in memory is lost: tickets, the latch, the retained facts.
Crash ==
  /\ used.crashes < MaxCrashes
  /\ used' = [used EXCEPT !.crashes = @ + 1]
  /\ task' = [w \in Workers |-> Idle]
  /\ ticket' = [w \in Workers |-> None]
  /\ latch' = FALSE
  /\ boot' = [Open EXCEPT !.pc = "list"]
  /\ stray' = stray \cup Unlisted
  /\ UNCHANGED <<durable, db, sends, reported, acked, overlaid>>

-----------------------------------------------------------------------------
DispatchStep(w) ==
  \/ ReadPrepared(w) \/ Reserve(w) \/ CreateCapsule(w) \/ Reread(w)
  \/ WriteSlots(w) \/ CommitDispatch(w) \/ Handoff(w)
  \/ Rollback(w) \/ RollbackRow(w) \/ RollbackFile(w) \/ Materialize(w)

OutcomeStep(w) ==
  \/ \E s \in Outcomes : RecordOutcome(w, s)
  \/ Drain(w) \/ Import(w) \/ Refresh(w) \/ RecordDb(w) \/ Look(w)
  \/ Retarget(w) \/ Fallback(w) \/ Confirm(w) \/ Release(w)

BootStep ==
  \/ BootList \/ (\E o \in Ops : BootScan(o)) \/ BootReclaim \/ BootImport
  \/ BootFlag \/ BootLatch \/ BootConvert \/ BootSettle \/ BootFree
  \/ BootOrphans \/ BootGate \/ BootFails

Next ==
  \/ \E o \in Ops : Prepare(o)
  \/ \E w \in Workers, o \in Ops :
       BeginDispatch(w, o) \/ AtomicDispatch(w, o) \/ Cancel(w, o) \/ Expire(w, o)
  \/ \E w \in Workers : DispatchStep(w) \/ OutcomeStep(w) \/ Drop(w)
  \/ BootStep
  \/ DbFails \/ DbHeals \/ Crash

Spec == Init /\ [][Next]_vars

-----------------------------------------------------------------------------
(* Properties *)

Phase(o) ==
  IF rec[o] = None THEN "absent"
  ELSE IF rec[o].state = "prepared" THEN "undispatched"
  ELSE IF is_terminal(rec[o].state) THEN "closed"
  ELSE "dispatched"

\* The ordering contract of external_journal/mod.rs implements EffectOnce:
\* whatever fails, races or restarts, a provider is called at most once for an
\* operation, after `dispatching` is durable and before the record is closed,
\* and a closed record stays closed.
Effects == INSTANCE EffectOnce WITH phase <- [o \in Ops |-> Phase(o)]
ImplementsEffectOnce == Effects!Spec

\* "Once cancellation is requested ... plain `succeeded` is permanently
\* unreachable" (cancellation_permits), across the ticket, the capsule slots,
\* retargeting and recovery: an operation whose cancellation was acknowledged,
\* by SQLite or by a capsule slot, never ends `succeeded`. Left out are operations
\* given an outcome over slots that were not imported yet (overlaid): there the
\* acknowledged cancellation is lost.
CancelHonoured == \A o \in acked \ overlaid : rec[o].state # "succeeded"

Slots(c) == {files[c].slots[i] : i \in {0, 1}}
\* A recovery that comes to the capsule has the fact in its chain, or refuses all of it.
Recoverable(c, f) ==
  \A chain \in authentic_slots(c) : chain = <<>> \/ \E i \in DOMAIN chain : chain[i] = f
\* A cancellation committed in SQLite has the version the slot carries.
Overtaken(o, f) == \E e \in events[o] : e.version = f.version /\ e.state = "cancellation_requested"

\* An outcome that was reported durable from a capsule slot (SpoolFallback) is
\* in the record's history, or is kept in quarantine, or waits in the capsule the
\* operation's row names at a version the record has not reached, where recovery
\* imports it or, if the slots disagree about a version, quarantines it; until
\* another writer's transition takes its version. Left out are operations given an
\* outcome over slots that were not imported yet (overlaid), and those dispatched
\* from a capsule whose row was being rolled back (stray).
FallbackSurvives ==
  \A o \in Ops \ (overlaid \cup stray) : \A f \in reported[o] :
    \/ f.state \in {e.state : e \in events[o]}
    \/ Overtaken(o, f)
    \/ \E c \in Capsules :
         /\ files[c] # None /\ files[c].op = o /\ f \in Slots(c)
         /\ c \in quarantine \/ (ledger[o] = c /\ f.version > rec[o].version
                                   /\ Recoverable(c, f))

\* roll_back_undispatched and confirm_and_release never take the fallback
\* medium from a dispatched operation that still needs it: while a ticket is
\* held for an unfinished operation, its row and its capsule are there. The
\* exception is an operation dispatched from a capsule whose row its first
\* dispatcher was rolling back (stray).
TicketKeepsCapsule ==
  \A w \in Workers :
    (ticket[w] # None /\ ~is_terminal(Rec(w).state) /\ task[w].op \notin stray)
      => ledger[task[w].op] = task[w].cap /\ Present(task[w].cap)

\* "Whatever the capsule said, a record still sitting in `dispatching` has no
\* evidence for an outcome" (recover): when the journal opens after a restart
\* no operation is left `dispatching`, where no ticket would ever settle it. Left
\* out are operations without their row (stray), which the scan never lists: a
\* recovery that dies between the two steps for a missing capsule makes one.
RestartResolves ==
  [][boot.pc = "gate" /\ boot'.pc = "open" =>
       \A o \in Ops \ stray : rec[o] = None \/ rec[o].state # "dispatching"]_vars
=============================================================================
