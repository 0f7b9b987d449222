---------------------------- MODULE FileLocks ----------------------------
(***************************************************************************)
(* The daemon-wide file-lock manager (crates/cockpit-core/src/locks) with  *)
(* the tool calls that take its locks (tools/write.rs, edit.rs, delete.rs, *)
(* unlock.rs), the dispatcher that may drop a call at any await            *)
(* (engine/agent/tool_timeout.rs), the remote file API (daemon/fs_api.rs), *)
(* the idle sweeper and the SQLite mirror (cockpit-db/src/db/locks.rs).    *)
(* File contents and read records are in FreshReads: here the freshness    *)
(* gate and the mutation may succeed or be refused.                        *)
(*                                                                         *)
(* One action is one critical section of the in-memory mutex, or one       *)
(* transaction of the single database writer: the mutex is never held      *)
(* across an await, so every other task may run between two actions.       *)
(* Removing a hold and the notify_waiters() that follows it without an     *)
(* await are one action.                                                   *)
(***************************************************************************)
EXTENDS Naturals, FiniteSets

CONSTANTS
  Owners,       \* (session, lock identity) pairs that run tool calls
  Requests,     \* remote file-API requests that may run at the same time
  Paths,        \* canonical paths
  None,         \* no holder, no row, no wait edge
  Api,          \* the (nil session, "remote-project-files") holder
  RefreshedAs,  \* RefreshedAs[o]: the identity touch_holder names when o calls
  Unlockers,    \* the owners that also call `unlock`
  MaxPersist,   \* bound: spawned persist tasks an owner has pending
  DbMayFail,    \* a database write may fail (queue timeout, I/O error)
  MayAbandon,   \* a call may be dropped, a guard given up before its mutation
  MayCrash      \* the daemon may stop and restart

ASSUME OwnersAssumption == None \notin Owners /\ Api \notin Owners /\ None # Api
ASSUME PathsAssumption == Paths # {}
ASSUME RefreshAssumption == RefreshedAs \in [Owners -> Owners]
ASSUME UnlockersAssumption == Unlockers \subseteq Owners
ASSUME BoundsAssumption == MaxPersist \in Nat \ {0}
ASSUME SwitchAssumption == /\ DbMayFail \in BOOLEAN
                           /\ MayAbandon \in BOOLEAN
                           /\ MayCrash \in BOOLEAN

Holders == Owners \cup {Api, None}

VARIABLES
  held,      \* LockState.held: path -> holder
  idle,      \* the held paths whose `touched` is past LOCK_IDLE_TIMEOUT
  forced,    \* LockState.forced_released
  waiting,   \* LockState.waiting: owner -> wait edge or None
  notified,  \* each owner's `Notified` future: none, registered or woken
  rows,      \* lock_state: path -> owner or None
  op,        \* the tool call each owner is in
  api,       \* the file-API requests
  sweep,     \* the sweeper task
  persists,  \* spawned persist_abandoned_write_guard_release tasks
  missed     \* history: owners whose path an acquire rollback freed silently

memory == <<held, idle, forced, waiting, notified>>
tasks == <<op, api, sweep, persists>>
vars == <<memory, rows, tasks, missed>>

AnyPath == CHOOSE p \in Paths : TRUE

Edges == [path : Paths, holder : Owners \cup {Api}]
ASSUME NoneAssumption == None \notin Edges

PCs == {"idle", "start", "try", "arm", "retry", "record", "blocked",
        "acqdb", "acqok", "acqfail", "acquired", "guard",
        "reldb", "relok", "relfail"}

Calls == [pc : PCs, path : Paths,
          unlock : BOOLEAN,    \* `unlock`, not a mutating tool
          waited : BOOLEAN,    \* acquired_by_guard: not a hold it already had
          overwrite : BOOLEAN, \* was_forced_released
          holder : Holders]    \* the holder try_acquire reported

NoCall == [pc |-> "idle", path |-> AnyPath, unlock |-> FALSE, waited |-> FALSE,
           overwrite |-> FALSE, holder |-> None]

NoRequest == [pc |-> "idle", path |-> AnyPath]

NoSweep == [pc |-> "off", snap |-> {}, restore |-> {}, freed |-> {}]

PersistTasks == [path : Paths, owner : Owners, slot : 1..MaxPersist,
                 stage : {"db", "mem"}]

TypeOK ==
  /\ held \in [Paths -> Holders]
  /\ idle \subseteq {p \in Paths : held[p] \in Owners}
  /\ forced \subseteq Paths
  /\ waiting \in [Owners -> Edges \cup {None}]
  /\ notified \in [Owners -> {"no", "armed", "fired"}]
  /\ rows \in [Paths -> Owners \cup {None}]
  /\ op \in [Owners -> Calls]
  /\ api \in [Requests -> [pc : {"idle", "in"}, path : Paths]]
  /\ sweep \in [pc : {"off", "db", "mem", "restore"},
                snap : SUBSET (Paths \X Owners),
                restore : SUBSET (Paths \X Owners),
                freed : SUBSET Paths]
  /\ persists \subseteq PersistTasks
  /\ missed \subseteq Owners

Init ==
  /\ held = [p \in Paths |-> None]
  /\ idle = {}
  /\ forced = {}
  /\ waiting = [o \in Owners |-> None]
  /\ notified = [o \in Owners |-> "no"]
  /\ rows = [p \in Paths |-> None]
  /\ op = [o \in Owners |-> NoCall]
  /\ api = [r \in Requests |-> NoRequest]
  /\ sweep = NoSweep
  /\ persists = {}
  /\ missed = {}

-----------------------------------------------------------------------------
(* Database statements (cockpit-db/src/db/locks.rs) *)

\* guarded_lock_acquire: insert the row, or keep the caller's own; another
\* owner's row is a conflict and nothing is written.
RowFree(p, o) == rows[p] \in {None, o}
lock_acquire(p, o) == rows' = [rows EXCEPT ![p] = o]

\* DELETE ... WHERE path AND owner: another owner's row is left alone.
Without(r, p, o) == IF r[p] = o THEN [r EXCEPT ![p] = None] ELSE r
lock_release(p, o) == rows' = Without(rows, p, o)

\* lock_release_and_delete_reads over a set of (path, owner) pairs.
lock_release_and_delete_reads(S) ==
  rows' = [p \in Paths |-> IF <<p, rows[p]>> \in S THEN None ELSE rows[p]]

-----------------------------------------------------------------------------
(* Pieces shared by the calls *)

Path(o) == op[o].path
Mine(o) == held[Path(o)] = o
At(o, pc) == op[o].pc = pc
Goto(o, pc) == op' = [op EXCEPT ![o].pc = pc]
EndCall(o) == op' = [op EXCEPT ![o] = NoCall]

\* Mutant: Notify::notify_one, which wakes a single waiter.
notify_one ==
  IF \E o \in Owners : notified[o] = "armed"
  THEN [notified EXCEPT ![CHOOSE o \in Owners : notified[o] = "armed"] = "fired"]
  ELSE notified

notify_waiters ==
  [o \in Owners |-> IF notified[o] = "armed" THEN "fired" ELSE notified[o]]

\* `held` and `touched` lose the path only when this owner still holds it.
DropHold(p, o) ==
  /\ held' = IF held[p] = o THEN [held EXCEPT ![p] = None] ELSE held
  /\ idle' = IF held[p] = o THEN idle \ {p} ELSE idle

\* Mutant: the dispatcher does not refresh the caller's holds.
touch_nobody(o) == idle' = idle

\* touch_holder: refresh every hold of the identity the dispatcher names. The
\* persisted timestamp only seeds `touched` after a restart, where every hold
\* is free to age, so it is left out.
touch_holder(o) == idle' = {p \in idle : held[p] # RefreshedAs[o]}

clear_waiter(o) == waiting' = [waiting EXCEPT ![o] = None]

\* Mutant: the cycle is looked for before the new edge is recorded.
wait_cycle_unrecorded(w, o) ==
  /\ waiting[o] # None
  /\ waiting[o].holder \in Owners
  /\ waiting[waiting[o].holder] # None
  /\ waiting[waiting[o].holder].holder = o

\* wait_cycle: following the recorded edges from o's holder comes back to o.
\* Edges form a partial function, so that is: every set of owners that has
\* o's holder and is closed under the edges has o.
wait_cycle(w, o) ==
  /\ w[o].holder \in Owners
  /\ \A S \in SUBSET Owners :
        (/\ w[o].holder \in S
         /\ \A q \in S : (w[q] # None /\ w[q].holder \in Owners)
                            => w[q].holder \in S)
        => o \in S

PendingOf(o) == {t \in persists : t.owner = o}

-----------------------------------------------------------------------------
(* A tool call starts: the dispatcher refreshes the caller's holds. The    *)
(* approval prompt (authorize_existing_write) parks a mutating call in     *)
(* "start".                                                                *)

StartWrite(o, p) ==
  /\ At(o, "idle")
  /\ Cardinality(PendingOf(o)) < MaxPersist
  /\ touch_holder(o)
  /\ op' = [op EXCEPT ![o] = [NoCall EXCEPT !.pc = "start", !.path = p]]
  /\ missed' = missed \ {o}
  /\ UNCHANGED <<held, forced, waiting, notified, rows, api, sweep, persists>>

\* `unlock` of a path its caller holds; of any other path it does nothing.
StartUnlock(o, p) ==
  /\ At(o, "idle")
  /\ o \in Unlockers
  /\ held[p] = o
  /\ touch_holder(o)
  /\ op' = [op EXCEPT ![o] = [NoCall EXCEPT !.pc = "reldb", !.path = p,
                                           !.unlock = TRUE]]
  /\ missed' = missed \ {o}
  /\ UNCHANGED <<held, forced, waiting, notified, rows, api, sweep, persists>>

\* acquire_waiting: does the caller hold the path already?
Peek(o) ==
  /\ At(o, "start")
  /\ op' = [op EXCEPT ![o].waited = ~Mine(o), ![o].pc = "try"]
  /\ UNCHANGED <<memory, rows, api, sweep, persists, missed>>

-----------------------------------------------------------------------------
(* try_acquire and acquire_wait_inner *)

\* The in-memory half of try_acquire: take a free path, accept the caller's
\* own hold, or report the holder. The first attempt ("try") goes on to
\* register for a wake-up when the path is busy, the later ones ("retry") to
\* record the wait.
TryAcquire(o) ==
  /\ op[o].pc \in {"try", "retry"}
  /\ LET p == Path(o) IN
     \/ /\ held[p] = o
        /\ clear_waiter(o)
        /\ notified' = [notified EXCEPT ![o] = "no"]
        /\ Goto(o, "acquired")
        /\ UNCHANGED <<held, idle>>
     \/ /\ held[p] = None
        /\ held' = [held EXCEPT ![p] = o]
        /\ idle' = idle \ {p}
        /\ op' = [op EXCEPT ![o].pc = "acqdb", ![o].overwrite = p \in forced]
        /\ UNCHANGED <<waiting, notified>>
     \/ /\ held[p] \notin {o, None}
        /\ op' = [op EXCEPT
              ![o].pc = IF At(o, "try") THEN "arm" ELSE "record",
              ![o].holder = IF At(o, "try") THEN None ELSE held[p]]
        /\ UNCHANGED <<held, idle, waiting, notified>>
  /\ UNCHANGED <<forced, rows, api, sweep, persists, missed>>

\* The database half: lock_force_acquire for a path released in memory only,
\* lock_acquire otherwise.
AcquireDb(o) ==
  /\ At(o, "acqdb")
  /\ \/ /\ op[o].overwrite \/ RowFree(Path(o), o)
        /\ lock_acquire(Path(o), o)
        /\ Goto(o, "acqok")
     \/ /\ DbMayFail \/ ~(op[o].overwrite \/ RowFree(Path(o), o))
        /\ Goto(o, "acqfail")
        /\ UNCHANGED rows
  /\ UNCHANGED <<memory, api, sweep, persists, missed>>

AcquireOk(o) ==
  /\ At(o, "acqok")
  /\ forced' = forced \ {Path(o)}
  /\ clear_waiter(o)
  /\ notified' = [notified EXCEPT ![o] = "no"]
  /\ op' = [op EXCEPT ![o].pc = "acquired", ![o].overwrite = FALSE]
  /\ UNCHANGED <<held, idle, rows, api, sweep, persists, missed>>

\* The rollback. It wakes nobody; the loop's error path clears the wait edge,
\* the first attempt's does not.
AcquireFail(o) ==
  /\ At(o, "acqfail")
  /\ DropHold(Path(o), o)
  /\ waiting' = IF notified[o] = "no" THEN waiting
                ELSE [waiting EXCEPT ![o] = None]
  /\ notified' = [notified EXCEPT ![o] = "no"]
  /\ missed' = (missed \ {o}) \cup
       {q \in Owners \ {o} : /\ Mine(o) /\ Path(q) = Path(o)
                             /\ op[q].pc \in {"record", "blocked"}
                             /\ notified[q] = "armed"}
  /\ EndCall(o)
  /\ UNCHANGED <<forced, rows, api, sweep, persists>>

\* notified().enable(), before the holder is looked at again.
Arm(o) ==
  /\ At(o, "arm")
  /\ notified' = [notified EXCEPT ![o] = "armed"]
  /\ Goto(o, "retry")
  /\ missed' = missed \ {o}
  /\ UNCHANGED <<held, idle, forced, waiting, rows, api, sweep, persists>>

\* record_wait_or_cycle: record the edge, refuse when it closes a cycle.
RecordWait(o) ==
  /\ At(o, "record")
  /\ LET w == [waiting EXCEPT ![o] = [path |-> Path(o), holder |-> op[o].holder]] IN
     \/ /\ wait_cycle(w, o)
        /\ clear_waiter(o)
        /\ notified' = [notified EXCEPT ![o] = "no"]
        /\ EndCall(o)
     \/ /\ ~wait_cycle(w, o)
        /\ waiting' = w
        /\ op' = [op EXCEPT ![o].pc = "blocked", ![o].holder = None]
        /\ UNCHANGED notified
  /\ UNCHANGED <<held, idle, forced, rows, api, sweep, persists, missed>>

Wake(o) ==
  /\ At(o, "blocked")
  /\ notified[o] = "fired"
  /\ Goto(o, "arm")
  /\ UNCHANGED <<memory, rows, api, sweep, persists, missed>>

\* LOCK_WAIT_TIMEOUT or the turn's cancellation ends the wait.
WaitTimeout(o) ==
  /\ At(o, "blocked")
  /\ clear_waiter(o)
  /\ notified' = [notified EXCEPT ![o] = "no"]
  /\ EndCall(o)
  /\ UNCHANGED <<held, idle, forced, rows, api, sweep, persists, missed>>

-----------------------------------------------------------------------------
(* The write guard: begin_guard_after_wait, the mutation, its release *)

\* The caller must still hold the path, and the freshness gate may refuse (see
\* FreshReads). A refusal gives back a hold this call acquired
\* (release_force_memory, whose own owner check comes first).
BeginGuard(o) ==
  /\ At(o, "acquired")
  /\ \/ Mine(o) /\ Goto(o, "guard")
     \/ IF op[o].waited /\ Mine(o) THEN Goto(o, "reldb") ELSE EndCall(o)
  /\ UNCHANGED <<memory, rows, api, sweep, persists, missed>>

\* Drop for WriteGuard: a hold this call acquired leaves memory at once, the
\* path is marked so that the next acquire may overwrite the row, and a task
\* to delete the row is spawned.
AbandonGuard(o) ==
  LET p == Path(o) IN
  IF op[o].waited /\ held[p] = o
  THEN /\ DropHold(p, o)
       /\ forced' = forced \cup {p}
       /\ notified' = [notify_waiters EXCEPT ![o] = "no"]
       /\ \E n \in 1..MaxPersist :
            /\ \A t \in PendingOf(o) : t.slot # n
            /\ \A m \in 1..(n - 1) : \E t \in PendingOf(o) : t.slot = m
            /\ persists' = persists \cup
                 {[path |-> p, owner |-> o, slot |-> n, stage |-> "db"]}
  ELSE UNCHANGED <<held, idle, forced, notified, persists>>

\* The mutation landed: release_after_write releases a hold this call acquired
\* while memory still shows it.
Land(o) ==
  /\ At(o, "guard")
  /\ IF op[o].waited /\ Mine(o) THEN Goto(o, "reldb") ELSE EndCall(o)
  /\ UNCHANGED <<memory, rows, api, sweep, persists, missed>>

\* The bytes changed since they were first read, the mutation was refused or
\* failed, or the dispatcher dropped the call: the guard goes out of scope.
GiveUpGuard(o) ==
  /\ MayAbandon
  /\ At(o, "guard")
  /\ AbandonGuard(o)
  /\ EndCall(o)
  /\ UNCHANGED <<waiting, rows, api, sweep, missed>>

\* lock_release. `unlock` (release) stops at a failure and keeps its hold;
\* release_force_memory goes on.
ReleaseDb(o) ==
  /\ At(o, "reldb")
  /\ \/ lock_release(Path(o), o) /\ Goto(o, "relok")
     \/ /\ DbMayFail /\ UNCHANGED rows
        /\ IF op[o].unlock THEN EndCall(o) ELSE Goto(o, "relfail")
  /\ UNCHANGED <<memory, api, sweep, persists, missed>>

\* The in-memory release of release and release_force_memory.
ReleaseMemory(o) ==
  /\ op[o].pc \in {"relok", "relfail"}
  /\ DropHold(Path(o), o)
  /\ forced' = IF At(o, "relok") THEN forced \ {Path(o)}
               ELSE forced \cup {Path(o)}
  /\ notified' = notify_waiters
  /\ EndCall(o)
  /\ UNCHANGED <<waiting, rows, api, sweep, persists, missed>>

-----------------------------------------------------------------------------
(* The dispatcher drops a call at an await: cancellation, a tool timeout   *)
(* (GLOBAL_TOOL_TIMEOUT), or the death of the task. A live guard is        *)
(* dropped with it (GiveUpGuard); a database write already queued still    *)
(* commits, which is the same call dropped one step later. Nothing else is *)
(* undone: not the in-memory hold of a call without a guard, not the wait  *)
(* edge.                                                                   *)

Awaiting == {"start", "blocked", "acqdb", "acqok", "acqfail", "acquired",
             "reldb", "relok", "relfail"}

DropCall(o) ==
  /\ MayAbandon
  /\ op[o].pc \in Awaiting
  /\ notified' = [notified EXCEPT ![o] = "no"]
  /\ EndCall(o)
  /\ UNCHANGED <<held, idle, forced, waiting, rows, api, sweep, persists, missed>>

\* persist_abandoned_write_guard_release.
PersistDb(t) ==
  /\ t.stage = "db"
  /\ \/ /\ lock_release(t.path, t.owner)
        /\ persists' = (persists \ {t}) \cup {[t EXCEPT !.stage = "mem"]}
     \/ /\ DbMayFail
        /\ persists' = persists \ {t}
        /\ UNCHANGED rows
  /\ UNCHANGED <<memory, op, api, sweep, missed>>

PersistMemory(t) ==
  /\ t.stage = "mem"
  /\ forced' = forced \ {t.path}
  /\ persists' = persists \ {t}
  /\ UNCHANGED <<held, idle, waiting, notified, rows, op, api, sweep, missed>>

-----------------------------------------------------------------------------
(* The remote file API: a memory-only hold for one synchronous request. A  *)
(* second request finds its own identity in `held` and goes in as well.    *)

ApiMayEnter(p) == held[p] \in {None, Api}

ApiBegin(r, p) ==
  /\ api[r].pc = "idle"
  /\ ApiMayEnter(p)
  /\ held' = [held EXCEPT ![p] = Api]
  /\ idle' = idle \ {p}
  /\ api' = [api EXCEPT ![r] = [pc |-> "in", path |-> p]]
  /\ UNCHANGED <<forced, waiting, notified, rows, op, sweep, persists, missed>>

\* The file is written, deleted, or the request is refused (hash mismatch), and
\* the TransientLockGuard is dropped.
ApiEnd(r) ==
  /\ api[r].pc # "idle"
  /\ DropHold(api[r].path, Api)
  /\ notified' = notify_waiters
  /\ api' = [api EXCEPT ![r] = NoRequest]
  /\ UNCHANGED <<forced, waiting, rows, op, sweep, persists, missed>>

-----------------------------------------------------------------------------
(* Idle expiry *)

\* LOCK_IDLE_TIMEOUT (300 s) passes for a hold. It cannot during a call that
\* refreshed or took it: GLOBAL_TOOL_TIMEOUT ends every file tool at 120 s.
Age(p) ==
  /\ held[p] \in Owners
  /\ At(held[p], "idle")
  /\ idle' = idle \cup {p}
  /\ UNCHANGED <<held, forced, waiting, notified, rows, tasks, missed>>

SweepSnapshot ==
  /\ sweep.pc = "off"
  /\ LET snap == {<<p, held[p]>> : p \in idle} IN
     /\ snap # {}
     /\ sweep' = [NoSweep EXCEPT !.pc = "db", !.snap = snap]
  /\ UNCHANGED <<memory, rows, op, api, persists, missed>>

SweepDb ==
  /\ sweep.pc = "db"
  /\ \/ /\ lock_release_and_delete_reads(sweep.snap)
        /\ sweep' = [sweep EXCEPT !.pc = "mem"]
     \/ /\ DbMayFail
        /\ sweep' = NoSweep
        /\ UNCHANGED rows
  /\ UNCHANGED <<memory, op, api, persists, missed>>

\* Mutants: the snapshot is trusted after the await; the rows of a refreshed
\* hold stay deleted; `touched` keeps a reclaimed path; nobody is woken.
ExpiredInSnapshot(e) == held[e[1]] = e[2]
RefreshedForgotten(e) == FALSE
ReclaimHeldOnly(freed) ==
  /\ held' = [p \in Paths |-> IF p \in freed THEN None ELSE held[p]]
  /\ idle' = idle
WakeNobodyFor(freed) == notified' = notified

\* Under the mutex again: a hold that is still the snapshot's and still idle
\* is reclaimed, one that was refreshed is kept and its deleted row is to be
\* written back.
Expired(e) == held[e[1]] = e[2] /\ e[1] \in idle
Refreshed(e) == held[e[1]] = e[2] /\ e[1] \notin idle
Reclaim(freed) ==
  /\ held' = [p \in Paths |-> IF p \in freed THEN None ELSE held[p]]
  /\ idle' = idle \ freed
WakeFor(freed) ==
  notified' = IF freed = {} THEN notified ELSE notify_waiters

SweepMemory ==
  /\ sweep.pc = "mem"
  /\ LET gone == {e \in sweep.snap : Expired(e)}
         kept == {e \in sweep.snap : Refreshed(e)}
         freed == {e[1] : e \in gone}
     IN /\ Reclaim(freed)
        /\ sweep' = [pc |-> "restore", snap |-> {}, freed |-> freed,
                     restore |-> kept]
  /\ UNCHANGED <<forced, waiting, notified, rows, op, api, persists, missed>>

SweepRestore(e) ==
  /\ sweep.pc = "restore"
  /\ \/ RowFree(e[1], e[2]) /\ lock_acquire(e[1], e[2])
     \/ (DbMayFail \/ ~RowFree(e[1], e[2])) /\ UNCHANGED rows
  /\ sweep' = [sweep EXCEPT !.restore = sweep.restore \ {e}]
  /\ UNCHANGED <<memory, op, api, persists, missed>>

SweepNotify ==
  /\ sweep.pc = "restore"
  /\ sweep.restore = {}
  /\ WakeFor(sweep.freed)
  /\ sweep' = NoSweep
  /\ UNCHANGED <<held, idle, forced, waiting, rows, op, api, persists, missed>>

-----------------------------------------------------------------------------
\* The daemon stops and from_db rebuilds the holds from the mirror; everything
\* else was only in memory.
Restart ==
  /\ MayCrash
  /\ held' = rows
  /\ idle' = {}
  /\ forced' = {}
  /\ waiting' = [o \in Owners |-> None]
  /\ notified' = [o \in Owners |-> "no"]
  /\ op' = [o \in Owners |-> NoCall]
  /\ api' = [r \in Requests |-> NoRequest]
  /\ sweep' = NoSweep
  /\ persists' = {}
  /\ missed' = {}
  /\ UNCHANGED <<rows>>

-----------------------------------------------------------------------------
CallStep(o) ==
  \/ Peek(o) \/ TryAcquire(o) \/ AcquireDb(o) \/ AcquireOk(o) \/ AcquireFail(o)
  \/ Arm(o) \/ RecordWait(o) \/ Wake(o)
  \/ BeginGuard(o) \/ Land(o) \/ ReleaseDb(o) \/ ReleaseMemory(o)

SweepStep ==
  \/ SweepSnapshot \/ SweepDb \/ SweepMemory \/ SweepNotify
  \/ \E e \in sweep.restore : SweepRestore(e)

PersistStep == \E t \in persists : PersistDb(t) \/ PersistMemory(t)

Next ==
  \/ \E o \in Owners, p \in Paths : StartWrite(o, p) \/ StartUnlock(o, p)
  \/ \E o \in Owners : CallStep(o) \/ WaitTimeout(o) \/ GiveUpGuard(o) \/ DropCall(o)
  \/ \E r \in Requests, p \in Paths : ApiBegin(r, p)
  \/ \E r \in Requests : ApiEnd(r)
  \/ \E p \in Paths : Age(p)
  \/ SweepStep
  \/ PersistStep
  \/ Restart

Spec == Init /\ [][Next]_vars

-----------------------------------------------------------------------------
(* Fairness for the liveness runs: every task that can run is polled, time *)
(* passes, and the sweeper's interval keeps ticking. Nothing obliges an    *)
(* agent to call a tool, a caller to cancel, or a wait to time out.        *)

Fairness ==
  /\ \A o \in Owners : WF_vars(CallStep(o))
  /\ \A r \in Requests : WF_vars(ApiEnd(r))
  /\ \A p \in Paths : WF_vars(Age(p) /\ p \notin idle)
  /\ WF_vars(SweepStep)
  /\ WF_vars(PersistStep)

FairSpec == Spec /\ Fairness

-----------------------------------------------------------------------------
(* Properties *)

\* o has a live write guard whose mutation has not landed.
Guarding(o) == At(o, "guard")
\* Request r is inside its memory-only hold and has not written yet.
ApiWriting(r) == api[r].pc = "in"

\* Invariant 1 of locks/mod.rs, where it matters: on one path at most one
\* agent is between its gate and its mutation, and none is while the remote
\* file API is.
WriterExclusion ==
  /\ \A o, q \in Owners :
       (o # q /\ Guarding(o) /\ Guarding(q)) => Path(o) # Path(q)
  /\ \A o \in Owners, r \in Requests :
       (Guarding(o) /\ ApiWriting(r)) => Path(o) # api[r].path

\* The lock protocol implements PathWriters: begin_write is an entry into a
\* vacant path, and landing, giving up, ending a request and a restart leave.
Inside == {<<o, Path(o)>> : o \in {q \in Owners : Guarding(q)}}
          \cup {<<Api, api[r].path>> : r \in {q \in Requests : ApiWriting(q)}}
Abstract == INSTANCE PathWriters
              WITH Writers <- Owners \cup {Api}, inside <- Inside
ImplementsPathWriters == Abstract!Spec

\* o sleeps in acquire_wait and no wake-up is on its way.
Sleeping(o) == /\ At(o, "blocked") /\ notified[o] = "armed"
               /\ Path(o) \notin sweep.freed

\* A sleeping waiter's path is held, and by the holder its recorded edge
\* names, so the edges wait_cycle follows are true. The one way out is a
\* rollback in try_acquire, which frees the path without a wake-up.
SleepersKnowHolder ==
  \A o \in Owners : (Sleeping(o) /\ o \notin missed)
     => /\ waiting[o] # None
        /\ waiting[o].path = Path(o)
        /\ waiting[o].holder = held[Path(o)]

\* The wait graph does its job: owners asleep on each other's holds in a
\* circle, each waiting for the next one to let go, never get that far.
NoSilentDeadlock ==
  \A S \in SUBSET Owners :
    (S # {} /\ \A o \in S : Sleeping(o) /\ o \notin missed)
       => \E o \in S : held[Path(o)] \notin S

\* "no busy-poll, no lost wakeup" (locks/mod.rs): a waiter that nothing is
\* about to wake waits for somebody.
NoLostWakeup == \A o \in Owners : Sleeping(o) => held[Path(o)] # None

\* "mirrored to SQLite so a daemon crash leaves a coherent on-disk view"
\* (locks/mod.rs): with no call, sweep or clean-up under way, the agents'
\* holds are the rows.
Quiescent == /\ \A o \in Owners : At(o, "idle")
             /\ sweep.pc = "off" /\ persists = {} /\ forced = {}
MirrorCoherent ==
  Quiescent => \A p \in Paths : held[p] # Api => rows[p] = held[p]

\* acquire_wait promises that a blocked call goes on once the path is released,
\* by its holder or by idle expiry: an owner's call ends if from some time on
\* nobody else makes calls or requests, whatever holds they left behind, and
\* no rollback in try_acquire freed its path silently.
OthersQuiet(o) == /\ o \notin missed
                  /\ \A q \in Owners \ {o} : At(q, "idle")
                  /\ \A r \in Requests : api[r].pc = "idle"
QuietCallEnds ==
  \A o \in Owners : <>[]OthersQuiet(o) => []<>At(o, "idle")
=============================================================================
