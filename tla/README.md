# FlyCockpit: a TLA+ model of the daemon's locks, leases and effect journal

FlyCockpit runs coding agents in a long-lived daemon (`crates/cockpit-core`).
Many agents, in many sessions, and remote clients change the same project files
at the same time and call providers whose effects cannot be undone. Four
protocols keep that in order, and this project models them:

* the daemon-wide **lock manager** (`locks/`): one writer per file;
* the **freshness guard** ("section 3c"): nobody overwrites what it has not seen;
* **write-scope leases** (`write_scope/`): a subtree delegated to a child agent
  belongs to the child until it provably has nothing running there;
* the **external effect journal** (`external_journal/`): a provider is called at
  most once, and what it answered survives outages and crashes.

All of them keep memory behind a mutex that is not held across an `.await`,
or rows and files that are changed one transaction or one write at a time, with
calls that may be dropped at any await, writes that fail, and restarts.

Paths below are relative to `crates/cockpit-core/src` unless they start with
`cockpit-db` (`crates/cockpit-db/src/db`) or `apps`.

## Inventory

### The core

| Part | State | Operations | What is hard |
|---|---|---|---|
| Lock manager (`locks/mod.rs`, `acquire.rs`) | `held`, `touched`, `forced_released`, one `Notify` | `acquire_wait`, `try_acquire`, `begin_*_after_wait`, `release_after_write`, `release`, `release_force_memory`, guard drop, `acquire_transient` | memory changes before the row does, or after it; each half can fail or be dropped alone |
| Wait graph (`locks/waitgraph.rs`) | `waiting`: one edge per waiter | `record_wait_or_cycle`, `clear_waiter`, `wait_cycle` | edges must be true while somebody sleeps on them; edges survive dropped calls |
| Idle expiry (`sweep_expired`, `daemon/server/dispatch.rs`) | a snapshot across two database awaits | snapshot, delete rows, re-check, restore, wake | the snapshot is stale when it is applied |
| Mirror (`cockpit-db/locks.rs`) | `lock_state`, `lock_reads` | guarded upsert, forced upsert, delete by owner | a late delete or a late restore meets a newer owner |
| Freshness guard (`acquire.rs`, `tools/*`) | `read_tracker`, `authored_tracker` | the gate, `existing_file_unchanged`, `note_read`, `note_authored` | bytes are read before a prompt and a lock wait, and recorded after the lock is gone |
| Remote file API (`daemon/fs_api.rs`) | a memory-only hold | `fs_write`, `fs_delete`, `fs_rename` | one identity for all requests |
| Dispatcher (`engine/agent/tool_timeout.rs`, `tool_dispatch.rs`) | the running call | `touch_holder`, drop on timeout or cancellation | a dropped future runs no more code than its destructors |
| Suspension (`locks/suspension.rs`) | `suspended`, `session_released` | suspend, resume, transfer, end of session | releases and re-acquires by content hash over several awaits |
| Write-scope leases (`write_scope/`, `cockpit-db/write_scope_leases.rs`) | leases with state and generation, transfers with a phase, permits, containments, tokens | `begin_transfer`, `child_terminal`, `complete_return`, `recover`, session deletion, shutdown, mutation permits | ten durable steps with a crash between any two; authority must follow the processes that really run |
| External journal (`external_journal/`, `cockpit-db/external_journal.rs`) | operation records with versions and events, capsule reservations, two-slot capsule files, the integrity latch, tickets | prepare, `begin_dispatch`, rollback, `record_outcome`, the spool fallback, cancellation, expiry, boot recovery | two media that disagree after an outage; a dispatched effect nobody can ask about |

What makes them correct: one writer per path between gate and mutation; no
waiter asleep on a free path; no circle of sleepers; the mirror equals the
holds when nothing is under way; a blocked call goes on once the path is let go;
an existing file is replaced only by somebody who knows exactly those bytes; a
reclaimed hold takes its read record with it for good; no file is in two leases'
effective authority, and nobody gains a file while another containment is
populated there; an effect happens at most once, after it is durable that it may
and before its record is closed; an acknowledged outcome or cancellation is not
lost; a restart leaves nothing undecided that nobody could decide later.

### The rest of the repository

Components with protocol state that are not modelled, in the order in which they
are worth it: session continuity and control replay
(`daemon/session_continuity.rs`, `control_replay.rs`), the relay's presence
(`apps/relay`), the interrupt hub and approvals (`engine/interrupt.rs`,
`approval/`), drain and shutdown (`daemon/shutdown.rs`), workspace leases, the
schedulers, and the outbox, upload and reservation workers.

Without a model, and without one planned: the terminal UI, web, mobile, server
and worker applications, wire formats, the Noise handshake, configuration
parsing, providers, MCP and image-generation adapters, redaction, key storage,
computer use, packaging and release tooling. They are presentation, I/O,
parsing or cryptography. `PROJECT.json` lists every component with its files.

## Modules

| Module | Role |
|---|---|
| `PathWriters` | abstract: a writer enters a vacant path, leaves it, or is evicted by a restart |
| `FileLocks` | the lock manager with its callers, mirror, sweeper and clean-up tasks |
| `FileLocksProofs` | its theorems: types, exclusion, refinement, the waits and the mirror |
| `FreshReads` | contents, read records and gates, over `PathWriters` as the lock |
| `FreshReadsProofs` | its theorems |
| `SeenContent` | `FreshReads` with a history of what each agent has seen |
| `LockSuspension` | `FileLocks` with suspension, resumption, primary swap and end of session |
| `EffectOnce` | abstract: an operation is recorded, dispatched, sent at most once, closed |
| `ExternalJournal` | the journal over its tables and spool, with boot recovery |
| `ExternalJournalProofs`, `ExternalJournalCapsules`, `ExternalJournalSlots` | its theorems: types and refinement; capsules and recovery; the outcomes in the slots |
| `WriteScopes` | the lease coordinator over its tables and containments, with recovery |
| `WriteScopesProofs`, `WriteScopesHome`, `WriteScopesRecovery` | its theorems: types and exclusive authority; mutations and populated containments; recovery |
| `MCFileLocks`, `MCFreshReads`, `MCLockSuspension`, `MCExternalJournal`, `MCWriteScopes` | instances for TLC |

`FileLocks` implements `PathWriters` (checked and proved), and `FreshReads` uses
`PathWriters` in place of the lock protocol, so neither carries the other's
state. `FreshReads` therefore inherits the two assumptions of the
implementation theorem (below); it has one file-API request. `LockSuspension`
extends `FileLocks` and conjoins its own variables to every step of it.
`ExternalJournal` implements `EffectOnce` (checked and proved). The locks, the leases and
the journal share no state in the code: a mutation permit and a file lock are
taken independently, so the modules are checked apart.

### FileLocks and the code

One action is one critical section of the state mutex or one transaction of the
database writer; everything else may happen in between. Removing a hold and the
`notify_waiters()` that follows with no await are one action, because nobody
can observe the state between them except by blocking on the mutex and then
seeing the same outcome.

* A call (`op[o]`) goes start (where the approval prompt parks it), `Peek`
  (`acquire_waiting`: is it already ours?), `TryAcquire`, `AcquireDb`,
  `AcquireOk`/`AcquireFail`, or around the wait loop `Arm`, `TryAcquire`,
  `RecordWait`, `Wake`/`WaitTimeout`; then `BeginGuard`, `Land`, `ReleaseDb`,
  `ReleaseMemory`. `StartUnlock` enters the same release with `unlock` set,
  which stops at a failed database write and keeps the hold.
* `GiveUpGuard` is `Drop for WriteGuard`, with the task it spawns
  (`PersistDb`, `PersistMemory`); `DropCall` is a call dropped without a guard,
  which leaves its hold and its wait edge behind.
* `SweepSnapshot` to `SweepNotify` are the five stretches of `sweep_expired`.
  Time is a set: `idle` holds the paths past `LOCK_IDLE_TIMEOUT`, `Age` puts a
  path in it while its holder is in no call (a call lasts at most
  `GLOBAL_TOOL_TIMEOUT`, 120 s, against 300 s), `touch_holder` takes it out.
* `Restart` is a crash at any point followed by `from_db`.
* An owner is a (session, lock identity) pair that runs one call at a time.
  `RefreshedAs` says which identity the dispatcher refreshes for it.
* `missed` is history: the owners on whose path an acquire was rolled back with
  no wake-up. Properties that need wake-ups exclude them, and one run is about
  them.

Left out: `acquire_wait` with a read record (no tool uses it), `begin_write`
(tests only), worktree orchestration's own use of the locks (it takes the paths
of a merge with `acquire` and gives them back with `abandon_held_paths`), message texts, `lock_touch`'s timestamps (they
only seed the idle clock after a restart, which is free in the model).

### FreshReads and the code

Contents are a small set, a hash is the content it hashes (no collisions), and
`NoFile` is also the hash `file_hash` cannot compute. A call reads the target's
bytes first (`StartCall`), passes the gate under the lock (`BeginGuard`,
`FreshRead`), compares the bytes again (`StabilityCheck`), mutates and releases
(`Land`), then records what is on disk by then (`NoteHash`, `NoteDb`,
`NoteMemory`). `write` is "create" or "replace" by what it found. The API's
base-hash check and write are two steps. A staged write whose content is already
there succeeds without writing; to the file that is a refused or an identical
write, both of which are in the model. Files change only through the tools and
the API: shell commands and editors outside the daemon are not modelled, and no
property claims anything about them.

### LockSuspension and the code

A scope is the set of owners one call names: `{agent}` for `suspend_agent` and
`resume_agent`, a session's agents for the session calls. Suspending lists the
holds under the mutex (`SuspendSnapshot`), deletes the rows (`SuspendDb`), and
removes what was listed (`SuspendMemory`); resuming re-inserts in memory what is
free and unchanged (`ResumeMemory`), then in the rows (`ResumeDb`); ending a
session is `EndDb`, `EndMemory`, a primary swap `TransferSnapshot`, `TransferDb`,
`TransferMemory`. Whether a file's hash still matches is a free choice. The
driver does these between the calls of the agents concerned (`Active`,
`Between`). The read records that suspension copies along are not in the model.

### ExternalJournal and the code

* A worker's call (`task[w]`) is one of `begin_dispatch` (`BeginDispatch` to
  `Handoff`, its error path `Rollback`, `RollbackRow`, `RollbackFile`),
  `materialize_preprovisioned`, and `record_outcome` (`RecordOutcome`, the drain
  of a pending fallback `Drain`, `Import`, `Refresh`, then `RecordDb` and its
  answers `Look`, `Retarget`, `Adopt`, or `Fallback`, then `Confirm` and
  `Release`). `Cancel` and `Expire` are transactions of their own.
* A record keeps version, state, the cancellation mark and whether dispatch may
  have started; `events` are the committed (version, state) pairs. A capsule
  file has an operation and two slots; a slot holds a fact or does not
  authenticate.
* `boot` is `start_at`: one reservation at a time, reclaim, import, flag or
  latch, convert, settle, free, then the orphans and the gate. An error ends it,
  and the daemon runs on with dispatch disabled (`BootFails`).
* `authentic_slots` is the set of answers it may give. Two slots can carry the
  same version: a cancellation committed in SQLite at the version of a slot makes
  the drain take that slot for a duplicate and set the ticket back to the record,
  and the next outage writes the next version a second time, into the other slot.
  Facts that differ are refused (`EqualVersionDisagreement`): a drain fails, and
  recovery quarantines the capsule. Facts of one state are refused too unless their
  timestamps agree, which the model leaves open.
* Faults: an outage (`DbFails`, `DbHeals`), a failing file operation
  (`SpoolFault`), a dropped future (`Drop`) and `Crash`, each bounded by name. A
  failing `remove_capsule` leaves the file and its callers go on. A failed pair of
  slot writes leaves none, the first or both (`PartSlots`). A failed `write_slot` of
  a fallback leaves the torn slot; that it may also leave the old slot or the new
  bytes was checked with TLC and breaks nothing, and is not in the model. An error
  of a file operation during recovery leaves the journal disabled like an outage
  there, and is not a step of its own.
* `RecordOutcome` assumes that consumers do not report on a ticket they have
  settled; the code does not check it.
* History: `sends` counts provider calls, `reported` what a slot made durable,
  `acked` the acknowledged cancellations. `overlaid` and `stray` mark the
  defects described below; the properties say where they leave them out.
  `Unlisted` is the one of them that a stopped recovery leaves.

### WriteScopes and the code

A scope is the set of files below a directory, so containment of paths is
inclusion; transfer t's child is lease t. The coordinator's `serial` mutex is
held over a whole transfer, return or recovery, and `job` is the call that has
it; one action is one transaction or one containment call. Mutators (Cockpit's
own file mutations), the children's processes (`Exit`), deletion, shutdown and
`Crash` go on meanwhile. A crash drops tokens and the job and is followed by a
recovery pass before anything else; containments (processes) survive it.
`await_proven_empty` says so only of an empty containment and may doubt it at any
time. `ProcessContainmentBarrier` always doubts after a restart, because its
leases are in memory only; a barrier that remembers is in the model too, and is
the harder case. `Faults` names the calls that may fail. Recovery takes the open transfers in any
order: the code sorts them by the wall clock and then by a random id. Of two
mutations that overlap only those of one target are kept apart: whether others
conflict depends on their kinds, and no property needs it. A permit that is left
behind, because its release failed or because the path resolved differently
after it was stored, stays and blocks. Canonicalisation, events and the platform
backends are left out.

The production backend reports that containment is unsupported, so
`begin_transfer` gets past its support check only in the repository's tests;
recovery, deletion, shutdown and the return calls run in the daemon. What the
run shows is about the coordinator with a working backend.

## Runs

| Run | Instance | Shows |
|---|---|---|
| `locks_core` | 2 agents, 1 API request, 1 path, every failure | `TypeOK`, `WriterExclusion`, `SleepersKnowHolder`, and `ImplementsPathWriters` (157,591 states) |
| `locks_recovery` | 3 agents, 2 paths, restarts | `NoSilentDeadlock`, `MirrorCoherent` (315,724 states) |
| `locks_live` | 2 agents, 1 request, 1 path, dropped calls, restarts, fair | `QuietCallEnds` (64,798 states) |
| `fresh_reads` | 2 agents, 1 request, every tool, 2 contents | `CheckedContentStable`, `ReplacesKnownBytes` (2.9 million states) |
| `fresh_expiry` | 1 agent, 1 request, 3 contents, expiry, restarts | `TypeOK`, `ExpiredMustReread` (about 300,000 states) |
| `journal` | 1 operation, 2 workers, 2 capsules, 4 outcomes per ticket, 1 crash, 2 outages or 1 outage and 1 spool fault (`Focus`) | `TypeOK`, `ImplementsEffectOnce`, `CancelHonoured`, `FallbackSurvives`, `TicketKeepsCapsule`, `RestartResolves` (1.5 million states) |
| `write_scopes` | 3 files, 2 transfers, 1 mutator, 2 crashes, failing containment and database | `TypeOK`, `OneOwner`, `MutationStaysHome`, `CleanMeansQuiet`, `GainsQuietFiles`, `RecoveryCloses` (3.3 million states) |
| `locks_lost_wakeup` | 2 agents, 1 path, failing database | violated: `NoLostWakeup` |
| `locks_api_reentry` | 1 agent, 2 requests | violated: `WriterExclusion` |
| `locks_unrefreshed` | 2 agents, 1 path, one of them a delegated child | violated: `WriterExclusion` |
| `locks_suspend` | 2 sessions, 3 agents, 1 path, dropped calls | violated: `WriterExclusion` |
| `fresh_blind` | 2 agents, 1 request | violated: `NoBlindOverwrite` |

Why these bounds. The races of one path need a holder, a rival and a task
(sweeper, clean-up or request), which two agents and one path have. A sleep in a
circle needs holds that outlive calls: those come from restarts, so
`locks_recovery` has them, three agents and two paths to wait on; three paths
(a circle of three) pass as well, in about four minutes. `MaxPersist = 1` bounds the
clean-up tasks an agent may have pending when it starts another call. Two
contents, one of them empty, separate "changed" from "unchanged" and a missing
file from an empty one under the API's hash.

In `journal`, operations share nothing but the gate, so one is enough; its
second worker is the rival dispatcher, the canceller or the expirer, its second
capsule a second reservation after a rollback. Three outcomes fill both slots
and then need a third; one outage, fault and crash each meet every step. The
second outage and the fourth outcome are there for the two slots of one version
(see "ExternalJournal and the code"). They multiply the states, so `Focus` keeps
the second outage and the spool fault apart, and after the second outage lets
one worker go on: what it adds is about the fallbacks of one ticket. The four
outcomes of `MCOutcomes` are a selection; consumers also record `failed`,
`submission_unknown`, `cancelled` and `completed_after_cancel`, which the theorems
cover.
In `write_scopes`, a directory of two files, a directory within it and one beside
it let two transfers be a child and a grandchild, or two siblings; the second crash hits the
recovery from the first; `OneLeak` bounds the permits whose release failed. Both
systems may stop (a settled journal, a session shut down), so their runs do not
look for deadlock.

Why failures are split. `MirrorCoherent` is about crashes and refreshes. It does
not hold when a call is dropped between the in-memory and the database half of
an acquire (the hold has no row until idle expiry), nor when `unlock` runs
between the sweeper's deletion of a refreshed hold's row and its restoration
(the row comes back with no hold, and only its own owner can take the path from
then on until a restart). Both are in the hazard list. `locks_live` has no
failing database writes, because a rollback may leave a waiter asleep.
`write_scopes` leaves out three failures after which the coordinator gives a
transfer up although its containment may be populated. Adding their name to
`Faults` shows what each breaks:

* "terminate": the result of `terminate` is dropped (`let _ =`) and the permit is
  released. `CleanMeansQuiet` and `GainsQuietFiles` are violated in eight steps,
  `MutationStaysHome` in 18.
* "finish": an error of `finish_transfer` leads to `abandon_and_unwind`, which
  does not terminate the containment. `GainsQuietFiles` is violated in nine
  steps, `MutationStaysHome` in 12; `CleanMeansQuiet` holds, because the permit
  stays.
* "abandon": `begin_transfer` drops the error of abandoning the row and unwinds
  the parent. After a second transfer and a crash, recovery finds the first still
  open and unwinds their parent while the second's containment is populated:
  `GainsQuietFiles` is violated in 13 steps. The other two hold.

These are defects of the coordinator with a working backend, which is not in
production (above).

Fairness (`locks_live`): a runtime that polls every ready task, requests that
end, clocks that advance and the sweeper's 10-second loop
(`spawn_lock_sweeper`) justify weak fairness of a call's own steps, of `ApiEnd`,
`Age`, the sweep and the clean-up tasks. Nothing is assumed of agents: they need
not call, unlock or cancel, and a wait need not time out. The journal and the
coordinator have no task that retries on its own, so nothing is claimed to
happen eventually there; `RestartResolves` and `RecoveryCloses` say what has
happened once a recovery has run.

## What the violated runs say

* `locks_api_reentry`. `acquire_transient` admits a second request under the
  API's own hold, and each guard's drop removes it. The first request to end
  frees the path under the second; an agent then enters.
* `locks_unrefreshed`. The dispatcher refreshes `ctx.agent_id`, the tools lock as
  `ctx.lock_identity`, and the two differ for a delegated child (`agent#task`).
  A hold left by a dropped call of the child ages through its later calls; the
  sweeper takes it inside a write guard that was built on it, and another agent
  enters. (Such a guard needs no acquire: the hold was there already.)
* `locks_lost_wakeup`. `try_acquire`'s rollback removes a hold others may be
  asleep on and calls no `notify_waiters()`. The waiter is refused after
  `LOCK_WAIT_TIMEOUT` although the path was free. It takes no I/O error: a
  clean-up task that clears `forced_released` at the wrong moment makes the next
  acquire conflict with a stale row.
* `fresh_blind`. `note_read` hashes the file as it is when the record is made,
  which is after the lock was released or, for `read`, after unlocked bytes
  were taken. A write in that gap is vouched for by an agent that never saw it.

* `locks_suspend`. `suspend_agent` lists its holds, awaits one row deletion per
  hold, and then removes the listed paths from memory whoever holds them by
  then. A hold left by a dropped call is idle, the sweeper has deleted its row
  and reclaims it in that window, an agent of another session takes the path and
  enters its guard; the suspension removes that hold, and the resumed agent
  enters beside it. With a check of the owner in `SuspendMemory` the same
  instance with two agents passes (143,255 states).

### Defects met without a run of their own

In the journal:

* `record_outcome` ignores a database error of the drain of a pending fallback.
  If SQLite is back for the outcome itself, the outcome conflicts, is retargeted
  and commits over the slots that were not imported, and an acknowledged
  cancellation among them is lost, which the comment above that code says cannot
  happen (`overlaid`).
* A cancellation that SQLite commits at the version a slot already carries makes
  the import take the slot for a duplicate (`Overtaken`). After a second outage
  the capsule may then hold two facts of one version. From there on every
  `record_outcome` of that ticket fails at its drain, until a restart quarantines
  the capsule and closes the dispatch gate; both facts are kept (`FallbackSurvives`),
  neither reaches the record by itself.
* A failing `remove_capsule` in `confirm_and_release` and in the clean-up of
  `materialize_preprovisioned` is ignored; the file that stays is an orphan, which
  the next boot quarantines, closing the gate.
* With two dispatchers of one operation, one may roll back the reservation
  between the other's check and its creation of the file; the effect is then
  dispatched from a capsule without a row (`stray`). No caller in the daemon
  dispatches one operation twice at once.
* For a missing capsule, recovery releases the row in one transaction and
  converts the `dispatching` record in the next. A crash or an outage between the
  two leaves an operation without a row, which no later scan lists, `dispatching`
  for ever (`stray` as well, through `Unlisted`). The attempt to prove
  `RestartResolves` found it: a capsule that was never made or is lost, and two
  restarts, are needed, one more than the run's instance has.
* A cancellation between reservation and file makes the rollback return early
  and leaves the capsule file behind; the next boot quarantines it and blocks
  dispatch, against the doc comment of `begin_dispatch`.

In the write-scope coordinator:

* a crash between abandoning a transfer and unwinding its parent leaves the
  parent in `transferring` with no row for recovery to find;
* a failure of `complete_return` after it released the child can never be
  retried, because `Released` to `Released` is not a legal transition;
* unwinding a transfer makes its parent `Active` although a sibling is still
  delegated, and the sibling's return then fails after releasing its child;
* a pass of recovery meets parents before children and denies the former until
  the next start;
* permits of a crashed process, and execution permits stored and not recorded,
  are never released and block deletion and shutdown;
* a directory above a delegated one may still be renamed or removed.

The states are reachable in the model; `RecoveryCloses` and `MutationStaysHome`
name them as exceptions.

A smaller one: the comment on `begin_write` says that
`release_after_write` still unlocks a hold that existed before; it does not.

## Theorems

All of them hold for every value of the constants, from the ASSUMEs of the
modules only: sets of any size, any bound, any failure switch. Where a theorem
has a hypothesis, it is named in it and given here.

### The lock manager

* `FileLocksProofs!TypeCorrect`: `Spec => []TypeOK`. `TypeOK` is not inductive:
  `RecordWait` stores the holder a call reported, so the invariant adds
  `ReportsHolder` (a call about to record reports an agent or the API).
* `FileLocksProofs!ExclusionHolds`: `Spec => []WriterExclusion`, under two
  hypotheses: `SelfRefreshing` (the dispatcher refreshes the identity that
  takes the locks) and `OneRequest` (file-API requests do not overlap). Both are
  needed: `locks_unrefreshed` shows the first, `locks_api_reentry` the second.
  The inductive invariant is `TypeInv` and
  `IdleMeansNoCall` (a hold past its deadline belongs to an owner in no call),
  `GuardHolds` (a live guard's path is held by its owner), `ApiHolds` (a
  request's path is held by the API). The sweep is the hard step: it may only
  free paths in `idle`, whose holders are in no call, hence not in a guard.
* `FileLocksProofs!LocksImplementPathWriters`: `Spec => ImplementsPathWriters`
  under the same hypotheses; each step maps to an entry into a vacant path, an
  exit, an eviction or a stutter.
* `FileLocksProofs!SleepersKnow` and `NoDeadlock`: the invariants
  `SleepersKnowHolder` and `NoSilentDeadlock`, without a hypothesis. `WaitInv`
  says that whoever has looked at its path since it registered for a wake-up,
  and has none coming (`Watching`), has or is about to record a true edge
  (`TrueEdge`). It starts before the sleep, at the step that reports the holder,
  because the edge is recorded a step later. That no circle closes is a fact
  about the edges before `RecordWait`: its search follows them from the holder
  and refuses, and every other step only takes sleepers away.
* `FileLocksProofs!MirrorHolds`: `Spec => []MirrorCoherent` under `Undisturbed`
  (`DbMayFail` and `MayAbandon` are FALSE, `Unlockers` is empty), the three things
  without which the run shows it to hold and with each of which it fails (see
  "Why failures are split"). `MirrorInv` accounts for every hold without a row
  (`RowUnderway`: the acquire about to write it, the release or the sweep that
  has deleted it) and for the sweeper's entries, which stay their owner's until
  the sweep is done with them (`SweepOwns`) because a call that took its hold
  itself (`TookIt`) never meets an idle path.

### The freshness guard (`FreshReadsProofs`)

`TypeCorrect`, `ChecksStayTrue` (`CheckedContentStable`),
`MutationsKnowTheirBytes` (`ReplacesKnownBytes`) and `ExpiryForgets`
(`ExpiredMustReread`), without a hypothesis, read off one inductive invariant,
`FreshInv`: who is past the gate is the writer of its path, what it compared is
what is on disk, the record it passed with is still there, and a sweep's record
restored late is not that of an expired hold. What `ExclusionHolds` assumes enters
here through `PathWriters` as the lock.

### Write scopes (`WriteScopesProofs`, `WriteScopesHome`, `WriteScopesRecovery`)

* `TypeCorrect` and `AuthorityIsExclusive` (`OneOwner`), without a hypothesis:
  every call may fail and the daemon may die between any two steps. `ScopeInv`
  ties each transfer row to its child's lease (`RowsMatch`), nests scopes
  strictly (`ScopesNest`), keeps what a lease has handed out apart
  (`SiblingsApart`), and says of two live leases that they are disjoint or that
  one lies below a live child of the other (`LiveApart`): then the child's
  exclusion, not the release of anything, keeps the two authorities apart.
  `JobOrder` is where the call that has `serial` stands.
* `CleanIsQuiet` (`CleanMeansQuiet`), if "terminate" is not in `Faults`; with it the
  property is violated in eight steps. `PermitsCover` says that the execution permit
  of a transfer outlives its containment.
* `MutationsStayHome` (`MutationStaysHome`) and `GainsAreQuiet` (`GainsQuietFiles`, an
  action property), if none of "terminate", "finish" and "abandon" is in `Faults`:
  each of them leaves a populated containment behind a transfer that was given up.
  The same faults are left out of the run. `HomeInv` adds to the above that a
  populated containment is of a pending transfer or a live child (`PopulatedOpen`),
  that a lease has one pending transfer at most, is transferring meanwhile and has
  handed out nothing that overlaps it (`InTransit`), that tokens are of live leases
  and none of one about to be excluded (`TokensUsable`), and that a live lease inside
  the scope of a live child descends from it (`Nested`). The step both theorems turn
  on is `Outside`: where a live lease meets a populated containment that is not of
  its line, the containment's whole scope lies below one exclusion of the lease. So
  nothing usable is in it, and a mutation that passes `allows_path` is not below it.
  What is created later is kept off a checked mutation by the drain barrier
  (`Drained`, `PermitHeld`). The ancestors that `lease_ancestry` collects are shown
  to be the least set closed under parents (`AncestryIsLine`), which the line of an
  existing lease never leaves.
* `RecoveryLeavesNothingElse` (`RecoveryCloses`, an action property), without a
  hypothesis: any call may fail. `RecoveryInv` is about the time before the pass as
  much as about the pass, because a return fails on what happened to a sibling long
  ago.
    * `ParentsReady`: the parent of a child that can still be returned is Delegated,
      as `complete_return` needs it, unless a sibling never got a child (the parent is
      Transferring for it, or was unwound to Active) or is half returned. The step
      it turns on is `RestorePhase`, where a half-returned sibling ceases to be one:
      by then `restored_state` has seen the siblings (`CallKnows`).
    * `LostKnown`: a child that `ReturnChild` cannot release, because it is already
      released or is Transferring, was lost before the pass began or has an open
      transfer below it; no step of a pass makes a lease Transferring.
    * `PassDone`: what the pass is done with is closed or has an excuse that no later
      step of the same pass takes away. A half-returned sibling is such an excuse only
      when it is not the one being returned (`Stuck`), since that one may yet be closed.
  TLC checked the invariant with two transfers and every fault, and in part of the
  states of three, before the proof.

### The journal

* `ExternalJournalProofs!TypeCorrect` and `JournalImplementsEffectOnce`, without a
  hypothesis, from `CoreInv`: a call beyond its commit is about a dispatched
  operation with nothing sent before the handoff (`EffectOf`), nobody else is
  beyond the commit of the same operation (`OneCaller`), nothing was sent of an
  undispatched one (`Unsent`), and a published journal has no recovery pending
  and an empty quarantine (`BootWell`). The compare-and-set of `CommitDispatch`
  is what makes `OneCaller` hold. Every other change of a record is along one
  edge of the graph (`RecStep`), which never returns to `prepared` and never
  leaves a terminal state.
* `ExternalJournalCapsules!TicketsKeepCapsules` (`TicketKeepsCapsule`). The
  invariant, `CapsuleInv`, has to begin long before there is a ticket: whoever
  made the file, or holds the ticket, has its row and its file, and nobody else is
  about to take them (`KeepOf`, `Danger`). It rests on who reserved and who made what
  (`MarksOf`, `MineOf`): only the caller that made the file may remove it, only the
  one that reserved the row may remove that, and it does not while the file is
  another's.
* `ExternalJournalCapsules!RestartsResolve` (`RestartResolves`, an action
  property). `ResolveInv`: a `dispatching` operation has its row, by `CapsuleInv`
  at the commit, or its conversion is next; and once a scan has begun it is still
  to be scanned, or something is in quarantine, which the gate refuses.
* `ExternalJournalSlots!CancellationsHonoured` (`CancelHonoured`) and
  `FallbacksSurvive` (`FallbackSurvives`), without a hypothesis, from `CoreInv`,
  `CapsuleInv` and `SlotInv`. `Waiting(o)` are the reported outcomes that an
  import would still bring into the record; everything turns on where they are.
    * While a ticket is held (`WaitOf`), they are in the active slot, or in the other
      one if two fallbacks are pending: the ticket's version counts them from its
      committed one, and at each step of a drain the rest of the chain has them
      all. Somebody else can move the record under a held ticket only by cancelling it,
      one version on (`Ahead`), because `OneCaller` makes the holder the only one to
      record an outcome.
    * They form a path of the state graph (`LadderOf`), each one version after the
      other, so that importing them in order meets no conflict of their own making,
      and the record they lead to is not `succeeded` once a cancellation was
      acknowledged: the slot that carries it comes before anything reported later.
    * Between tickets (`RestOf`), they are all in one capsule that is in quarantine or
      that recovery will come to (`Shelf`: its row is there, the operation is open,
      nobody is about to take the file, and a recovery that has come to it has all of them
      in its chain). What no longer waits is in the history, or was overtaken by a
      committed cancellation, or is in quarantine.
    * A capsule whose slots agree about their versions answers with everything that
      waits in it, in order (`AuthenticChain`). One that is refused, because both
      slots carry one version, keeps what waits: a drain leaves it alone, and
      recovery moves it to quarantine. `Recoverable` in the property says this of
      every answer the capsule may give.
    * A slot is its sentinel, what the dispatch wrote, or what was reported, of the
      operation its capsule is reserved for (`SlotsOf`), and nobody else is about to
      write or remove a guarded file (`FileKept`), even of an operation without its row.
  The steps of callers are reduced to what they may write (`Effect`), so that each
  conjunct is shown once for all callers but the one that moves; each
  step of a ticket's holder and each step of recovery has a lemma of its own. The
  exceptions of the two properties are needed: in `overlaid` operations an outcome was
  committed over what waits, a `stray` one has no row for recovery to find.

### Only model-checked

* `QuietCallEnds`: liveness under fairness is out of the prover's reach.
* The runs that expect a violation, `LockSuspension` and `SeenContent` among them:
  what they are about does not hold.

## Plan

`ControlReplay` with session continuity: a control message takes effect once
over reconnecting clients; then the relay's presence, the interrupt hub and
the drain.

## Not modelled

`PROJECT.json` lists every component. Of the parts above: the remote rename
artifacts, queue entries, tombstones, capacity limits and key ring of the
journal, its capsules that fail verification at boot, the consumers that move
its rows without a capsule (`image_spend.rs`, `image_generation.rs`) and the
retention job that deletes old rows (`ledger_retention.rs`); worktree
orchestration's use of the locks; path canonicalisation, events, the kinds of a
mutation and platform backends of the write scopes; a path hierarchy (directories that contain locked files);
suspension's read records; retry, repair and batching of tool calls. The
remaining components with protocol state are in the plan; the rest of the
repository (interfaces, adapters, parsing, cryptography, packaging) has no
protocol that a model checker would add anything to.
