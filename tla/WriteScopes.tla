----------------------------- MODULE WriteScopes -----------------------------
(***************************************************************************)
(* The write-scope coordinator (crates/cockpit-core/src/write_scope) with  *)
(* its tables (cockpit-db/src/db/write_scope_leases.rs): a lease is one    *)
(* owner's right to write below a directory, a transfer hands a strict     *)
(* sub-scope to a child that runs in a containment, and the return barrier *)
(* or the recovery after a restart hands it back.                          *)
(*                                                                         *)
(* A scope is the set of files below a directory, so containment of paths  *)
(* is inclusion and two scopes overlap exactly when they intersect.        *)
(* Transfers are numbered in the order they are created, the child lease   *)
(* of transfer t is lease t, and lease 0 is the session's root.            *)
(*                                                                         *)
(* One action is one database transaction, one call of the containment, or *)
(* one step of a mutation. The coordinator's `serial` mutex is held across *)
(* a whole transfer, return or recovery: `job` is the call that has it.    *)
(* Revalidating and releasing a mutation permit, user code, and a crash go *)
(* on meanwhile.                                                           *)
(***************************************************************************)
EXTENDS Naturals, FiniteSets

CONSTANTS
  Files,         \* the files of the workspace
  Scopes,        \* directories a transfer may name, as sets of files
  Targets,       \* what a mutation permit may be asked for
  Mutators,      \* Cockpit's own file mutations that run at the same time
  MaxTransfers,  \* bound: transfers begun
  MaxCrashes,    \* bound: daemon crashes
  Faults         \* which calls may fail: "create", "prove" and "terminate" of
                 \* the containment, the database writes of finish_transfer
                 \* ("finish") and of abandoning ("abandon"), the others ("db")

ASSUME ScopesAssumption ==
  /\ \A S \in Scopes \cup Targets : S # {} /\ S \subseteq Files
  /\ \A S, T \in Scopes \cup Targets : S \cap T = {} \/ S \subseteq T \/ T \subseteq S
ASSUME BoundsAssumption == MaxTransfers \in Nat /\ MaxCrashes \in Nat
ASSUME FaultsAssumption ==
  Faults \subseteq {"create", "prove", "terminate", "db", "finish", "abandon"}

Root == 0
Transfers == 1..MaxTransfers
Leases == {Root} \cup Transfers

VARIABLES
  lease,     \* write_scope_leases: state, generation, parent and scope
  xfer,      \* write_scope_transfers: phase, and whether the ticket is attached
  permits,   \* write_scope_permits: the held ones
  deleting,  \* the session is marked as being deleted
  box,       \* each transfer's containment
  tokens,    \* the live tokens, as <<lease, generation>>
  closing,   \* shutting_down
  job,       \* the call that has the `serial` mutex
  mut,       \* the mutations
  crashes    \* how often the daemon crashed

durable == <<lease, xfer, permits, deleting>>
vars == <<durable, box, tokens, closing, job, mut, crashes>>

States == {"none", "active", "transferring", "delegated", "returning", "released"}
Phases == <<"none", "prepared", "parent_excluded", "child_activated",
            "child_terminal", "parent_restored", "committed">>
PhaseSet == {Phases[i] : i \in 1..7}

NoLease == [state |-> "none", gen |-> 0, parent |-> Root, scope |-> {}]
NoTransfer == [phase |-> "none", parent |-> Root, scope |-> {}, child |-> FALSE,
               attached |-> FALSE]
NoMutation == [pc |-> "idle", lease |-> Root, gen |-> 0, target |-> {}]

\* In a recovery pass: what is left to look at and the transfers it keeps because
\* their containment may be populated; `open` and `lost` are history, what was
\* open when the pass began and which of that could not be returned any more.
NoPass == [on |-> FALSE, todo |-> {}, kept |-> {}, open |-> {}, lost |-> {}]
NoJob == [pc |-> "idle", t |-> Root, pass |-> NoPass]

PCs == {"idle", "drain", "permit", "create", "attach", "release", "drop",
        "exclude", "activate", "abandon", "unwind",
        "return", "ret_permit", "ret_child", "ret_parent", "ret_lease",
        "ret_phase", "commit", "recover"}

\* The types; and a live token is always one of its lease's generation.
TypeOK ==
  /\ lease \in [Leases -> [state : States, gen : Nat,
                           parent : Leases, scope : SUBSET Files]]
  /\ xfer \in [Transfers -> [phase : PhaseSet, parent : Leases,
                             scope : SUBSET Files, child : BOOLEAN,
                             attached : BOOLEAN]]
  /\ \A p \in permits : /\ p.kind \in {"mutation", "execution"}
                        /\ p.root \subseteq Files
  /\ box \in [Transfers -> {"none", "populated", "empty"}]
  /\ \A k \in tokens : k[1] \in Leases /\ k[2] = lease[k[1]].gen
  /\ deleting \in BOOLEAN /\ closing \in BOOLEAN
  /\ job.pc \in PCs /\ job.t \in Leases
  /\ mut \in [Mutators -> [pc : {"idle", "held", "checked", "done"},
                           lease : Leases, gen : Nat,
                           target : SUBSET Files]]
  /\ crashes \in 0..MaxCrashes

\* open_root_lease: generation 1, with its token.
Init ==
  /\ lease = [l \in Leases |->
                IF l = Root THEN [state |-> "active", gen |-> 1, parent |-> Root,
                                  scope |-> Files]
                ELSE NoLease]
  /\ xfer = [t \in Transfers |-> NoTransfer]
  /\ permits = {}
  /\ deleting = FALSE
  /\ box = [t \in Transfers |-> "none"]
  /\ tokens = {<<Root, 1>>}
  /\ closing = FALSE
  /\ job = NoJob
  /\ mut = [m \in Mutators |-> NoMutation]
  /\ crashes = 0

-----------------------------------------------------------------------------
(* Transitions and authority *)

LegalTransitions ==
  {<<"active", "transferring">>, <<"active", "released">>,
   <<"transferring", "delegated">>, <<"transferring", "active">>,
   <<"delegated", "transferring">>, <<"delegated", "returning">>,
   <<"delegated", "released">>, <<"returning", "active">>,
   <<"returning", "delegated">>, <<"returning", "released">>}

can_transition_to(l, s) == <<lease[l].state, s>> \in LegalTransitions

\* Mutant: a new generation leaves the older tokens alive.
keep_tokens(l, g) == tokens' = tokens

\* cas_lease. Nobody else changes a lease while `serial` is held, so the
\* version matches; a new generation invalidates the lease's older tokens.
invalidate_older_tokens(l, g) ==
  tokens' = {k \in tokens : k[1] = l => k[2] >= g}
cas_lease(l, s, g) ==
  /\ lease' = [lease EXCEPT ![l].state = s, ![l].gen = g]
  /\ invalidate_older_tokens(l, g)

cas_transfer(t, phase) == xfer' = [xfer EXCEPT ![t].phase = phase]

parent_denied_in_subscope(t) ==
  xfer[t].phase \in {"parent_excluded", "child_activated", "child_terminal"}

exclusions(l) == {xfer[t].scope : t \in {u \in Transfers : /\ xfer[u].parent = l
                                            /\ parent_denied_in_subscope(u)}}
effective_authority(l) == lease[l].scope \ UNION exclusions(l)

admits_subscope(l, S) ==
  /\ S \subseteq lease[l].scope /\ S # lease[l].scope
  /\ \A E \in exclusions(l) : S \cap E = {}

\* lease_ancestry: the lease and its ancestors. Parents have smaller numbers.
Ancestry(l) ==
  CHOOSE A \in SUBSET Leases :
    /\ l \in A
    /\ \A k \in A : k # Root => lease[k].parent \in A
    /\ \A B \in SUBSET A :
         (l \in B /\ \A k \in B : k # Root => lease[k].parent \in B) => B = A

Execution(t) == {p \in permits : p.kind = "execution" /\ p.id = t}

\* Mutant: mutations in flight do not hold a transfer up.
blocking_executions(t) ==
  {p \in permits :
     /\ p.kind = "execution" /\ p.root \cap xfer[t].scope # {}
     /\ ~ (xfer[p.id].attached /\ xfer[p.id].child
            /\ p.id \in Ancestry(xfer[t].parent))}

\* Held permits that overlap the sub-scope, except the hand-over permits the
\* parent or an ancestor of it was created with.
blocking_permits(t) ==
  {p \in permits :
     /\ p.root \cap xfer[t].scope # {}
     /\ ~ /\ p.kind = "execution"
          /\ xfer[p.id].attached
          /\ xfer[p.id].child
          /\ p.id \in Ancestry(xfer[t].parent)}

-----------------------------------------------------------------------------
(* The job: who has `serial` *)

Free == job.pc = "idle"
JobAt(pc) == job.pc = pc
Goto(pc) == job' = [job EXCEPT !.pc = pc]

\* The call returns; in a recovery pass the loop goes on. Keep: it returns with
\* an error, or a doubt, that leaves the transfer for a later pass.
Resume(pass) == [NoJob EXCEPT !.pc = "recover", !.pass = pass]
Return == job' = IF job.pass.on THEN Resume(job.pass) ELSE NoJob
Keep == job' = IF job.pass.on
               THEN Resume([job.pass EXCEPT !.kept = @ \cup {job.t}]) ELSE NoJob

Db == "db" \in Faults

-----------------------------------------------------------------------------
(* begin_transfer *)

\* The checks, then the parent's CAS and the transfer row in one transaction.
\* The backend's capability and the inode identity are its own matter: a
\* backend that is not proven refuses here, before anything is written.
Prepare(t, l, S) ==
  /\ Free /\ ~closing /\ ~deleting
  /\ xfer[t].phase = "none" /\ \A u \in Transfers : u < t => xfer[u].phase # "none"
  /\ can_transition_to(l, "transferring")
  /\ admits_subscope(l, S)
  /\ cas_lease(l, "transferring", lease[l].gen + 1)
  /\ xfer' = [xfer EXCEPT ![t] = [NoTransfer EXCEPT !.phase = "prepared",
                                                    !.parent = l, !.scope = S]]
  /\ job' = [NoJob EXCEPT !.pc = "drain", !.t = t]
  /\ UNCHANGED <<permits, deleting, box, closing, mut, crashes>>

Drain ==
  /\ JobAt("drain")
  /\ Goto(IF blocking_permits(job.t) = {} THEN "permit" ELSE "abandon")
  /\ UNCHANGED <<durable, box, tokens, closing, mut, crashes>>

\* The execution-wide permit covers the sub-scope, or a directory above it that
\* the execution can reach.
ReservePermit ==
  /\ JobAt("permit")
  /\ \/ \E R \in Scopes \cup {xfer[job.t].scope} :
          /\ xfer[job.t].scope \subseteq R
          /\ permits' = permits \cup {[kind |-> "execution", id |-> job.t, root |-> R]}
          /\ Goto("create")
     \/ Db /\ UNCHANGED permits /\ Goto("abandon")
  /\ UNCHANGED <<lease, xfer, deleting, box, tokens, closing, mut, crashes>>

\* The containment and the process in it exist from here on.
CreateContainment ==
  /\ JobAt("create")
  /\ \/ box' = [box EXCEPT ![job.t] = "populated"] /\ Goto("attach")
     \/ "create" \in Faults /\ UNCHANGED box /\ Goto("drop")
  /\ UNCHANGED <<durable, tokens, closing, mut, crashes>>

\* Mutant: the unwinding forgets the process.
terminate_nothing(t) == UNCHANGED box

\* The errors of terminate are ignored.
terminate(t) ==
  \/ box' = [box EXCEPT ![t] = "empty"]
  \/ "terminate" \in Faults /\ UNCHANGED box

AttachOwnership ==
  /\ JobAt("attach")
  /\ \/ /\ xfer' = [xfer EXCEPT ![job.t].attached = TRUE]
        /\ Goto("release")
        /\ UNCHANGED box
     \/ Db /\ UNCHANGED xfer /\ terminate(job.t) /\ Goto("drop")
  /\ UNCHANGED <<lease, permits, deleting, tokens, closing, mut, crashes>>

\* prove_membership_and_release_user_code: a failure terminates the containment.
ReleaseUserCode ==
  /\ JobAt("release")
  /\ \/ UNCHANGED box /\ Goto("exclude")
     \/ "prove" \in Faults /\ terminate(job.t) /\ Goto("drop")
  /\ UNCHANGED <<durable, tokens, closing, mut, crashes>>

\* The execution permit goes; an error of the release is ignored.
DropPermit ==
  /\ JobAt("drop")
  /\ \/ permits' = permits \ Execution(job.t)
     \/ Db /\ UNCHANGED permits
  /\ Goto("abandon")
  /\ UNCHANGED <<lease, xfer, deleting, box, tokens, closing, mut, crashes>>

\* finish_transfer. A failure from here on abandons the transfer and leaves the
\* containment and its permit alone.
ExcludeParent ==
  /\ JobAt("exclude")
  /\ LET l == xfer[job.t].parent IN
     \/ /\ cas_transfer(job.t, "parent_excluded")
        /\ tokens' = tokens \cup {<<l, lease[l].gen>>}
        /\ Goto("activate")
     \/ "finish" \in Faults /\ Goto("abandon") /\ UNCHANGED <<xfer, tokens>>
  /\ UNCHANGED <<lease, permits, deleting, box, closing, mut, crashes>>

\* activate_write_scope_child: the child lease, the phase and the parent's move
\* to Delegated are one transaction.
ActivateChild ==
  /\ JobAt("activate")
  /\ LET t == job.t
         l == xfer[t].parent
         g == lease[l].gen + 1
     IN \/ /\ can_transition_to(l, "delegated")
           /\ lease' = [lease EXCEPT ![l].state = "delegated",
                          ![t] = [state |-> "active", gen |-> g, parent |-> l,
                                  scope |-> xfer[t].scope]]
           /\ xfer' = [xfer EXCEPT ![t].phase = "child_activated", ![t].child = TRUE]
           /\ tokens' = tokens \cup {<<t, g>>}
           /\ Return
        \/ /\ "finish" \in Faults
           /\ Goto("abandon")
           /\ UNCHANGED <<lease, xfer, tokens>>
  /\ UNCHANGED <<permits, deleting, box, closing, mut, crashes>>

\* abandon_write_scope_transfer. begin_transfer ignores its error and goes on,
\* recovery (retire_unactivated) denies the transfer.
Abandon ==
  /\ JobAt("abandon")
  /\ ~xfer[job.t].child
  /\ \/ cas_transfer(job.t, "committed") /\ Goto("unwind")
     \/ /\ "abandon" \in Faults /\ UNCHANGED xfer
        /\ IF job.pass.on THEN Keep ELSE Goto("unwind")
  /\ UNCHANGED <<lease, permits, deleting, box, tokens, closing, mut, crashes>>

\* unwind_to_active: the parent is Active again at a later generation. No token
\* is issued, and other children it may have are not looked at.
Unwind ==
  /\ JobAt("unwind")
  /\ LET l == xfer[job.t].parent IN
     \/ lease[l].state = "transferring" /\ cas_lease(l, "active", lease[l].gen + 1)
     \/ /\ lease[l].state # "transferring" \/ Db
        /\ UNCHANGED <<lease, tokens>>
  /\ Return
  /\ UNCHANGED <<xfer, permits, deleting, box, closing, mut, crashes>>

-----------------------------------------------------------------------------
(* child_terminal and complete_return *)

invalidate_all_tokens(l) == tokens' = {k \in tokens : k[1] # l}

ChildTerminal(t) ==
  /\ Free
  /\ xfer[t].phase = "child_activated"
  /\ invalidate_all_tokens(t)
  /\ \/ cas_transfer(t, "child_terminal")
     \/ Db /\ UNCHANGED xfer
  /\ UNCHANGED <<lease, permits, deleting, box, closing, job, mut, crashes>>

BeginReturn(t) ==
  /\ Free
  /\ xfer[t].phase = "child_terminal"
  /\ job' = [NoJob EXCEPT !.pc = "return", !.t = t]
  /\ UNCHANGED <<durable, box, tokens, closing, mut, crashes>>

\* Mutant: the child's own children are not looked at.
nobody_below(t) == FALSE

\* A transfer out of the returning child's scope still excludes the child.
descendant_still_delegated(t) ==
  \E u \in Transfers : xfer[u].parent = t /\ parent_denied_in_subscope(u)

\* await_proven_empty: the oracle says ProvenEmpty only of an empty containment.
\* It may always say Uncertain.
ProvenEmpty(t) == box[t] = "empty"

\* The barrier: no live descendant, ProvenEmpty, publication resolved. Otherwise
\* nothing changes; the oracle may doubt, and the publication conflict, always.
ReturnBarrier ==
  /\ JobAt("return")
  /\ \/ /\ ~descendant_still_delegated(job.t)
        /\ ProvenEmpty(job.t)
        /\ Goto("ret_permit")
     \/ descendant_still_delegated(job.t) /\ Return
     \/ ~descendant_still_delegated(job.t) /\ Keep
  /\ UNCHANGED <<durable, box, tokens, closing, mut, crashes>>

ReturnPermit ==
  /\ JobAt("ret_permit")
  /\ \/ permits' = permits \ Execution(job.t) /\ Goto("ret_child")
     \/ Db /\ Keep /\ UNCHANGED permits
  /\ UNCHANGED <<lease, xfer, deleting, box, tokens, closing, mut, crashes>>

\* A step of the return that moves a lease: an illegal transition ends the call
\* with an error and everything before it in place.
ReturnChild ==
  /\ JobAt("ret_child")
  /\ \/ /\ can_transition_to(job.t, "released")
        /\ lease' = [lease EXCEPT ![job.t].state = "released", ![job.t].gen = @ + 1]
        /\ Goto("ret_parent")
     \/ ~can_transition_to(job.t, "released") /\ Return /\ UNCHANGED lease
     \/ Db /\ Keep /\ UNCHANGED lease
  /\ invalidate_all_tokens(job.t)
  /\ UNCHANGED <<xfer, permits, deleting, box, closing, mut, crashes>>

ReturnParent ==
  /\ JobAt("ret_parent")
  /\ LET l == xfer[job.t].parent IN
     \/ /\ can_transition_to(l, "returning")
        /\ lease' = [lease EXCEPT ![l].state = "returning"]
        /\ Goto("ret_lease")
     \/ ~can_transition_to(l, "returning") /\ Return /\ UNCHANGED lease
     \/ Db /\ Keep /\ UNCHANGED lease
  /\ UNCHANGED <<xfer, permits, deleting, box, tokens, closing, mut, crashes>>

\* Mutant: the other children are forgotten.
active_again(t) == "active"

\* Delegated while a sibling's exclusion is live, Active otherwise.
restored_state(t) ==
  IF \E u \in Transfers \ {t} : /\ xfer[u].parent = xfer[t].parent
                                /\ parent_denied_in_subscope(u)
  THEN "delegated" ELSE "active"

RestoreLease ==
  /\ JobAt("ret_lease")
  /\ LET l == xfer[job.t].parent IN
     \/ /\ cas_lease(l, restored_state(job.t), lease[l].gen + 1)
        /\ Goto("ret_phase")
     \/ Db /\ Keep /\ UNCHANGED <<lease, tokens>>
  /\ UNCHANGED <<xfer, permits, deleting, box, closing, mut, crashes>>

RestorePhase ==
  /\ JobAt("ret_phase")
  /\ \/ cas_transfer(job.t, "parent_restored") /\ Goto("commit")
     \/ Db /\ Keep /\ UNCHANGED xfer
  /\ UNCHANGED <<lease, permits, deleting, box, tokens, closing, mut, crashes>>

\* The parent's new token reaches the caller of complete_return; recovery drops
\* it.
Commit ==
  /\ JobAt("commit")
  /\ \/ /\ cas_transfer(job.t, "committed")
        /\ LET l == xfer[job.t].parent IN
           tokens' = IF job.pass.on THEN tokens
                     ELSE tokens \cup {<<l, lease[l].gen>>}
        /\ Return
     \/ Db /\ Keep /\ UNCHANGED <<xfer, tokens>>
  /\ UNCHANGED <<lease, permits, deleting, box, closing, mut, crashes>>

-----------------------------------------------------------------------------
(* recover: at startup, over the open transfers. They come by the wall     *)
(* clock at their creation and then by a random id, so in any order.       *)

Open == {t \in Transfers : xfer[t].phase \notin {"none", "committed"}}

\* Mutant: a row without a ticket is taken for one that created nothing.
NothingAttached(t) == ~xfer[t].attached \/ ProvenEmpty(t)

\* A transfer that never activated a child: its containment, found by the ticket
\* or by the operation id derived from the transfer, must be gone.
MayRetire(t) == IF xfer[t].attached THEN ProvenEmpty(t)
                ELSE box[t] \in {"none", "empty"}

RecoverOne(t) ==
  /\ JobAt("recover") /\ t \in job.pass.todo
  /\ LET on(pc) == job' = [job EXCEPT !.pc = pc, !.t = t, !.pass.todo = @ \ {t}]
         keep == job' = [job EXCEPT !.pass.todo = @ \ {t},
                                    !.pass.kept = @ \cup {t}]
     IN \/ /\ xfer[t].phase \in {"prepared", "parent_excluded"}
           /\ MayRetire(t)
           /\ on(IF xfer[t].attached THEN "drop" ELSE "abandon")
           /\ UNCHANGED <<xfer, tokens>>
        \/ /\ xfer[t].phase = "child_activated"
           /\ ProvenEmpty(t)
           /\ invalidate_all_tokens(t)
           /\ cas_transfer(t, "child_terminal")
           /\ on("return")
        \/ /\ xfer[t].phase \in {"prepared", "parent_excluded", "child_activated"}
           /\ keep
           /\ UNCHANGED <<xfer, tokens>>
        \/ /\ xfer[t].phase = "child_terminal"
           /\ on("return")
           /\ UNCHANGED <<xfer, tokens>>
        \/ /\ xfer[t].phase = "parent_restored"
           /\ on("commit")
           /\ UNCHANGED <<xfer, tokens>>
  /\ UNCHANGED <<lease, permits, deleting, box, closing, mut, crashes>>

EndRecovery ==
  /\ JobAt("recover") /\ job.pass.todo = {}
  /\ job' = NoJob
  /\ UNCHANGED <<durable, box, tokens, closing, mut, crashes>>

\* History: a crash left lease l in `transferring` after its transfer was closed.
Stranded(l) == /\ lease[l].state = "transferring"
               /\ \A u \in Open : xfer[u].parent # l

\* History: a crash stopped the return of t between two of its transactions, or
\* stranded t's child.
Lost(t) == /\ xfer[t].phase \in {"child_activated", "child_terminal"}
           /\ lease[t].state = "released" \/ Stranded(t)

\* The daemon dies: memory is gone, the tables and the containments stay, and the
\* next start recovers before anything else.
Crash ==
  /\ crashes < MaxCrashes
  /\ crashes' = crashes + 1
  /\ tokens' = {}
  /\ closing' = FALSE
  /\ mut' = [m \in Mutators |-> NoMutation]
  /\ job' = [pc |-> "recover", t |-> Root,
             pass |-> [on |-> TRUE, todo |-> Open, kept |-> {}, open |-> Open,
                       lost |-> {t \in Open : Lost(t)}]]
  /\ UNCHANGED <<durable, box>>

\* The last process of a containment exits.
Exit(t) ==
  /\ box[t] = "populated"
  /\ box' = [box EXCEPT ![t] = "empty"]
  /\ UNCHANGED <<durable, tokens, closing, job, mut, crashes>>

BeginDeletion ==
  /\ Free /\ ~deleting
  /\ deleting' = TRUE
  /\ UNCHANGED <<lease, xfer, permits, box, tokens, closing, job, mut, crashes>>

BeginShutdown ==
  /\ Free /\ ~closing
  /\ closing' = TRUE
  /\ UNCHANGED <<durable, box, tokens, job, mut, crashes>>

\* deletion_blockers and assert_shutdown_clean: live delegated leases and held
\* permits. The root lease does not count.
NothingBlocks ==
  /\ \A l \in Transfers : lease[l].state \in {"none", "released"}
  /\ permits = {}

-----------------------------------------------------------------------------
(* Mutation permits *)

\* validate_token: alive, and of the lease's generation.
validate_token(l, g) == <<l, g>> \in tokens /\ lease[l].gen = g

\* Below the base and not below an exclusion. A directory above an exclusion is
\* not below it, and is allowed.
allows_path(l, T) ==
  /\ T \subseteq lease[l].scope
  /\ \A E \in exclusions(l) : ~(T \subseteq E)

\* Two mutations of one target always conflict. Whether two that overlap otherwise
\* do depends on what kind of mutation they are, which is left out: they may both
\* be let in.
conflicts(T) == {p \in permits : p.kind = "mutation" /\ p.root = T}

\* A path that resolves to something else after the permit is stored ends the call,
\* and may leave the permit behind: as Revalidate and a failing ReleasePermit do.
AcquirePermit(m, l, T) ==
  /\ Free /\ mut[m].pc = "idle"
  /\ validate_token(l, lease[l].gen)
  /\ allows_path(l, T)
  /\ conflicts(T) = {}
  /\ permits' = permits \cup {[kind |-> "mutation", id |-> m, root |-> T]}
  /\ mut' = [mut EXCEPT ![m] = [pc |-> "held", lease |-> l, gen |-> lease[l].gen,
                                target |-> T]]
  /\ UNCHANGED <<lease, xfer, deleting, box, tokens, closing, job, crashes>>

\* revalidate_mutation_permit, without `serial`: the mutation goes ahead, or it
\* is refused and the permit is given back. The token and the authority are read
\* one after the other; the held permit keeps the transfer that could come in
\* between at its drain.
Revalidate(m) ==
  /\ mut[m].pc = "held"
  /\ \/ /\ validate_token(mut[m].lease, mut[m].gen)
        /\ allows_path(mut[m].lease, mut[m].target)
        /\ mut' = [mut EXCEPT ![m].pc = "checked"]
     \/ mut' = [mut EXCEPT ![m].pc = "done"]
  /\ UNCHANGED <<durable, box, tokens, closing, job, crashes>>

\* The file is changed.
Mutate(m) ==
  /\ mut[m].pc = "checked"
  /\ mut' = [mut EXCEPT ![m].pc = "done"]
  /\ UNCHANGED <<durable, box, tokens, closing, job, crashes>>

\* release_mutation_permit. If it fails, the permit stays and blocks.
ReleasePermit(m) ==
  /\ mut[m].pc = "done"
  /\ \/ permits' = permits \ {[kind |-> "mutation", id |-> m, root |-> mut[m].target]}
     \/ Db /\ UNCHANGED permits
  /\ mut' = [mut EXCEPT ![m] = NoMutation]
  /\ UNCHANGED <<lease, xfer, deleting, box, tokens, closing, job, crashes>>

-----------------------------------------------------------------------------
TransferStep ==
  \/ Drain \/ ReservePermit \/ CreateContainment \/ AttachOwnership
  \/ ReleaseUserCode \/ DropPermit \/ ExcludeParent \/ ActivateChild
  \/ Abandon \/ Unwind

ReturnStep ==
  \/ ReturnBarrier \/ ReturnPermit \/ ReturnChild \/ ReturnParent
  \/ RestoreLease \/ RestorePhase \/ Commit

Next ==
  \/ \E t \in Transfers, l \in Leases, S \in Scopes : Prepare(t, l, S)
  \/ TransferStep
  \/ \E t \in Transfers : ChildTerminal(t) \/ BeginReturn(t) \/ Exit(t)
  \/ ReturnStep
  \/ (\E t \in Transfers : RecoverOne(t)) \/ EndRecovery \/ Crash
  \/ BeginDeletion \/ BeginShutdown
  \/ \E m \in Mutators :
       \/ \E l \in Leases, T \in Targets : AcquirePermit(m, l, T)
       \/ Revalidate(m) \/ Mutate(m) \/ ReleasePermit(m)

Spec == Init /\ [][Next]_vars

-----------------------------------------------------------------------------
(* Properties *)

Live(l) == lease[l].state \notin {"none", "released"}
Populated(t) == box[t] = "populated"

\* The claim of the durable tests, "effective authorities are pairwise disjoint":
\* whatever a crash interrupted and however a transfer was unwound or returned, no
\* file is in the effective authority of two live leases.
OneOwner ==
  \A l, k \in Leases : (l # k /\ Live(l) /\ Live(k))
     => effective_authority(l) \cap effective_authority(k) = {}

\* The drain barrier and the token generations together: a mutation that passed
\* its last check never touches a file below a directory whose containment is
\* populated, unless it is that child's own or a descendant's; the containment is
\* populated before its parent is excluded. A mutation of a directory above the
\* delegated one is not refused, and is not covered.
MutationStaysHome ==
  \A m \in Mutators, t \in Transfers :
    (/\ mut[m].pc = "checked" /\ Populated(t)
     /\ t \notin Ancestry(mut[m].lease)
     /\ ~(xfer[t].scope \subseteq mut[m].target) \/ xfer[t].scope = mut[m].target)
    => mut[m].target \cap xfer[t].scope = {}

\* What a lease counts as able to act on: nothing while it is transferring or
\* returning. A token issued before the return is still good in Returning, so a
\* lease that goes back to Active there is taken to gain what it may have kept.
Usable(l) == IF lease[l].state \in {"active", "delegated"}
             THEN effective_authority(l) ELSE {}

\* "otherwise recovery retires the transfer and hands the parent back authority
\* the child is still using" (coordinator.rs): a lease gains a file only while no
\* containment outside its own line of ancestors is populated there.
GainsQuietFiles ==
  [][\A l \in Leases, t \in Transfers :
       (Populated(t) /\ t \notin Ancestry(l)')
       => (Usable(l)' \ Usable(l)) \cap xfer[t].scope = {}]_vars

\* Deletion and shutdown look at leases and permits only: with none left to block
\* them and no call under way, no containment has anything in it.
CleanMeansQuiet ==
  (Free /\ NothingBlocks) => \A t \in Transfers : ~Populated(t)

\* A transfer beside t never got a child, so their parent is Transferring or was
\* unwound to Active, or its return was lost: the parent cannot go to Returning.
SpoiltBeside(t) ==
  \E u \in Transfers \ {t} :
    /\ xfer[u].parent = xfer[t].parent
    /\ \/ xfer[u].phase # "none" /\ ~xfer[u].child
       \/ Lost(u)

\* "recovery must *do* this, not merely report it" (coordinator.rs): a recovery
\* pass closes every transfer it finds open. The exceptions are the ones whose
\* containment or publication is in doubt, those with an open transfer below
\* them, and what earlier crashes and unwound siblings made impossible.
RecoveryCloses ==
  [][(JobAt("recover") /\ Free')
       => \A t \in job.pass.open \ (job.pass.kept \cup job.pass.lost) :
            \/ xfer[t].phase = "committed"
            \/ \E u \in job.pass.open : xfer[u].parent = t
            \/ SpoiltBeside(t)]_vars
=============================================================================
