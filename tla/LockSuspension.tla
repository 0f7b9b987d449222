---------------------------- MODULE LockSuspension ----------------------------
(***************************************************************************)
(* FileLocks together with the operations that move whole sets of holds    *)
(* (locks/suspension.rs): an agent that leaves the active slot and a       *)
(* session whose last client detaches give up their holds and may take     *)
(* them back, a primary swap hands one agent's holds to another, and the   *)
(* end of a session drops them all. Each of them reads or writes the       *)
(* database first and the mutex-protected memory afterwards, so every      *)
(* other task may run in between.                                          *)
(*                                                                         *)
(* A scope is the set of owners one call names: {agent} for suspend_agent  *)
(* and resume_agent, the agents of a session for the session calls. The    *)
(* hash of a file is not kept: whether it still matches is a free choice.  *)
(***************************************************************************)
EXTENDS FileLocks

CONSTANTS
  Scopes,    \* sets of owners suspended, resumed or ended together
  Swaps      \* <<from, to>>: primary swaps of two owners of one session

VARIABLES
  job,       \* scope -> the suspension call under way for it
  parked,    \* `suspended` and `session_released`: scope -> snapshot or None
  swap       \* the transfer_agent_locks call under way

svars == <<vars, job, parked, swap>>

NoJob == [pc |-> "none", all |-> {}, left |-> {}]
NoSwap == [pc |-> "none", from |-> None, to |-> None, paths |-> {}]

PathsOf(S) == {e[1] : e \in S}
HoldsOf(g) == {<<p, held[p]>> : p \in {q \in Paths : held[q] \in g}}

SInit ==
  /\ Init
  /\ job = [g \in Scopes |-> NoJob]
  /\ parked = [g \in Scopes |-> None]
  /\ swap = NoSwap

\* The driver runs a session's agents one at a time and suspends, resumes and
\* swaps between their calls: an owner in such a call, or parked, makes none.
Active(o) ==
  /\ \A g \in Scopes : o \in g => job[g].pc = "none" /\ parked[g] = None
  /\ o \notin {swap.from, swap.to}

\* No owner of the scope is in a tool call, another suspension call or a swap.
Between(g) ==
  /\ \A o \in g : At(o, "idle") /\ o \notin {swap.from, swap.to}
  /\ \A h \in Scopes : h \cap g # {} => job[h].pc = "none"

-----------------------------------------------------------------------------
(* suspend_agent and suspend_session *)

\* The holds are listed under the mutex and the files hashed; with no hold the
\* call returns at once.
SuspendSnapshot(g) ==
  /\ parked[g] = None /\ Between(g)
  /\ HoldsOf(g) # {}
  /\ job' = [job EXCEPT ![g] = [pc |-> "suspend", all |-> HoldsOf(g),
                                left |-> HoldsOf(g)]]
  /\ UNCHANGED <<vars, parked, swap>>

\* One lock_release per path; a failure ends the call with the holds in place.
SuspendDb(g) ==
  /\ job[g].pc = "suspend"
  /\ \E e \in job[g].left :
       \/ /\ lock_release(e[1], e[2])
          /\ job' = [job EXCEPT ![g].left = job[g].left \ {e}]
       \/ /\ DbMayFail
          /\ job' = [job EXCEPT ![g] = NoJob]
          /\ UNCHANGED rows
  /\ UNCHANGED <<memory, tasks, missed, parked, swap>>

\* Under the mutex again: every listed path leaves `held`, whoever holds it
\* now. Files that could not be hashed are not in the snapshot.
SuspendMemory(g) ==
  /\ job[g].pc = "suspend" /\ job[g].left = {}
  /\ LET gone == PathsOf(job[g].all) IN
     /\ held' = [p \in Paths |-> IF p \in gone THEN None ELSE held[p]]
     /\ idle' = idle \ gone
  /\ notified' = notify_waiters
  /\ \E hashed \in SUBSET job[g].all : parked' = [parked EXCEPT ![g] = hashed]
  /\ job' = [job EXCEPT ![g] = NoJob]
  /\ UNCHANGED <<forced, waiting, rows, tasks, missed, swap>>

-----------------------------------------------------------------------------
(* resume_agent and resume_session *)

\* The snapshot is taken; of the files that are as they were, the ones nobody
\* holds are taken back. The read records of the others are FreshReads' matter.
ResumeMemory(g) ==
  /\ parked[g] # None /\ Between(g)
  /\ parked' = [parked EXCEPT ![g] = None]
  /\ \E same \in SUBSET parked[g] :
       LET back == {e \in same : held[e[1]] = None} IN
       /\ held' = [p \in Paths |->
                     IF \E e \in back : e[1] = p
                     THEN (CHOOSE e \in back : e[1] = p)[2] ELSE held[p]]
       /\ idle' = idle \ PathsOf(back)
       /\ job' = [job EXCEPT ![g] = IF back = {} THEN NoJob
                                    ELSE [pc |-> "resume", all |-> back,
                                          left |-> back]]
  /\ UNCHANGED <<forced, waiting, notified, rows, tasks, missed, swap>>

\* One lock_acquire per path; a conflict or failure ends the call with the
\* remaining holds in memory only.
ResumeDb(g) ==
  /\ job[g].pc = "resume"
  /\ \E e \in job[g].left :
       \/ /\ RowFree(e[1], e[2]) /\ lock_acquire(e[1], e[2])
          /\ job' = [job EXCEPT ![g] = IF job[g].left = {e} THEN NoJob
                                       ELSE [job[g] EXCEPT !.left = @ \ {e}]]
       \/ /\ DbMayFail \/ ~RowFree(e[1], e[2])
          /\ job' = [job EXCEPT ![g] = NoJob]
          /\ UNCHANGED rows
  /\ UNCHANGED <<memory, tasks, missed, parked, swap>>

-----------------------------------------------------------------------------
(* end_session: no snapshot is kept, and memory is filtered by owner *)

EndDb(g) ==
  /\ Between(g)
  /\ \/ /\ rows' = [p \in Paths |-> IF rows[p] \in g THEN None ELSE rows[p]]
        /\ job' = [job EXCEPT ![g] = [NoJob EXCEPT !.pc = "end"]]
     \/ DbMayFail /\ UNCHANGED <<rows, job>>
  /\ UNCHANGED <<memory, tasks, missed, parked, swap>>

EndMemory(g) ==
  /\ job[g].pc = "end"
  /\ held' = [p \in Paths |-> IF held[p] \in g THEN None ELSE held[p]]
  /\ idle' = {p \in idle : held[p] \notin g}
  /\ notified' = IF HoldsOf(g) = {} THEN notified ELSE notify_waiters
  /\ parked' = [h \in Scopes |-> IF h \subseteq g THEN None ELSE parked[h]]
  /\ job' = [job EXCEPT ![g] = NoJob]
  /\ UNCHANGED <<forced, waiting, rows, tasks, missed, swap>>

-----------------------------------------------------------------------------
(* transfer_agent_locks *)

TransferSnapshot(s) ==
  /\ swap.pc = "none" /\ Between({s[1], s[2]})
  /\ Active(s[1]) /\ Active(s[2])
  /\ HoldsOf({s[1]}) # {}
  /\ swap' = [pc |-> "db", from |-> s[1], to |-> s[2],
              paths |-> PathsOf(HoldsOf({s[1]}))]
  /\ UNCHANGED <<vars, job, parked>>

\* lock_transfer_agent renames every row of `from`, listed or not.
TransferDb ==
  /\ swap.pc = "db"
  /\ \/ /\ rows' = [p \in Paths |-> IF rows[p] = swap.from THEN swap.to
                                    ELSE rows[p]]
        /\ swap' = [swap EXCEPT !.pc = "mem"]
     \/ DbMayFail /\ swap' = NoSwap /\ UNCHANGED rows
  /\ UNCHANGED <<memory, tasks, missed, job, parked>>

\* Only the listed paths that `from` still holds change hands.
TransferMemory ==
  /\ swap.pc = "mem"
  /\ held' = [p \in Paths |-> IF p \in swap.paths /\ held[p] = swap.from
                              THEN swap.to ELSE held[p]]
  /\ swap' = NoSwap
  /\ UNCHANGED <<idle, forced, waiting, notified, rows, tasks, missed, job, parked>>

-----------------------------------------------------------------------------
\* A step of FileLocks. A call starts only for an active owner, and the tasks
\* and snapshots of this module are lost with the process.
LockStep ==
  /\ Next
  /\ \A o \in Owners : (At(o, "idle") /\ op'[o].pc # "idle") => Active(o)
  /\ \/ UNCHANGED <<job, parked, swap>>
     \/ /\ Restart
        /\ job' = [g \in Scopes |-> NoJob]
        /\ parked' = [g \in Scopes |-> None]
        /\ swap' = NoSwap

SuspensionStep ==
  \/ \E g \in Scopes : \/ SuspendSnapshot(g) \/ SuspendDb(g) \/ SuspendMemory(g)
                       \/ ResumeMemory(g) \/ ResumeDb(g)
                       \/ EndDb(g) \/ EndMemory(g)
  \/ \E s \in Swaps : TransferSnapshot(s)
  \/ TransferDb \/ TransferMemory

SNext == LockStep \/ SuspensionStep

SSpec == SInit /\ [][SNext]_svars
=============================================================================
