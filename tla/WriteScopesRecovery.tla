------------------------ MODULE WriteScopesRecovery ------------------------
(***************************************************************************)
(* What a recovery pass leaves open: the proof of RecoveryCloses of        *)
(* WriteScopes, whatever calls fail and however often the daemon crashes.  *)
(***************************************************************************)
EXTENDS WriteScopesProofs

\* A transfer whose child was activated and has not been returned.
Handed(t) == xfer[t].phase \in {"child_activated", "child_terminal"}

\* A transfer that was begun and never got a child.
Childless(t) == xfer[t].phase # "none" /\ ~xfer[t].child

\* A transfer whose child is released, with the rest of the return to come.
HalfReturned(t) == Handed(t) /\ lease[t].state = "released"

Beside(t) == {u \in Transfers \ {t} : xfer[u].parent = xfer[t].parent}
Leaving(t) == job.t = t /\ job.pc = "ret_parent"

\* The parent of a child that can still be returned is Delegated, as complete_return
\* needs it, unless a sibling never got a child or is half returned.
Returnable(t) == Handed(t) /\ (lease[t].state # "released" \/ Leaving(t))
Ready(t) == \/ lease[xfer[t].parent].state = "delegated"
            \/ \E u \in Beside(t) : Childless(u) \/ HalfReturned(u)
ParentsReady == \A t \in Transfers : Returnable(t) => Ready(t)

\* What the call that has `serial` knows of its transfer and of the siblings.
CallKnows ==
  /\ job.pc \in {"drop", "abandon", "unwind"} => Childless(job.t)
  /\ job.pc = "ret_phase" => \A u \in Beside(job.t) :
       Denied(u) => lease[xfer[job.t].parent].state = "delegated"
  /\ job.pc = "recover" => job.pass.on /\ job.t = Root

\* In a pass: no transfer is begun, the transfer being looked at is not left to
\* look at, and what is open was open when the pass began.
Beginning == {"drain", "permit", "create", "attach", "release", "exclude", "activate"}
PassOrder == job.pass.on =>
  /\ job.pc \notin {"idle"} \cup Beginning
  /\ job.t \notin job.pass.todo
  /\ Open \subseteq job.pass.open
  /\ job.pc = "unwind" => xfer[job.t].phase = "committed"

\* A child that cannot be released was lost before the pass began, or has an open
\* transfer below it.
Waits(t) == \/ t \in job.pass.todo
            \/ job.t = t /\ job.pc \in {"return", "ret_permit", "ret_child"}
HasOpenBelow(t) == \E u \in job.pass.open : xfer[u].parent = t
LostKnown == job.pass.on => \A t \in Transfers :
  /\ Waits(t) /\ HalfReturned(t) => t \in job.pass.lost
  /\ t \in job.pass.open /\ Handed(t) /\ lease[t].state = "transferring"
       => t \in job.pass.lost \/ HasOpenBelow(t)

\* What the pass is done with and has neither kept nor found lost is closed, or
\* has one of the excuses that nothing in the pass takes away.
Returning(t) == job.t = t /\ job.pc \in {"ret_parent", "ret_lease", "ret_phase"}
Stuck(t) == HalfReturned(t) /\ ~Returning(t)
Done(t) == \/ xfer[t].phase = "committed"
           \/ HasOpenBelow(t)
           \/ \E u \in Beside(t) : Childless(u) \/ Stuck(u)
Passed(t) == t \in job.pass.open \ (job.pass.kept \cup job.pass.lost \cup job.pass.todo)
PassDone == job.pass.on => \A t \in Transfers : Passed(t) => t = job.t \/ Done(t)

PassInv == PassOrder /\ LostKnown /\ PassDone
RecoveryInv == ParentsReady /\ CallKnows /\ PassInv

-----------------------------------------------------------------------------
(* Calls and passes *)

\* The call ends; a pass goes on with what is left.
Loops == /\ job'.t = Root
         /\ job.pass.on => /\ job'.pc = "recover" /\ job'.pass.on
                           /\ job'.pass.open = job.pass.open
                           /\ job'.pass.lost = job.pass.lost
                           /\ job'.pass.todo = job.pass.todo
                           /\ job.pass.kept \subseteq job'.pass.kept
         /\ ~job.pass.on => job'.pc = "idle" /\ ~job'.pass.on

\* Return and Keep end the call; Keep leaves the transfer to a later pass.
LEMMA LoopsOn ==
  ASSUME job \in Jobs, Return \/ Keep
  PROVE  Loops /\ (Keep /\ job.pass.on => job.t \in job'.pass.kept)
<1>1. CASE Return
  <2>1. job.pass.on => job' = [pc |-> "recover", t |-> Root, pass |-> job.pass]
    BY <1>1 DEF Return, Resume, NoJob
  <2>2. ~job.pass.on => job' = NoJob
    BY <1>1 DEF Return
  <2>3. Keep /\ job.pass.on => job.t \in job'.pass.kept
    BY DEF Keep, Resume, NoJob, Jobs, Passes
  <2> QED BY <2>1, <2>2, <2>3 DEF Loops, NoJob, NoPass
<1>2. CASE Keep
  <2> DEFINE p == [job.pass EXCEPT !.kept = @ \cup {job.t}]
  <2>1. job.pass.on => job' = [pc |-> "recover", t |-> Root, pass |-> p]
    BY <1>2 DEF Keep, Resume, NoJob
  <2>2. ~job.pass.on => job' = NoJob
    BY <1>2 DEF Keep
  <2>3. /\ p.on = job.pass.on /\ p.open = job.pass.open /\ p.lost = job.pass.lost
        /\ p.todo = job.pass.todo /\ p.kept = job.pass.kept \cup {job.t}
    BY DEF Jobs, Passes
  <2> HIDE DEF p
  <2>4. CASE job.pass.on
    <3>1. job'.pc = "recover" /\ job'.t = Root /\ job'.pass = p
      BY <2>1, <2>4
    <3> QED BY <2>3, <2>4, <3>1 DEF Loops
  <2>5. CASE ~job.pass.on
    BY <2>2, <2>5 DEF Loops, NoJob, NoPass
  <2> QED BY <2>4, <2>5
<1> QED BY <1>1, <1>2

\* The columns the invariant reads of the two tables.
SameStates == \A l \in Leases : lease'[l].state = lease[l].state
SameColumns == \A u \in Transfers :
  /\ xfer'[u].phase = xfer[u].phase /\ xfer'[u].parent = xfer[u].parent
  /\ xfer'[u].child = xfer[u].child
SameParents == \A u \in Transfers : xfer'[u].parent = xfer[u].parent

\* No phase goes back, and what has no child gets none.
Forward == \A u \in Transfers :
  /\ xfer'[u].parent = xfer[u].parent /\ xfer'[u].child = xfer[u].child
  /\ xfer[u].phase = "none" <=> xfer'[u].phase = "none"
  /\ xfer[u].phase = "committed" => xfer'[u].phase = "committed"
  /\ Handed(u)' => Handed(u)

\* The pass, apart from the transfer it is at.
PassGoesOn ==
  /\ job.pass.on
  /\ job'.pass.open = job.pass.open /\ job'.pass.lost = job.pass.lost
  /\ job'.pass.todo \subseteq job.pass.todo /\ job.pass.kept \subseteq job'.pass.kept

\* Parents stay ready where leases and siblings do.
LEMMA ReadyStill ==
  ASSUME ParentsReady, SameParents, \A u \in Transfers : xfer[u].parent \in Leases,
         \A t \in Transfers : Returnable(t)' => Returnable(t),
         \A t \in Transfers : Returnable(t)' /\ lease[xfer[t].parent].state = "delegated"
                                => lease'[xfer[t].parent].state = "delegated",
         \A u \in Transfers : Childless(u) => Childless(u)',
         \A u \in Transfers : HalfReturned(u) => HalfReturned(u)'
  PROVE  ParentsReady'
<1> SUFFICES ASSUME NEW t \in Transfers, Returnable(t)' PROVE Ready(t)'
  BY DEF ParentsReady
<1>1. Ready(t)
  BY DEF ParentsReady
<1>2. CASE lease[xfer[t].parent].state = "delegated"
  BY <1>2 DEF Ready, SameParents
<1>3. CASE \E u \in Beside(t) : Childless(u) \/ HalfReturned(u)
  BY <1>3 DEF Ready, SameParents, Beside
<1> QED BY <1>1, <1>2, <1>3 DEF Ready

\* What is known of the lost ones stays known.
LEMMA LostStill ==
  ASSUME LostKnown, job'.pass.on => PassGoesOn /\ Forward, job \in Jobs,
         job'.pass.on => \A t \in Transfers :
           Waits(t)' /\ HalfReturned(t)' => Waits(t) /\ HalfReturned(t),
         \A t \in Transfers : lease'[t].state = "transferring" => lease[t].state = "transferring"
  PROVE  LostKnown'
<1> SUFFICES ASSUME job'.pass.on, NEW t \in Transfers
             PROVE  /\ Waits(t)' /\ HalfReturned(t)' => t \in job'.pass.lost
                    /\ t \in job'.pass.open /\ Handed(t)' /\ lease'[t].state = "transferring"
                         => t \in job'.pass.lost \/ HasOpenBelow(t)'
  BY DEF LostKnown
<1>1. /\ job.pass.on /\ job'.pass.open = job.pass.open /\ job'.pass.lost = job.pass.lost
      /\ Handed(t)' => Handed(t) /\ \A u \in Transfers : xfer'[u].parent = xfer[u].parent
      /\ job.pass.open \subseteq Transfers
  BY DEF PassGoesOn, Forward, Jobs, Passes
<1>2. HasOpenBelow(t) => HasOpenBelow(t)'
  BY <1>1 DEF HasOpenBelow, Forward
<1> QED BY <1>1, <1>2 DEF LostKnown

\* What the pass is done with stays done.
LEMMA DoneStill ==
  ASSUME PassDone, job'.pass.on => PassGoesOn /\ Forward, job \in Jobs,
         \A u \in Transfers : Stuck(u) => Stuck(u)',
         job'.pass.on => \A t \in Transfers : Passed(t)' =>
           /\ t \in job.pass.todo => t = job'.t
           /\ t = job.t => t = job'.t \/ Done(t)'
  PROVE  PassDone'
<1> SUFFICES ASSUME job'.pass.on, NEW t \in Transfers, Passed(t)'
             PROVE  t = job'.t \/ Done(t)'
  BY DEF PassDone
<1>1. /\ job.pass.on /\ job'.pass.open = job.pass.open /\ job'.pass.lost = job.pass.lost
      /\ job.pass.kept \subseteq job'.pass.kept /\ job.pass.open \subseteq Transfers
  BY DEF PassGoesOn, Jobs, Passes
<1>2. CASE t \in job.pass.todo \/ t = job.t
  BY <1>2
<1>3. CASE t \notin job.pass.todo /\ t # job.t
  <2>1. Done(t)
    BY <1>1, <1>3 DEF Passed, PassDone
  <2>2. HasOpenBelow(t) => HasOpenBelow(t)'
    BY <1>1 DEF HasOpenBelow, Forward
  <2>3. \A u \in Transfers : Childless(u) => Childless(u)'
    BY DEF Childless, Forward
  <2>4. Beside(t)' = Beside(t)
    BY DEF Beside, Forward
  <2>5. xfer[t].phase = "committed" => xfer'[t].phase = "committed"
    BY DEF Forward
  <2>6. (\E u \in Beside(t) : Childless(u) \/ Stuck(u))
          => \E u \in Beside(t)' : Childless(u)' \/ Stuck(u)'
    BY <2>3, <2>4 DEF Beside
  <2> QED BY <2>1, <2>2, <2>5, <2>6 DEF Done
<1> QED BY <1>2, <1>3

-----------------------------------------------------------------------------
(* Every step keeps the invariant *)

\* A call that only goes on, or ends, and leaves the two tables alone.
LEMMA CallMoves ==
  ASSUME ScopeInv, RecoveryInv, SameStates, SameColumns, NEW t0 \in Transfers, t0 = job.t,
         \/ /\ GoesOn /\ job'.pc \notin {"ret_parent", "ret_lease", "ret_phase", "recover", "idle"}
            /\ job'.pc \in {"drop", "abandon", "unwind"} => Childless(t0)
            /\ job.pass.on => job'.pc \notin Beginning \cup {"unwind"}
            /\ job'.pc \in {"return", "ret_permit", "ret_child"} =>
                 job.pc \in {"return", "ret_permit", "ret_child"}
         \/ /\ Loops
            /\ job.pass.on => t0 \in job'.pass.kept \cup job.pass.lost \/ Done(t0)
  PROVE  RecoveryInv'
<1> USE Facts
<1>0. /\ job.pass.on \in BOOLEAN /\ job'.pc # "ret_parent"
      /\ job'.pass.on => PassGoesOn
      /\ job'.pass.on <=> job.pass.on
      /\ job.pass.todo \subseteq Transfers /\ job.pass.open \subseteq Transfers
      /\ Root \notin Transfers
  BY DEF GoesOn, Loops, PassGoesOn, Jobs, Passes, Root, Transfers
<1>1. /\ \A u \in Transfers : /\ Handed(u)' = Handed(u) /\ Childless(u)' = Childless(u)
                              /\ HalfReturned(u)' = HalfReturned(u)
                              /\ Denied(u)' = Denied(u)
      /\ Forward /\ SameParents /\ Open' = Open
  BY DEF SameColumns, SameStates, Handed, Childless, HalfReturned, Forward, SameParents, Open,
         Denied, parent_denied_in_subscope
<1>2. ParentsReady'
  <2>1. \A t \in Transfers : Returnable(t)' => Returnable(t)
    BY <1>0, <1>1 DEF Returnable, Leaving, SameStates
  <2>2. \A t \in Transfers : lease[xfer[t].parent].state = "delegated"
                               => lease'[xfer[t].parent].state = "delegated"
    BY DEF SameStates
  <2> QED BY <1>1, <2>1, <2>2, ReadyStill DEF RecoveryInv
<1>3. CallKnows'
  <2>1. job'.pc # "ret_phase"
    BY DEF GoesOn, Loops
  <2>2. job'.pc = "recover" => job'.pass.on /\ job'.t = Root
    BY DEF Loops
  <2>3. job'.pc \in {"drop", "abandon", "unwind"} => Childless(t0)' /\ job'.t = t0
    BY <1>1 DEF GoesOn, Loops
  <2> QED BY <2>1, <2>2, <2>3 DEF CallKnows
<1>4. PassOrder'
  <2> SUFFICES ASSUME job'.pass.on
               PROVE  /\ job'.pc \notin {"idle"} \cup Beginning
                      /\ job'.t \notin job'.pass.todo
                      /\ Open' \subseteq job'.pass.open
                      /\ job'.pc # "unwind"
    BY DEF PassOrder
  <2>1. job.pass.on
    BY <1>0
  <2>2. job'.pc \notin {"idle"} \cup Beginning /\ job'.pc # "unwind"
    BY <2>1 DEF GoesOn, Loops, Beginning
  <2>3. Open' \subseteq job'.pass.open
    BY <1>0, <1>1, <2>1 DEF PassGoesOn, RecoveryInv, PassInv, PassOrder
  <2>4. job'.t \notin job'.pass.todo
    <3>1. CASE GoesOn
      BY <2>1, <3>1 DEF GoesOn, RecoveryInv, PassInv, PassOrder
    <3>2. CASE Loops
      BY <1>0, <2>1, <3>2 DEF Loops
    <3> QED BY <3>1, <3>2
  <2> QED BY <2>2, <2>3, <2>4
<1>5. LostKnown'
  <2>1. \A t \in Transfers : job'.pass.on /\ Waits(t)' => Waits(t)
    BY <1>0 DEF Waits, GoesOn, Loops
  <2>2. CASE job'.pass.on
    BY <1>0, <1>1, <2>1, <2>2, LostStill DEF SameStates, RecoveryInv, PassInv
  <2>3. CASE ~job'.pass.on
    BY <2>3 DEF LostKnown
  <2> QED BY <2>2, <2>3
<1>6. PassDone'
  <2>1. CASE ~job'.pass.on
    BY <2>1 DEF PassDone
  <2>2. CASE job'.pass.on
    <3>1. \A u \in Transfers : Returning(u)' => Returning(u)
      BY <1>0 DEF Returning, GoesOn, Loops
    <3>2. \A u \in Transfers : Stuck(u) => Stuck(u)'
      BY <1>1, <3>1 DEF Stuck
    <3>3. \A t \in Transfers : Passed(t)' => t \notin job.pass.todo
      BY <1>0, <2>2 DEF Passed, GoesOn, Loops
    <3>4. ASSUME Passed(t0)', t0 # job'.t PROVE Done(t0)'
      <4>1. Loops /\ t0 \notin job'.pass.kept \cup job.pass.lost
        BY <1>0, <2>2, <3>4 DEF Passed, GoesOn, PassGoesOn
      <4>2. Done(t0)
        BY <1>0, <2>2, <3>4, <4>1 DEF Loops, GoesOn
      <4>3. /\ xfer[t0].phase = "committed" => xfer'[t0].phase = "committed"
            /\ HasOpenBelow(t0) => HasOpenBelow(t0)'
        BY <1>0, <2>2 DEF HasOpenBelow, SameColumns, PassGoesOn
      <4>4. Beside(t0)' = Beside(t0)
        BY DEF Beside, SameColumns
      <4>5. ASSUME NEW u \in Beside(t0), Childless(u) \/ Stuck(u)
            PROVE  Childless(u)' \/ Stuck(u)'
        BY <1>1, <3>2, <4>5 DEF Beside
      <4> QED BY <4>2, <4>3, <4>4, <4>5 DEF Done
    <3> QED BY <1>0, <1>1, <2>2, <3>2, <3>3, <3>4, DoneStill DEF RecoveryInv, PassInv
  <2> QED BY <2>1, <2>2
<1> QED BY <1>2, <1>3, <1>4, <1>5, <1>6 DEF RecoveryInv, PassInv

\* Outside a pass there is nothing to say about one.
LEMMA PassOff ==
  ASSUME ~job'.pass.on
  PROVE  PassInv'
BY DEF PassInv, PassOrder, LostKnown, PassDone

\* A transfer is not begun in a pass.
LEMMA NotInPass ==
  ASSUME ScopeInv, RecoveryInv, job.pc \in {"idle"} \cup Beginning
  PROVE  ~job.pass.on
BY DEF RecoveryInv, PassInv, PassOrder

\* The steps of begin_transfer up to the exclusion of the parent, the permit that
\* is dropped, and the failures of finish_transfer.
LEMMA KnownBegin ==
  ASSUME ScopeInv, RecoveryInv,
         \/ Drain \/ ReservePermit \/ CreateContainment \/ AttachOwnership
         \/ ReleaseUserCode \/ DropPermit
         \/ ExcludeParent /\ Goto("abandon") /\ UNCHANGED <<xfer, tokens>>
         \/ ActivateChild /\ Goto("abandon") /\ UNCHANGED <<lease, xfer, tokens>>
  PROVE  RecoveryInv'
<1> USE Facts
<1>a. PICK t \in Transfers : t = job.t
  BY DEF Drain, ReservePermit, CreateContainment, AttachOwnership, ReleaseUserCode, DropPermit,
         ExcludeParent, ActivateChild, JobAt
<1>0. /\ job.pc \in Beginning \cup {"drop"}
      /\ job.pc \in Beginning => xfer[t].phase \in {"prepared", "parent_excluded"}
  BY <1>a DEF Drain, ReservePermit, CreateContainment, AttachOwnership, ReleaseUserCode, DropPermit,
         ExcludeParent, ActivateChild, JobAt, Beginning, ScopeInv, JobOrder
<1>1. Childless(t)
  <2>1. CASE job.pc \in Beginning
    BY <1>0, <2>1 DEF TreeInv, RowsMatch, Row, Childless
  <2>2. CASE job.pc = "drop"
    BY <1>a, <2>2 DEF RecoveryInv, CallKnows
  <2> QED BY <1>0, <2>1, <2>2
<1>2. SameStates
  BY DEF Drain, ReservePermit, CreateContainment, AttachOwnership, ReleaseUserCode, DropPermit,
         ExcludeParent, ActivateChild, durable, SameStates
<1>3. SameColumns
  <2>1. CASE AttachOwnership
    <3>1. \/ xfer' = xfer \/ xfer' = [xfer EXCEPT ![t].attached = TRUE]
      BY <1>a, <2>1 DEF AttachOwnership
    <3> QED BY <3>1 DEF SameColumns, Tables, TransferRecords
  <2>2. CASE xfer' = xfer
    BY <2>2 DEF SameColumns
  <2> QED BY <2>1, <2>2 DEF Drain, ReservePermit, CreateContainment, ReleaseUserCode, DropPermit,
         ExcludeParent, ActivateChild, durable
<1>4. \E pc \in {"permit", "abandon", "create", "attach", "drop", "release", "exclude"} :
        Goto(pc) /\ (job.pc = "drop" => pc = "abandon")
  BY DEF Drain, ReservePermit, CreateContainment, AttachOwnership, ReleaseUserCode, DropPermit,
         ExcludeParent, ActivateChild, JobAt
<1>5. PICK pc \in {"permit", "abandon", "create", "attach", "drop", "release", "exclude"} :
        Goto(pc) /\ (job.pc = "drop" => pc = "abandon")
  BY <1>4
<1>6. GoesOn /\ job'.pc = pc
  BY <1>5, GotoJob DEF PCs
<1>7. job.pass.on => job'.pc = "abandon"
  BY <1>0, <1>5, <1>6, NotInPass
<1> QED BY <1>a, <1>1, <1>2, <1>3, <1>6, <1>7, CallMoves DEF Beginning

\* The parent is excluded.
LEMMA KnownExclude ==
  ASSUME ScopeInv, RecoveryInv, ExcludeParent
  PROVE  RecoveryInv'
<1> USE Facts
<1>a. PICK t \in Transfers : t = job.t
  BY DEF ExcludeParent, JobAt
<1>0. xfer[t].phase = "prepared" /\ ~job.pass.on
  BY <1>a, NotInPass DEF ExcludeParent, JobAt, ScopeInv, JobOrder, Beginning
<1>1. CASE cas_transfer(t, "parent_excluded") /\ Goto("activate")
  <2>1. /\ xfer'[t].phase = "parent_excluded" /\ xfer'[t].parent = xfer[t].parent
        /\ xfer'[t].child = xfer[t].child
        /\ \A u \in Transfers \ {t} : xfer'[u] = xfer[u]
    BY <1>1, PhaseUpdate, PhaseSetIs DEF Tables
  <2>2. GoesOn /\ job'.pc = "activate" /\ lease' = lease
    BY <1>1, GotoJob DEF PCs, ExcludeParent
  <2>3. ParentsReady'
    <3>1. \A u \in Transfers : /\ Handed(u)' = Handed(u) /\ Childless(u)' = Childless(u)
                               /\ HalfReturned(u)' = HalfReturned(u)
      BY <1>0, <2>1, <2>2 DEF Handed, Childless, HalfReturned
    <3>2. \A u \in Transfers : Returnable(u)' => Returnable(u)
      BY <2>2, <3>1 DEF Returnable, Leaving
    <3>3. SameParents
      BY <2>1 DEF SameParents
    <3> QED BY <2>2, <3>1, <3>2, <3>3, ReadyStill DEF RecoveryInv
  <2>4. CallKnows'
    BY <2>2 DEF CallKnows
  <2> QED BY <1>0, <2>2, <2>3, <2>4, PassOff DEF RecoveryInv, GoesOn
<1>2. CASE Goto("abandon") /\ UNCHANGED <<xfer, tokens>>
  BY <1>2, KnownBegin
<1> QED BY <1>a, <1>1, <1>2 DEF ExcludeParent

\* A transfer is begun: the parent is transferring, and the new transfer has no
\* child.
LEMMA KnownPrepare ==
  ASSUME ScopeInv, RecoveryInv, NEW t \in Transfers, NEW l \in Leases, NEW S \in Scopes,
         Prepare(t, l, S)
  PROVE  RecoveryInv'
<1> USE Facts
<1>1. /\ lease'[l].state = "transferring" /\ \A k \in Leases \ {l} : lease'[k] = lease[k]
      /\ lease[l].state \in {"active", "delegated"}
  BY CasLease DEF Prepare, States, can_transition_to, LegalTransitions
<1>2. /\ xfer'[t].phase = "prepared" /\ xfer'[t].parent = l /\ xfer'[t].child = FALSE
      /\ \A u \in Transfers \ {t} : xfer'[u] = xfer[u]
      /\ xfer[t].phase = "none"
  BY DEF Prepare, NoTransfer, Tables
<1>3. job'.pc = "drain" /\ ~job'.pass.on
  BY DEF Prepare, NoJob, NoPass
<1>4. ParentsReady'
  <2> SUFFICES ASSUME NEW v \in Transfers, Returnable(v)' PROVE Ready(v)'
    BY DEF ParentsReady
  <2>1. v # t /\ xfer'[v] = xfer[v] /\ Handed(v)
    BY <1>2 DEF Returnable, Handed
  <2>2. Childless(t)'
    BY <1>2 DEF Childless
  <2>3. CASE xfer[v].parent = l
    BY <1>2, <2>1, <2>2, <2>3 DEF Ready, Beside
  <2>4. CASE xfer[v].parent # l
    <3>1. Returnable(v)
      BY <1>1, <1>3, <2>1 DEF Returnable, Leaving
    <3>2. CASE lease[xfer[v].parent].state = "delegated"
      BY <1>1, <2>1, <2>4, <3>2 DEF Ready
    <3>3. ASSUME NEW u \in Beside(v), Childless(u) \/ HalfReturned(u) PROVE Ready(v)'
      <4>1. u \in Transfers \ {t, v} /\ xfer'[u] = xfer[u] /\ u \in Leases
        BY <1>2, <3>3 DEF Beside, Childless, HalfReturned, Handed
      <4>2. lease'[u].state = "released" <=> lease[u].state = "released"
        BY <1>1, <4>1
      <4> QED BY <2>1, <3>3, <4>1, <4>2 DEF Ready, Beside, Childless, HalfReturned, Handed
    <3> QED BY <3>1, <3>2, <3>3 DEF RecoveryInv, ParentsReady, Ready
  <2> QED BY <2>3, <2>4
<1>5. CallKnows'
  BY <1>3 DEF CallKnows
<1> QED BY <1>3, <1>4, <1>5, PassOff DEF RecoveryInv

\* The child is activated and the parent Delegated.
LEMMA KnownActivate ==
  ASSUME ScopeInv, RecoveryInv, ActivateChild
  PROVE  RecoveryInv'
<1> USE Facts
<1>a. PICK t \in Transfers : t = job.t
  BY DEF ActivateChild, JobAt
<1>b. PICK l \in Leases : l = xfer[t].parent
  OBVIOUS
<1>0. /\ xfer[t].phase = "parent_excluded" /\ ~job.pass.on /\ lease[t].state = "none"
      /\ lease[l].state = "transferring" /\ l # t /\ t \in Leases
  BY <1>a, <1>b, NotInPass
     DEF ActivateChild, JobAt, ScopeInv, JobOrder, Beginning, TreeInv, RowsMatch, Row, Exists
<1>1. CASE /\ lease' = [lease EXCEPT ![l].state = "delegated",
                          ![t] = [state |-> "active", gen |-> lease[l].gen + 1, parent |-> l,
                                  scope |-> xfer[t].scope]]
           /\ xfer' = [xfer EXCEPT ![t].phase = "child_activated", ![t].child = TRUE]
           /\ Return
  <2>1. /\ lease'[l].state = "delegated" /\ lease'[t].state = "active"
        /\ \A k \in Leases \ {l, t} : lease'[k] = lease[k]
    BY <1>0, <1>1 DEF Tables, LeaseRecords
  <2>2. /\ xfer'[t].phase = "child_activated" /\ xfer'[t].parent = l
        /\ \A u \in Transfers \ {t} : xfer'[u] = xfer[u]
    BY <1>b, <1>1 DEF Tables, TransferRecords
  <2>3. job'.pc = "idle" /\ ~job'.pass.on
    BY <1>0, <1>1, LoopsOn DEF Loops
  <2>4. ParentsReady'
    <3> SUFFICES ASSUME NEW v \in Transfers, Returnable(v)' PROVE Ready(v)'
      BY DEF ParentsReady
    <3>1. CASE xfer'[v].parent = l
      BY <2>1, <3>1 DEF Ready
    <3>2. CASE xfer'[v].parent # l
      <4>1. v # t /\ xfer'[v] = xfer[v] /\ xfer[v].parent # t
        <5>1. v # t /\ xfer'[v] = xfer[v]
          BY <2>2, <3>2
        <5>2. xfer[v].phase # "none"
          BY <5>1 DEF Returnable, Handed
        <5> QED BY <1>0, <5>1, <5>2 DEF TreeInv, ScopesNest, Exists
      <4>2. Returnable(v)
        <5>1. lease'[v].state = "released" <=> lease[v].state = "released"
          BY <1>0, <2>1, <4>1
        <5> QED BY <2>3, <4>1, <5>1 DEF Returnable, Handed, Leaving
      <4>3. CASE lease[xfer[v].parent].state = "delegated"
        BY <2>1, <3>2, <4>1, <4>3 DEF Ready
      <4>4. ASSUME NEW u \in Beside(v), Childless(u) \/ HalfReturned(u) PROVE Ready(v)'
        <5>1. u \in Transfers \ {t, v} /\ xfer'[u] = xfer[u] /\ u \in Leases
          BY <1>b, <2>2, <3>2, <4>1 DEF Beside
        <5>2. lease[u].state = "released" => lease'[u].state = "released"
          BY <1>0, <2>1, <5>1
        <5> QED BY <4>1, <4>4, <5>1, <5>2 DEF Ready, Beside, Childless, HalfReturned, Handed
      <4> QED BY <4>2, <4>3, <4>4 DEF RecoveryInv, ParentsReady, Ready
    <3> QED BY <3>1, <3>2
  <2>5. CallKnows'
    BY <2>3 DEF CallKnows
  <2> QED BY <2>3, <2>4, <2>5, PassOff DEF RecoveryInv
<1>2. CASE Goto("abandon") /\ UNCHANGED <<lease, xfer, tokens>>
  BY <1>2, KnownBegin
<1> QED BY <1>a, <1>b, <1>1, <1>2 DEF ActivateChild

\* A step of a call that moves its transfer on or its leases, as a pass sees it.
LEMMA PassMoves ==
  ASSUME ScopeInv, RecoveryInv, Forward, NEW t0 \in Transfers, t0 = job.t,
         \A u \in Transfers : lease'[u].state = "transferring" => lease[u].state = "transferring",
         job'.pass.on => \A u \in Transfers :
           Waits(u)' /\ HalfReturned(u)' => Waits(u) /\ HalfReturned(u),
         \A u \in Transfers : Stuck(u) => Stuck(u)',
         \/ /\ GoesOn /\ job'.pc \notin {"idle"} \cup Beginning
            /\ job'.pc = "unwind" => xfer'[t0].phase = "committed"
         \/ Loops /\ (job.pass.on => Done(t0)')
  PROVE  PassInv'
<1> USE Facts
<1>0. /\ job.pass.on \in BOOLEAN
      /\ job'.pass.on => PassGoesOn
      /\ job'.pass.on <=> job.pass.on
      /\ job.pass.todo \subseteq Transfers /\ job.pass.open \subseteq Transfers
      /\ job'.pass.todo = job.pass.todo \/ ~job'.pass.on
      /\ Root \notin Transfers
  BY DEF GoesOn, Loops, PassGoesOn, Jobs, Passes, Root, Transfers
<1>1. PassOrder'
  <2> SUFFICES ASSUME job'.pass.on
               PROVE  /\ job'.pc \notin {"idle"} \cup Beginning
                      /\ job'.t \notin job'.pass.todo
                      /\ Open' \subseteq job'.pass.open
                      /\ job'.pc = "unwind" => xfer'[job'.t].phase = "committed"
    BY DEF PassOrder
  <2>1. Open' \subseteq Open
    BY DEF Open, Forward
  <2>2. Open' \subseteq job'.pass.open
    BY <1>0, <2>1 DEF PassGoesOn, RecoveryInv, PassInv, PassOrder
  <2>3. CASE GoesOn
    BY <1>0, <2>2, <2>3 DEF GoesOn, Loops, Beginning, RecoveryInv, PassInv, PassOrder
  <2>4. CASE Loops
    BY <1>0, <2>2, <2>4 DEF Loops, Beginning
  <2> QED BY <2>3, <2>4
<1>2. LostKnown'
  BY <1>0, LostStill DEF RecoveryInv, PassInv
<1>3. PassDone'
  <2>1. job'.pass.on => \A t \in Transfers : Passed(t)' =>
           /\ t \in job.pass.todo => t = job'.t
           /\ t = job.t => t = job'.t \/ Done(t)'
    <3>1. \A t \in Transfers : job'.pass.on /\ Passed(t)' => t \notin job.pass.todo
      BY <1>0 DEF Passed
    <3>2. job'.pass.on => t0 = job'.t \/ Done(t0)'
      BY <1>0 DEF GoesOn
    <3> QED BY <3>1, <3>2
  <2> QED BY <1>0, <2>1, DoneStill DEF RecoveryInv, PassInv
<1> QED BY <1>1, <1>2, <1>3 DEF PassInv

\* A transfer without a child is closed, or the pass keeps it.
LEMMA KnownAbandon ==
  ASSUME ScopeInv, RecoveryInv, Abandon
  PROVE  RecoveryInv'
<1> USE Facts
<1>a. PICK t \in Transfers : t = job.t
  BY DEF Abandon, JobAt
<1>0. Childless(t) /\ job.pc = "abandon" /\ lease' = lease /\ ~Handed(t)
  BY <1>a DEF Abandon, JobAt, RecoveryInv, CallKnows, TreeInv, RowsMatch, Row, Childless, Handed
<1>1. CASE cas_transfer(t, "committed") /\ Goto("unwind")
  <2>1. /\ xfer'[t].phase = "committed" /\ xfer'[t].parent = xfer[t].parent
        /\ xfer'[t].child = xfer[t].child
        /\ \A u \in Transfers \ {t} : xfer'[u] = xfer[u]
    BY <1>1, PhaseUpdate, PhaseSetIs DEF Tables
  <2>2. GoesOn /\ job'.pc = "unwind"
    BY <1>1, GotoJob DEF PCs
  <2>3. \A u \in Transfers : /\ Handed(u)' = Handed(u) /\ Childless(u)' = Childless(u)
                             /\ HalfReturned(u)' = HalfReturned(u)
    BY <1>0, <2>1 DEF Handed, Childless, HalfReturned
  <2>4. Forward /\ SameParents
    BY <1>0, <2>1, <2>3 DEF Forward, SameParents, Childless
  <2>5. ParentsReady'
    <3>1. \A u \in Transfers : Returnable(u)' => Returnable(u)
      BY <1>0, <2>2, <2>3 DEF Returnable, Leaving
    <3> QED BY <1>0, <2>3, <2>4, <3>1, ReadyStill DEF RecoveryInv
  <2>6. CallKnows'
    BY <1>a, <1>0, <2>2, <2>3 DEF CallKnows, GoesOn
  <2>7. \A u \in Transfers : Waits(u)' => Waits(u)
    BY <1>0, <2>2 DEF Waits, GoesOn
  <2>8. \A u \in Transfers : Stuck(u) => Stuck(u)'
    BY <1>0, <2>2, <2>3 DEF Stuck, Returning
  <2>9. PassInv'
    <3>1. job'.pc \notin {"idle"} \cup Beginning
      BY <2>2 DEF Beginning
    <3> QED BY <1>a, <1>0, <2>1, <2>2, <2>3, <2>4, <2>7, <2>8, <3>1, PassMoves
  <2> QED BY <2>5, <2>6, <2>9 DEF RecoveryInv
<1>2. CASE UNCHANGED xfer /\ ~job.pass.on /\ Goto("unwind")
  <2>1. GoesOn /\ job'.pc = "unwind" /\ SameStates /\ SameColumns
    BY <1>0, <1>2, GotoJob DEF PCs, SameStates, SameColumns
  <2> QED BY <1>a, <1>0, <1>2, <2>1, CallMoves
<1>3. CASE UNCHANGED xfer /\ job.pass.on /\ Keep
  <2>1. SameStates /\ SameColumns /\ Loops /\ t \in job'.pass.kept
    BY <1>a, <1>0, <1>3, LoopsOn DEF SameStates, SameColumns
  <2> QED BY <1>a, <2>1, CallMoves
<1> QED BY <1>a, <1>1, <1>2, <1>3 DEF Abandon

\* The parent is active again: the transfer that is unwound never got a child.
LEMMA KnownUnwind ==
  ASSUME ScopeInv, RecoveryInv, Unwind
  PROVE  RecoveryInv'
<1> USE Facts
<1>a. PICK t \in Transfers : t = job.t
  BY DEF Unwind, JobAt
<1>b. PICK l \in Leases : l = xfer[t].parent
  OBVIOUS
<1>0. /\ Childless(t) /\ job.pc = "unwind" /\ xfer' = xfer /\ Loops
      /\ job.pass.on => xfer[t].phase = "committed"
  BY <1>a, LoopsOn DEF Unwind, JobAt, RecoveryInv, CallKnows, PassInv, PassOrder
<1>1. CASE lease[l].state = "transferring" /\ cas_lease(l, "active", lease[l].gen + 1)
  <2>1. /\ lease'[l].state = "active" /\ \A k \in Leases \ {l} : lease'[k] = lease[k]
    BY <1>1, CasLease DEF States
  <2>2. \A u \in Transfers : /\ Handed(u)' = Handed(u) /\ Childless(u)' = Childless(u)
                             /\ (lease'[u].state = "released" <=> lease[u].state = "released")
                             /\ HalfReturned(u)' = HalfReturned(u)
    BY <1>0, <1>1, <2>1 DEF Handed, Childless, HalfReturned
  <2>3. Forward /\ SameParents /\ job'.pc \in {"idle", "recover"}
    BY <1>0, <2>2 DEF Forward, SameParents, Loops
  <2>4. ParentsReady'
    <3>1. \A u \in Transfers : Returnable(u)' => Returnable(u)
      BY <1>0, <2>2, <2>3 DEF Returnable, Leaving
    <3>2. \A v \in Transfers : lease[xfer[v].parent].state = "delegated"
                                 => lease'[xfer[v].parent].state = "delegated"
      BY <1>1, <2>1
    <3> QED BY <2>2, <2>3, <3>1, <3>2, ReadyStill DEF RecoveryInv
  <2>5. CallKnows'
    BY <1>0, <2>3 DEF CallKnows, Loops
  <2>6. \A u \in Transfers : job'.pass.on /\ Waits(u)' => Waits(u)
    BY <1>0, <2>3 DEF Waits, Loops
  <2>7. \A u \in Transfers : Stuck(u) => Stuck(u)'
    BY <1>0, <2>2, <2>3 DEF Stuck, Returning
  <2>8. PassInv'
    <3>1. CASE job.pass.on
      <4>1. Done(t)' /\ job'.pass.on
        BY <1>0, <3>1 DEF Done, Loops
      <4>2. \A u \in Transfers : lease'[u].state = "transferring"
                                   => lease[u].state = "transferring"
        BY <1>1, <2>1
      <4> QED BY <1>a, <1>0, <2>2, <2>3, <2>6, <2>7, <4>1, <4>2, PassMoves
    <3>2. CASE ~job.pass.on
      BY <1>0, <3>2, PassOff DEF Loops
    <3> QED BY <3>1, <3>2
  <2> QED BY <2>4, <2>5, <2>8 DEF RecoveryInv
<1>2. CASE UNCHANGED <<lease, tokens>>
  <2>1. SameStates /\ SameColumns
    BY <1>0, <1>2 DEF SameStates, SameColumns
  <2>2. job.pass.on => Done(t)
    BY <1>0 DEF Done
  <2> QED BY <1>a, <1>0, <2>1, <2>2, CallMoves
<1> QED BY <1>a, <1>b, <1>1, <1>2 DEF Unwind

\* The child's end is recorded, outside a pass, or a return begins.
LEMMA KnownTerminal ==
  ASSUME ScopeInv, RecoveryInv, NEW t \in Transfers, ChildTerminal(t) \/ BeginReturn(t)
  PROVE  RecoveryInv'
<1> USE Facts
<1>0. /\ ~job.pass.on /\ job.pc = "idle" /\ lease' = lease
      /\ xfer[t].phase \in {"child_activated", "child_terminal"}
  BY NotInPass DEF ChildTerminal, BeginReturn, Free, durable
<1>1. job'.pc \in {"idle", "return"} /\ ~job'.pass.on
  <2>1. CASE ChildTerminal(t)
    BY <1>0, <2>1 DEF ChildTerminal
  <2>2. CASE BeginReturn(t)
    BY <2>2 DEF BeginReturn, NoJob, NoPass
  <2> QED BY <2>1, <2>2
<1>2. \A u \in Transfers : /\ Handed(u)' = Handed(u) /\ Childless(u)' = Childless(u)
                           /\ HalfReturned(u)' = HalfReturned(u)
                           /\ xfer'[u].parent = xfer[u].parent
  <2>1. CASE xfer' = xfer
    BY <1>0, <2>1 DEF Handed, Childless, HalfReturned
  <2>2. CASE cas_transfer(t, "child_terminal")
    <3>1. /\ xfer'[t].phase = "child_terminal" /\ xfer'[t].parent = xfer[t].parent
          /\ xfer'[t].child = xfer[t].child
          /\ \A u \in Transfers \ {t} : xfer'[u] = xfer[u]
      BY <2>2, PhaseUpdate, PhaseSetIs DEF Tables
    <3> QED BY <1>0, <3>1 DEF Handed, Childless, HalfReturned
  <2> QED BY <2>1, <2>2 DEF ChildTerminal, BeginReturn, durable
<1>3. ParentsReady'
  <2>1. \A u \in Transfers : Returnable(u)' => Returnable(u)
    BY <1>0, <1>1, <1>2 DEF Returnable, Leaving
  <2>2. SameParents
    BY <1>2 DEF SameParents
  <2> QED BY <1>0, <1>2, <2>1, <2>2, ReadyStill DEF RecoveryInv
<1>4. CallKnows'
  BY <1>1 DEF CallKnows
<1> QED BY <1>1, <1>3, <1>4, PassOff DEF RecoveryInv

\* The barrier of the return, and the permit.
LEMMA KnownBarrier ==
  ASSUME ScopeInv, RecoveryInv, ReturnBarrier \/ ReturnPermit
  PROVE  RecoveryInv'
<1> USE Facts
<1>a. PICK t \in Transfers : t = job.t
  BY DEF ReturnBarrier, ReturnPermit, JobAt
<1>0. SameStates /\ SameColumns /\ job.pc \in {"return", "ret_permit"}
  BY DEF ReturnBarrier, ReturnPermit, JobAt, durable, SameStates, SameColumns
<1>1. CASE Goto("ret_permit") \/ Goto("ret_child")
  <2>1. GoesOn /\ job'.pc \in {"ret_permit", "ret_child"}
    BY <1>1, GotoJob DEF PCs
  <2> QED BY <1>a, <1>0, <2>1, CallMoves DEF Beginning
<1>2. CASE Keep
  BY <1>a, <1>0, <1>2, LoopsOn, CallMoves
<1>3. CASE descendant_still_delegated(t) /\ Return
  <2>1. PICK u \in Transfers : xfer[u].parent = t /\ parent_denied_in_subscope(u)
    BY <1>3 DEF descendant_still_delegated
  <2>2. u \in Open
    BY <2>1 DEF Open, parent_denied_in_subscope
  <2>3. job.pass.on => Done(t)
    BY <2>1, <2>2 DEF RecoveryInv, PassInv, PassOrder, Done, HasOpenBelow
  <2> QED BY <1>a, <1>0, <1>3, <2>3, LoopsOn, CallMoves
<1> QED BY <1>a, <1>1, <1>2, <1>3 DEF ReturnBarrier, ReturnPermit

\* The child is released, or it was lost or has an open transfer below it.
LEMMA KnownReturnChild ==
  ASSUME ScopeInv, RecoveryInv, ReturnChild
  PROVE  RecoveryInv'
<1> USE Facts
<1>a. PICK t \in Transfers : t = job.t
  BY DEF ReturnChild, JobAt
<1>0. /\ xfer[t].phase = "child_terminal" /\ job.pc = "ret_child" /\ xfer' = xfer
      /\ ~descendant_still_delegated(t) /\ Handed(t) /\ t \in Leases
  BY <1>a DEF ReturnChild, JobAt, ScopeInv, JobOrder, Handed
<1>1. CASE /\ can_transition_to(t, "released") /\ Goto("ret_parent")
           /\ lease' = [lease EXCEPT ![t].state = "released", ![t].gen = @ + 1]
  <2>0. lease[t].state # "released"
    BY <1>1 DEF can_transition_to, LegalTransitions
  <2>1. lease'[t].state = "released" /\ \A k \in Leases \ {t} : lease'[k] = lease[k]
    BY <1>0, <1>1 DEF Tables, LeaseRecords
  <2>2. GoesOn /\ job'.pc = "ret_parent"
    BY <1>1, GotoJob DEF PCs
  <2>3. \A u \in Transfers : /\ Handed(u)' = Handed(u) /\ Childless(u)' = Childless(u)
                             /\ HalfReturned(u) => HalfReturned(u)' /\ u # t
                             /\ HalfReturned(u)' => HalfReturned(u) \/ u = t
    BY <1>0, <2>0, <2>1 DEF Handed, Childless, HalfReturned
  <2>4. Forward /\ SameParents
    BY <1>0, <2>3 DEF Forward, SameParents
  <2>5. ParentsReady'
    <3>1. \A u \in Transfers : Returnable(u)' => Returnable(u)
      BY <1>a, <1>0, <2>0, <2>1, <2>2, <2>3 DEF Returnable, Leaving, GoesOn
    <3>2. \A u \in Transfers : Handed(u) => xfer[u].parent # t
      BY <1>0 DEF descendant_still_delegated, parent_denied_in_subscope, Handed
    <3>3. \A u \in Transfers : Returnable(u)' /\ lease[xfer[u].parent].state = "delegated"
                                 => lease'[xfer[u].parent].state = "delegated"
      BY <2>1, <3>1, <3>2 DEF Returnable
    <3> QED BY <2>3, <2>4, <3>1, <3>3, ReadyStill DEF RecoveryInv
  <2>6. CallKnows'
    BY <2>2 DEF CallKnows
  <2>7. PassInv'
    <3>1. job'.pass.on => \A u \in Transfers :
            Waits(u)' /\ HalfReturned(u)' => Waits(u) /\ HalfReturned(u)
      BY <1>a, <2>2, <2>3 DEF Waits, GoesOn, RecoveryInv, PassInv, PassOrder
    <3>2. \A u \in Transfers : Stuck(u) => Stuck(u)'
      BY <1>a, <2>2, <2>3 DEF Stuck, Returning, GoesOn
    <3>3. \A u \in Transfers : lease'[u].state = "transferring" => lease[u].state = "transferring"
      BY <2>1
    <3>4. job'.pc \notin {"idle"} \cup Beginning /\ job'.pc # "unwind"
      BY <2>2 DEF Beginning
    <3> QED BY <1>a, <2>2, <2>4, <3>1, <3>2, <3>3, <3>4, PassMoves
  <2> QED BY <2>5, <2>6, <2>7 DEF RecoveryInv
<1>2. CASE ~can_transition_to(t, "released") /\ Return /\ UNCHANGED lease
  <2>1. lease[t].state \in {"transferring", "released"}
    <3>1. lease[t].state \in States \ {"none"}
      BY <1>0 DEF TreeInv, RowsMatch, Row, Exists, Tables, LeaseRecords
    <3> QED BY <1>2, <3>1 DEF can_transition_to, LegalTransitions, States
  <2>2. job.pass.on => t \in job.pass.lost \/ Done(t)
    <3>1. job.pass.on => t \in job.pass.open
      BY <1>0 DEF Open, RecoveryInv, PassInv, PassOrder
    <3>2. Waits(t)
      BY <1>a, <1>0 DEF Waits
    <3> QED BY <1>0, <2>1, <3>1, <3>2 DEF RecoveryInv, PassInv, LostKnown, HalfReturned, Done
  <2>3. SameStates /\ SameColumns /\ Loops
    BY <1>0, <1>2, LoopsOn DEF SameStates, SameColumns
  <2> QED BY <1>a, <2>2, <2>3, CallMoves
<1>3. CASE Keep /\ UNCHANGED lease
  <2>1. SameStates /\ SameColumns /\ Loops /\ (job.pass.on => t \in job'.pass.kept)
    BY <1>a, <1>0, <1>3, LoopsOn DEF SameStates, SameColumns
  <2> QED BY <1>a, <2>1, CallMoves
<1> QED BY <1>a, <1>1, <1>2, <1>3 DEF ReturnChild

\* The parent is returning; its other children wait beside a half-returned one. If
\* it cannot be, a sibling is the reason.
LEMMA KnownReturnParent ==
  ASSUME ScopeInv, RecoveryInv, ReturnParent
  PROVE  RecoveryInv'
<1> USE Facts
<1>a. PICK t \in Transfers : t = job.t
  BY DEF ReturnParent, JobAt
<1>b. PICK l \in Leases : l = xfer[t].parent
  OBVIOUS
<1>0. /\ xfer[t].phase = "child_terminal" /\ job.pc = "ret_parent" /\ xfer' = xfer
      /\ lease[t].state = "released" /\ HalfReturned(t) /\ Returnable(t)
  BY <1>a DEF ReturnParent, JobAt, ScopeInv, JobOrder, Handed, HalfReturned, Returnable, Leaving
<1>1. CASE /\ can_transition_to(l, "returning") /\ Goto("ret_lease")
           /\ lease' = [lease EXCEPT ![l].state = "returning"]
  <2>0. lease[l].state = "delegated"
    BY <1>1 DEF can_transition_to, LegalTransitions
  <2>1. lease'[l].state = "returning" /\ \A k \in Leases \ {l} : lease'[k] = lease[k]
    BY <1>1, StateUpdate DEF Tables, States
  <2>2. GoesOn /\ job'.pc = "ret_lease"
    BY <1>1, GotoJob DEF PCs
  <2>3. \A u \in Transfers : /\ Handed(u)' = Handed(u) /\ Childless(u)' = Childless(u)
                             /\ HalfReturned(u)' = HalfReturned(u)
                             /\ (lease'[u].state = "released" <=> lease[u].state = "released")
    BY <1>0, <2>0, <2>1 DEF Handed, Childless, HalfReturned
  <2>4. Forward
    BY <1>0, <2>3 DEF Forward
  <2>5. ParentsReady'
    <3> SUFFICES ASSUME NEW v \in Transfers, Returnable(v)' PROVE Ready(v)'
      BY DEF ParentsReady
    <3>1. v # t /\ Returnable(v)
      BY <1>0, <2>2, <2>3 DEF Returnable, Leaving
    <3>2. CASE xfer[v].parent = l
      BY <1>b, <1>0, <2>3, <3>1, <3>2 DEF Ready, Beside
    <3>3. CASE xfer[v].parent # l
      <4>1. Ready(v)
        BY <3>1 DEF RecoveryInv, ParentsReady
      <4>2. Beside(v)' = Beside(v) /\ lease'[xfer'[v].parent].state = lease[xfer[v].parent].state
        BY <1>0, <2>1, <3>3 DEF Beside
      <4>3. \A u \in Beside(v) : u \in Transfers
        BY DEF Beside
      <4> QED BY <2>3, <4>1, <4>2, <4>3 DEF Ready
    <3> QED BY <3>2, <3>3
  <2>6. CallKnows'
    BY <2>2 DEF CallKnows
  <2>7. PassInv'
    <3>1. \A u \in Transfers : Waits(u)' => Waits(u)
      BY <2>2 DEF Waits, GoesOn
    <3>2. \A u \in Transfers : Stuck(u) => Stuck(u)'
      BY <1>0, <2>2, <2>3 DEF Stuck, Returning, GoesOn
    <3>3. \A u \in Transfers : lease'[u].state = "transferring" => lease[u].state = "transferring"
      BY <2>1
    <3>4. job'.pc \notin {"idle"} \cup Beginning /\ job'.pc # "unwind"
      BY <2>2 DEF Beginning
    <3> QED BY <1>a, <2>2, <2>3, <2>4, <3>1, <3>2, <3>3, <3>4, PassMoves
  <2> QED BY <2>5, <2>6, <2>7 DEF RecoveryInv
<1>2. CASE ~can_transition_to(l, "returning") /\ Return /\ UNCHANGED lease
  <2>1. lease[l].state # "delegated"
    BY <1>2 DEF can_transition_to, LegalTransitions
  <2>2. PICK u \in Beside(t) : Childless(u) \/ HalfReturned(u)
    BY <1>b, <1>0, <2>1 DEF RecoveryInv, ParentsReady, Ready
  <2>3. Done(t)
    BY <1>a, <2>2 DEF Done, Stuck, Returning, Beside
  <2>4. SameStates /\ SameColumns /\ Loops
    BY <1>0, <1>2, LoopsOn DEF SameStates, SameColumns
  <2> QED BY <1>a, <2>3, <2>4, CallMoves
<1>3. CASE Keep /\ UNCHANGED lease
  <2>1. SameStates /\ SameColumns /\ Loops /\ (job.pass.on => t \in job'.pass.kept)
    BY <1>a, <1>0, <1>3, LoopsOn DEF SameStates, SameColumns
  <2> QED BY <1>a, <2>1, CallMoves
<1> QED BY <1>a, <1>b, <1>1, <1>2, <1>3 DEF ReturnParent

\* The parent is handed back: Delegated while a sibling is denied to it.
LEMMA KnownRestoreLease ==
  ASSUME ScopeInv, RecoveryInv, RestoreLease
  PROVE  RecoveryInv'
<1> USE Facts
<1>a. PICK t \in Transfers : t = job.t
  BY DEF RestoreLease, JobAt
<1>b. PICK l \in Leases : l = xfer[t].parent
  OBVIOUS
<1>0. /\ xfer[t].phase = "child_terminal" /\ job.pc = "ret_lease" /\ xfer' = xfer
      /\ lease[t].state = "released" /\ lease[l].state = "returning"
  BY <1>a, <1>b DEF RestoreLease, JobAt, ScopeInv, JobOrder
<1>1. CASE cas_lease(l, restored_state(t), lease[l].gen + 1) /\ Goto("ret_phase")
  <2>0. restored_state(t) \in {"active", "delegated"}
    BY DEF restored_state
  <2>1. /\ lease'[l].state = restored_state(t)
        /\ \A k \in Leases \ {l} : lease'[k] = lease[k]
    BY <1>1, <2>0, CasLease DEF States
  <2>2. GoesOn /\ job'.pc = "ret_phase"
    BY <1>1, GotoJob DEF PCs
  <2>3. \A u \in Transfers : /\ Handed(u)' = Handed(u) /\ Childless(u)' = Childless(u)
                             /\ HalfReturned(u)' = HalfReturned(u)
                             /\ (lease'[u].state = "released" <=> lease[u].state = "released")
    BY <1>0, <2>0, <2>1 DEF Handed, Childless, HalfReturned
  <2>4. Forward
    BY <1>0, <2>3 DEF Forward
  <2>5. \A u \in Beside(t) : Denied(u) => lease'[l].state = "delegated"
    BY <1>b, <2>1 DEF restored_state, Beside, Denied
  <2>6. ParentsReady'
    <3> SUFFICES ASSUME NEW v \in Transfers, Returnable(v)' PROVE Ready(v)'
      BY DEF ParentsReady
    <3>1. v # t /\ Returnable(v) /\ Denied(v)
      BY <1>0, <2>2, <2>3 DEF Returnable, Leaving, Handed, Denied, parent_denied_in_subscope
    <3>2. CASE xfer[v].parent = l
      BY <1>b, <1>0, <2>5, <3>1, <3>2 DEF Ready, Beside
    <3>3. CASE xfer[v].parent # l
      <4>1. Ready(v)
        BY <3>1 DEF RecoveryInv, ParentsReady
      <4>2. Beside(v)' = Beside(v) /\ lease'[xfer'[v].parent].state = lease[xfer[v].parent].state
        BY <1>0, <2>1, <3>3 DEF Beside
      <4>3. \A u \in Beside(v) : u \in Transfers
        BY DEF Beside
      <4> QED BY <2>3, <4>1, <4>2, <4>3 DEF Ready
    <3> QED BY <3>2, <3>3
  <2>7. CallKnows'
    <3>1. Beside(t)' = Beside(t) /\ (\A u \in Transfers : Denied(u)' = Denied(u))
      BY <1>0 DEF Beside, Denied, parent_denied_in_subscope
    <3>2. \A u \in Beside(t)' : Denied(u)' => lease'[xfer'[t].parent].state = "delegated"
      BY <1>b, <1>0, <2>5, <3>1 DEF Beside
    <3>3. job'.t = t
      BY <1>a, <2>2 DEF GoesOn
    <3> QED BY <2>2, <3>2, <3>3 DEF CallKnows
  <2>8. PassInv'
    <3>1. \A u \in Transfers : Waits(u)' => Waits(u)
      BY <2>2 DEF Waits, GoesOn
    <3>2. \A u \in Transfers : Stuck(u) => Stuck(u)'
      BY <1>0, <2>2, <2>3 DEF Stuck, Returning, GoesOn
    <3>3. \A u \in Transfers : lease'[u].state = "transferring" => lease[u].state = "transferring"
      BY <2>0, <2>1
    <3>4. job'.pc \notin {"idle"} \cup Beginning /\ job'.pc # "unwind"
      BY <2>2 DEF Beginning
    <3> QED BY <1>a, <2>2, <2>3, <2>4, <3>1, <3>2, <3>3, <3>4, PassMoves
  <2> QED BY <2>6, <2>7, <2>8 DEF RecoveryInv
<1>2. CASE Keep /\ UNCHANGED <<lease, tokens>>
  <2>1. SameStates /\ SameColumns /\ Loops /\ (job.pass.on => t \in job'.pass.kept)
    BY <1>a, <1>0, <1>2, LoopsOn DEF SameStates, SameColumns
  <2> QED BY <1>a, <2>1, CallMoves
<1> QED BY <1>a, <1>b, <1>1, <1>2 DEF RestoreLease

\* The transfer is half returned no more, and the parent of the siblings that are
\* still handed out is Delegated.
LEMMA KnownRestorePhase ==
  ASSUME ScopeInv, RecoveryInv, RestorePhase
  PROVE  RecoveryInv'
<1> USE Facts
<1>a. PICK t \in Transfers : t = job.t
  BY DEF RestorePhase, JobAt
<1>0. /\ xfer[t].phase = "child_terminal" /\ job.pc = "ret_phase" /\ lease' = lease
      /\ xfer[t].child
  BY <1>a DEF RestorePhase, JobAt, ScopeInv, JobOrder, TreeInv, RowsMatch, Row
<1>1. CASE cas_transfer(t, "parent_restored") /\ Goto("commit")
  <2>1. /\ xfer'[t].phase = "parent_restored" /\ xfer'[t].parent = xfer[t].parent
        /\ xfer'[t].child = xfer[t].child
        /\ \A u \in Transfers \ {t} : xfer'[u] = xfer[u]
    BY <1>1, PhaseUpdate, PhaseSetIs DEF Tables
  <2>2. GoesOn /\ job'.pc = "commit"
    BY <1>1, GotoJob DEF PCs
  <2>3. /\ ~Handed(t)'
        /\ \A u \in Transfers \ {t} : /\ Handed(u)' = Handed(u)
                                      /\ HalfReturned(u)' = HalfReturned(u)
        /\ \A u \in Transfers : Childless(u)' = Childless(u) /\ (Handed(u)' => Handed(u))
                                /\ (HalfReturned(u)' => HalfReturned(u))
    BY <1>0, <2>1 DEF Handed, Childless, HalfReturned
  <2>4. Forward
    BY <1>0, <2>1, <2>3 DEF Forward
  <2>5. ParentsReady'
    <3> SUFFICES ASSUME NEW v \in Transfers, Returnable(v)' PROVE Ready(v)'
      BY DEF ParentsReady
    <3>1. v # t /\ Returnable(v) /\ Denied(v) /\ xfer'[v] = xfer[v]
      BY <1>0, <2>1, <2>2, <2>3
         DEF Returnable, Leaving, Handed, Denied, parent_denied_in_subscope
    <3>2. CASE xfer[v].parent = xfer[t].parent
      <4>1. lease[xfer[v].parent].state = "delegated"
        BY <1>a, <1>0, <3>1, <3>2 DEF RecoveryInv, CallKnows, Beside
      <4> QED BY <1>0, <3>1, <4>1 DEF Ready
    <3>3. CASE xfer[v].parent # xfer[t].parent
      <4>1. Ready(v)
        BY <3>1 DEF RecoveryInv, ParentsReady
      <4>2. /\ Beside(v)' = Beside(v) /\ \A u \in Beside(v) : u \in Transfers \ {t}
            /\ lease'[xfer'[v].parent].state = lease[xfer[v].parent].state
        BY <1>0, <2>1, <3>1, <3>3 DEF Beside
      <4> QED BY <2>3, <4>1, <4>2 DEF Ready
    <3> QED BY <3>2, <3>3
  <2>6. CallKnows'
    BY <2>2 DEF CallKnows
  <2>7. PassInv'
    <3>1. \A u \in Transfers : Waits(u)' => Waits(u)
      BY <2>2 DEF Waits, GoesOn
    <3>2. \A u \in Transfers : Stuck(u) => Stuck(u)'
      BY <1>a, <1>0, <2>2, <2>3 DEF Stuck, Returning, GoesOn
    <3>3. job'.pc \notin {"idle"} \cup Beginning /\ job'.pc # "unwind"
      BY <2>2 DEF Beginning
    <3> QED BY <1>a, <1>0, <2>2, <2>3, <2>4, <3>1, <3>2, <3>3, PassMoves
  <2> QED BY <2>5, <2>6, <2>7 DEF RecoveryInv
<1>2. CASE Keep /\ UNCHANGED xfer
  <2>1. SameStates /\ SameColumns /\ Loops /\ (job.pass.on => t \in job'.pass.kept)
    BY <1>a, <1>0, <1>2, LoopsOn DEF SameStates, SameColumns
  <2> QED BY <1>a, <2>1, CallMoves
<1> QED BY <1>a, <1>1, <1>2 DEF RestorePhase

\* The transfer is closed.
LEMMA KnownCommit ==
  ASSUME ScopeInv, RecoveryInv, Commit
  PROVE  RecoveryInv'
<1> USE Facts
<1>a. PICK t \in Transfers : t = job.t
  BY DEF Commit, JobAt
<1>0. xfer[t].phase = "parent_restored" /\ job.pc = "commit" /\ lease' = lease
  BY <1>a DEF Commit, JobAt, ScopeInv, JobOrder
<1>1. CASE cas_transfer(t, "committed") /\ Return
  <2>1. /\ xfer'[t].phase = "committed" /\ xfer'[t].parent = xfer[t].parent
        /\ xfer'[t].child = xfer[t].child
        /\ \A u \in Transfers \ {t} : xfer'[u] = xfer[u]
    BY <1>1, PhaseUpdate, PhaseSetIs DEF Tables
  <2>2. Loops /\ job'.pc \in {"idle", "recover"}
    BY <1>1, LoopsOn DEF Loops
  <2>3. \A u \in Transfers : /\ Handed(u)' = Handed(u) /\ Childless(u)' = Childless(u)
                             /\ HalfReturned(u)' = HalfReturned(u)
    BY <1>0, <2>1 DEF Handed, Childless, HalfReturned
  <2>4. Forward /\ SameParents
    BY <1>0, <2>1, <2>3 DEF Forward, SameParents
  <2>5. ParentsReady'
    <3>1. \A u \in Transfers : Returnable(u)' => Returnable(u)
      BY <1>0, <2>2, <2>3 DEF Returnable, Leaving
    <3> QED BY <1>0, <2>3, <2>4, <3>1, ReadyStill DEF RecoveryInv
  <2>6. CallKnows'
    BY <2>2 DEF CallKnows, Loops
  <2>7. PassInv'
    <3>1. \A u \in Transfers : job'.pass.on /\ Waits(u)' => Waits(u)
      BY <2>2 DEF Waits, Loops
    <3>2. \A u \in Transfers : Stuck(u) => Stuck(u)'
      BY <2>2, <2>3 DEF Stuck, Returning
    <3>3. Done(t)'
      BY <2>1 DEF Done
    <3> QED BY <1>a, <1>0, <2>2, <2>3, <2>4, <3>1, <3>2, <3>3, PassMoves
  <2> QED BY <2>5, <2>6, <2>7 DEF RecoveryInv
<1>2. CASE Keep /\ UNCHANGED xfer
  <2>1. SameStates /\ SameColumns /\ Loops /\ (job.pass.on => t \in job'.pass.kept)
    BY <1>a, <1>0, <1>2, LoopsOn DEF SameStates, SameColumns
  <2> QED BY <1>a, <2>1, CallMoves
<1> QED BY <1>a, <1>1, <1>2 DEF Commit

-----------------------------------------------------------------------------
(* The pass *)

\* One transfer of the pass: the call for it begins, or it is kept.
LEMMA KnownRecover ==
  ASSUME ScopeInv, RecoveryInv, NEW t \in Transfers, RecoverOne(t)
  PROVE  RecoveryInv'
<1> USE Facts
<1>a. /\ job.pass.todo \subseteq Transfers /\ job.pass.todo # {} /\ job.pc = "recover"
      /\ job.pass.on /\ job.t = Root /\ Root \notin Transfers
  BY DEF RecoverOne, Jobs, Passes, JobAt, RecoveryInv, CallKnows, Root, Transfers
<1>b. t \in job.pass.todo
  BY DEF RecoverOne
<1> DEFINE on(pc) == job' = [job EXCEPT !.pc = pc, !.t = t, !.pass.todo = @ \ {t}]
           keep == job' = [job EXCEPT !.pass.todo = @ \ {t}, !.pass.kept = @ \cup {t}]
           Passes1 == /\ job'.pass.on /\ job'.pass.open = job.pass.open
                      /\ job'.pass.lost = job.pass.lost
                      /\ job'.pass.todo = job.pass.todo \ {t}
<1>1. ASSUME NEW pc \in PCs, on(pc)
      PROVE  /\ job'.pc = pc /\ job'.t = t /\ Passes1 /\ job'.pass.kept = job.pass.kept
  <2> DEFINE p == [job.pass EXCEPT !.todo = @ \ {t}]
  <2>1. job' = [pc |-> pc, t |-> t, pass |-> p]
    BY <1>1 DEF Jobs
  <2>2. /\ p.todo = job.pass.todo \ {t} /\ p.on = job.pass.on /\ p.open = job.pass.open
        /\ p.lost = job.pass.lost /\ p.kept = job.pass.kept
    BY DEF Jobs, Passes
  <2> HIDE DEF p
  <2>3. job'.pc = pc /\ job'.t = t /\ job'.pass = p
    BY <2>1
  <2> QED BY <1>a, <2>2, <2>3
<1>2. ASSUME keep
      PROVE  /\ job'.pc = "recover" /\ job'.t = Root /\ Passes1
             /\ job'.pass.kept = job.pass.kept \cup {t}
  <2> DEFINE p == [job.pass EXCEPT !.todo = @ \ {t}, !.kept = @ \cup {t}]
  <2>1. job' = [pc |-> job.pc, t |-> job.t, pass |-> p]
    BY <1>2 DEF Jobs
  <2>2. /\ p.todo = job.pass.todo \ {t} /\ p.on = job.pass.on /\ p.open = job.pass.open
        /\ p.lost = job.pass.lost /\ p.kept = job.pass.kept \cup {t}
    BY DEF Jobs, Passes
  <2> HIDE DEF p
  <2>3. job'.pc = job.pc /\ job'.t = job.t /\ job'.pass = p
    BY <2>1
  <2> QED BY <1>a, <2>2, <2>3
<1>3. /\ \/ /\ \/ xfer[t].phase \in {"prepared", "parent_excluded"} /\ (on("drop") \/ on("abandon"))
               \/ xfer[t].phase = "child_terminal" /\ on("return")
               \/ xfer[t].phase = "parent_restored" /\ on("commit")
               \/ keep
            /\ xfer' = xfer
         \/ xfer[t].phase = "child_activated" /\ on("return") /\ cas_transfer(t, "child_terminal")
      /\ lease' = lease
  BY DEF RecoverOne
<1>4. /\ {"drop", "abandon", "return", "commit"} \subseteq PCs
      /\ {"drop", "abandon", "return", "commit"} \cap Beginning = {}
  BY DEF PCs, Beginning
<1> HIDE DEF on, keep
<1>5. /\ Passes1
      /\ \/ /\ job'.t = t /\ job'.pass.kept = job.pass.kept
            /\ job'.pc \in {"drop", "abandon", "return", "commit"}
            /\ job'.pc \in {"drop", "abandon"} => xfer[t].phase \in {"prepared", "parent_excluded"}
         \/ /\ job'.t = Root /\ job'.pc = "recover"
            /\ job'.pass.kept = job.pass.kept \cup {t}
  <2> HIDE DEF Passes1
  <2> QED BY <1>1, <1>2, <1>3, <1>4
<1>6. /\ \A u \in Transfers : /\ Handed(u)' = Handed(u) /\ Childless(u)' = Childless(u)
                              /\ HalfReturned(u)' = HalfReturned(u)
      /\ Forward /\ SameParents /\ Open' \subseteq Open
  <2>1. CASE xfer' = xfer
    BY <1>3, <2>1 DEF Handed, Childless, HalfReturned, Forward, SameParents, Open
  <2>2. CASE xfer[t].phase = "child_activated" /\ cas_transfer(t, "child_terminal")
    <3>1. /\ xfer'[t].phase = "child_terminal" /\ xfer'[t].parent = xfer[t].parent
          /\ xfer'[t].child = xfer[t].child
          /\ \A u \in Transfers \ {t} : xfer'[u] = xfer[u]
      BY <2>2, PhaseUpdate, PhaseSetIs DEF Tables
    <3> QED BY <1>3, <2>2, <3>1 DEF Handed, Childless, HalfReturned, Forward, SameParents, Open
  <2> QED BY <1>3, <2>1, <2>2
<1>7. ParentsReady'
  <2>1. \A u \in Transfers : Returnable(u)' => Returnable(u)
    BY <1>3, <1>5, <1>6 DEF Returnable, Leaving
  <2> QED BY <1>3, <1>6, <2>1, ReadyStill DEF RecoveryInv
<1>8. CallKnows'
  <2>1. xfer[t].phase \in {"prepared", "parent_excluded"} => Childless(t)
    BY DEF Childless, TreeInv, RowsMatch, Row
  <2> QED BY <1>5, <1>6, <2>1 DEF CallKnows
<1>9. PassGoesOn
  BY <1>a, <1>5 DEF PassGoesOn
<1>10. PassOrder'
  <2>1. job'.t \notin job'.pass.todo
    BY <1>a, <1>5
  <2>2. Open' \subseteq job'.pass.open
    BY <1>a, <1>5, <1>6 DEF RecoveryInv, PassInv, PassOrder
  <2>3. job'.pc \notin {"idle"} \cup Beginning /\ job'.pc # "unwind"
    BY <1>5 DEF Beginning
  <2> QED BY <2>1, <2>2, <2>3 DEF PassOrder
<1>11. LostKnown'
  <2>1. \A u \in Transfers : Waits(u)' => Waits(u)
    BY <1>a, <1>b, <1>5 DEF Waits
  <2> QED BY <1>3, <1>6, <1>9, <2>1, LostStill DEF RecoveryInv, PassInv
<1>12. PassDone'
  <2>1. \A u \in Transfers : Stuck(u) => Stuck(u)'
    BY <1>5, <1>6 DEF Stuck, Returning
  <2>2. \A u \in Transfers : Passed(u)' => /\ u \in job.pass.todo => u = job'.t
                                           /\ u # job.t
    BY <1>a, <1>5 DEF Passed
  <2> QED BY <1>6, <1>9, <2>1, <2>2, DoneStill DEF RecoveryInv, PassInv
<1> QED BY <1>7, <1>8, <1>10, <1>11, <1>12 DEF RecoveryInv, PassInv

\* The pass begins after a crash: everything open is left to look at, and what
\* cannot be returned any more is lost or has an open transfer below it.
LEMMA KnownCrash ==
  ASSUME ScopeInv, RecoveryInv, Crash
  PROVE  RecoveryInv'
<1> USE Facts
<1>0. /\ lease' = lease /\ xfer' = xfer /\ job'.pc = "recover" /\ job'.t = Root
      /\ job'.pass.on /\ job'.pass.todo = Open /\ job'.pass.open = Open
      /\ job'.pass.kept = {} /\ job'.pass.lost = {t \in Open : Lost(t)}
      /\ Root \notin Transfers /\ Open \subseteq Transfers /\ Open' = Open
  BY DEF Crash, durable, Root, Transfers, Open
<1>1. \A u \in Transfers : /\ Handed(u)' = Handed(u) /\ Childless(u)' = Childless(u)
                           /\ HalfReturned(u)' = HalfReturned(u)
  BY <1>0 DEF Handed, Childless, HalfReturned
<1>2. ParentsReady'
  <2>1. \A u \in Transfers : Returnable(u)' => Returnable(u)
    BY <1>0, <1>1 DEF Returnable, Leaving
  <2>2. SameParents
    BY <1>0 DEF SameParents
  <2> QED BY <1>0, <1>1, <2>1, <2>2, ReadyStill DEF RecoveryInv
<1>3. CallKnows'
  BY <1>0 DEF CallKnows
<1>4. PassOrder'
  BY <1>0 DEF PassOrder, Beginning
<1>5. LostKnown'
  <2> SUFFICES ASSUME NEW t \in Transfers
               PROVE  /\ Waits(t)' /\ HalfReturned(t)' => t \in job'.pass.lost
                      /\ t \in job'.pass.open /\ Handed(t)' /\ lease'[t].state = "transferring"
                           => t \in job'.pass.lost \/ HasOpenBelow(t)'
    BY DEF LostKnown
  <2>1. HalfReturned(t) /\ t \in Open => Lost(t)
    BY DEF HalfReturned, Handed, Lost
  <2>2. Waits(t)' => t \in Open
    BY <1>0 DEF Waits
  <2>3. t \in Open /\ Handed(t) /\ lease[t].state = "transferring" =>
          Lost(t) \/ \E u \in Open : xfer[u].parent = t
    BY DEF Handed, Lost, Stranded
  <2>4. (\E u \in Open : xfer[u].parent = t) => HasOpenBelow(t)'
    BY <1>0 DEF HasOpenBelow
  <2> QED BY <1>0, <1>1, <2>1, <2>2, <2>3, <2>4
<1>6. PassDone'
  BY <1>0 DEF PassDone, Passed
<1> QED BY <1>2, <1>3, <1>4, <1>5, <1>6 DEF RecoveryInv, PassInv

\* The pass ends.
LEMMA KnownEnd ==
  ASSUME ScopeInv, RecoveryInv, EndRecovery
  PROVE  RecoveryInv'
<1> USE Facts
<1>0. lease' = lease /\ xfer' = xfer /\ job'.pc = "idle" /\ ~job'.pass.on
  BY DEF EndRecovery, durable, NoJob, NoPass
<1>1. \A u \in Transfers : /\ Returnable(u)' => Returnable(u)
                           /\ Childless(u)' = Childless(u)
                           /\ HalfReturned(u)' = HalfReturned(u)
  BY <1>0 DEF Handed, Childless, HalfReturned, Returnable, Leaving
<1>2. ParentsReady'
  <2>1. SameParents
    BY <1>0 DEF SameParents
  <2> QED BY <1>0, <1>1, <2>1, ReadyStill DEF RecoveryInv
<1>3. CallKnows'
  BY <1>0 DEF CallKnows
<1> QED BY <1>0, <1>2, <1>3, PassOff DEF RecoveryInv

\* Mutations, exits, deletion and shutdown touch nothing of this.
LEMMA KnownBeside ==
  ASSUME RecoveryInv, UNCHANGED <<lease, xfer, job>>
  PROVE  RecoveryInv'
<1>1. ParentsReady'
  BY DEF RecoveryInv, ParentsReady, Returnable, Ready, Beside, Leaving, Handed, Childless,
         HalfReturned
<1>2. CallKnows'
  BY DEF RecoveryInv, CallKnows, Childless, Beside, Denied, parent_denied_in_subscope
<1>3. PassOrder'
  BY DEF RecoveryInv, PassInv, PassOrder, Open
<1>4. LostKnown'
  BY DEF RecoveryInv, PassInv, LostKnown, Waits, HalfReturned, Handed, HasOpenBelow
<1>5. PassDone'
  BY DEF RecoveryInv, PassInv, PassDone, Passed, Done, HasOpenBelow, Beside, Childless, Stuck,
         HalfReturned, Handed, Returning
<1> QED BY <1>1, <1>2, <1>3, <1>4, <1>5 DEF RecoveryInv, PassInv

-----------------------------------------------------------------------------
(* The theorem *)

\* The invariant holds when the root lease is opened.
LEMMA KnownInit == Init => RecoveryInv
<1> SUFFICES ASSUME Init PROVE RecoveryInv
  OBVIOUS
<1>1. job.pc = "idle" /\ ~job.pass.on
  BY DEF Init, NoJob, NoPass
<1>2. \A t \in Transfers : ~Handed(t)
  BY DEF Init, NoTransfer, Handed
<1> QED BY <1>1, <1>2 DEF RecoveryInv, ParentsReady, Returnable, CallKnows, PassInv, PassOrder,
                          LostKnown, PassDone

\* Every step keeps the invariant.
LEMMA KnownNext == ScopeInv /\ RecoveryInv /\ [Next]_vars => RecoveryInv'
<1> SUFFICES ASSUME ScopeInv, RecoveryInv, [Next]_vars PROVE RecoveryInv'
  OBVIOUS
<1>1. ASSUME NEW t \in Transfers, NEW l \in Leases, NEW S \in Scopes, Prepare(t, l, S)
      PROVE  RecoveryInv'
  BY <1>1, KnownPrepare
<1>2. CASE TransferStep
  BY <1>2, KnownBegin, KnownExclude, KnownActivate, KnownAbandon, KnownUnwind DEF TransferStep
<1>3. ASSUME NEW t \in Transfers, ChildTerminal(t) \/ BeginReturn(t)
      PROVE  RecoveryInv'
  BY <1>3, KnownTerminal
<1>4. CASE ReturnStep
  BY <1>4, KnownBarrier, KnownReturnChild, KnownReturnParent, KnownRestoreLease,
     KnownRestorePhase, KnownCommit DEF ReturnStep
<1>5. CASE (\E t \in Transfers : RecoverOne(t)) \/ EndRecovery \/ Crash
  BY <1>5, KnownRecover, KnownEnd, KnownCrash
<1>6. CASE UNCHANGED <<lease, xfer, job>>
  BY <1>6, KnownBeside
<1>7. ASSUME NEW t \in Transfers, Exit(t) PROVE UNCHANGED <<lease, xfer, job>>
  BY <1>7 DEF Exit, durable
<1>8. CASE BeginDeletion \/ BeginShutdown \/ UNCHANGED vars
  BY <1>6, <1>8 DEF BeginDeletion, BeginShutdown, vars, durable
<1>9. ASSUME NEW m \in Mutators, \/ \E l \in Leases, T \in Targets : AcquirePermit(m, l, T)
                                 \/ Revalidate(m) \/ Mutate(m) \/ ReleasePermit(m)
      PROVE  UNCHANGED <<lease, xfer, job>>
  BY <1>9 DEF AcquirePermit, Revalidate, Mutate, ReleasePermit, durable
<1> QED BY <1>1, <1>2, <1>3, <1>4, <1>5, <1>6, <1>7, <1>8, <1>9 DEF Next

\* A transfer that is stuck is lost, and its siblings spoilt.
LEMMA StuckSpoils ==
  ASSUME NEW t \in Transfers, \E u \in Beside(t) : Childless(u) \/ Stuck(u)
  PROVE  SpoiltBeside(t)
BY DEF Beside, Childless, Stuck, HalfReturned, Handed, Lost, SpoiltBeside

\* Only the end of the pass makes the coordinator free again.
LEMMA PassEndsOnce ==
  ASSUME ScopeInv, RecoveryInv, [Next]_vars, JobAt("recover"), Free'
  PROVE  EndRecovery
<1> USE Facts
<1>0. job.pc = "recover" /\ job'.pc = "idle"
  BY DEF JobAt, Free
<1>1. ~TransferStep
  BY <1>0 DEF TransferStep, Drain, ReservePermit, CreateContainment, AttachOwnership,
     ReleaseUserCode, DropPermit, ExcludeParent, ActivateChild, Abandon, Unwind, JobAt
<1>2. ~ReturnStep
  BY <1>0 DEF ReturnStep, ReturnBarrier, ReturnPermit, ReturnChild, ReturnParent, RestoreLease,
     RestorePhase, Commit, JobAt
<1>3. ~\E t \in Transfers : RecoverOne(t)
  <2> SUFFICES ASSUME NEW t \in Transfers, RecoverOne(t) PROVE FALSE
    OBVIOUS
  <2> DEFINE on(pc) == job' = [job EXCEPT !.pc = pc, !.t = t, !.pass.todo = @ \ {t}]
             keep == job' = [job EXCEPT !.pass.todo = @ \ {t}, !.pass.kept = @ \cup {t}]
  <2>1. ASSUME NEW pc, on(pc) PROVE job'.pc = pc
    BY <2>1 DEF Jobs
  <2>2. ASSUME keep PROVE job'.pc = job.pc
    BY <2>2 DEF Jobs
  <2>3. on("drop") \/ on("abandon") \/ on("return") \/ on("commit") \/ keep
    BY DEF RecoverOne
  <2> HIDE DEF on, keep
  <2> QED BY <1>0, <2>1, <2>2, <2>3
<1>4. ~Crash
  BY <1>0 DEF Crash
<1>5. /\ ~BeginDeletion /\ ~BeginShutdown /\ ~UNCHANGED vars
      /\ \A t \in Transfers : ~ChildTerminal(t) /\ ~BeginReturn(t) /\ ~Exit(t)
      /\ \A t \in Transfers, l \in Leases, S \in Scopes : ~Prepare(t, l, S)
  BY <1>0 DEF BeginDeletion, BeginShutdown, ChildTerminal, BeginReturn, Exit, Prepare, Free, vars
<1>6. \A m \in Mutators :
        /\ \A l \in Leases, T \in Targets : ~AcquirePermit(m, l, T)
        /\ ~Revalidate(m) /\ ~Mutate(m) /\ ~ReleasePermit(m)
  BY <1>0 DEF AcquirePermit, Revalidate, Mutate, ReleasePermit, Free
<1> QED BY <1>1, <1>2, <1>3, <1>4, <1>5, <1>6 DEF Next

\* When a recovery pass ends, every transfer that was open when it began is closed,
\* unless the pass kept it in doubt, found it lost, or it has an open transfer below
\* it or a spoilt sibling: recover, retire_unactivated and complete_return leave no
\* other transfer open, whatever fails and wherever the daemon had crashed.
THEOREM RecoveryLeavesNothingElse == Spec => RecoveryCloses
<1> DEFINE A == (JobAt("recover") /\ Free')
                  => \A t \in job.pass.open \ (job.pass.kept \cup job.pass.lost) :
                       \/ xfer[t].phase = "committed"
                       \/ \E u \in job.pass.open : xfer[u].parent = t
                       \/ SpoiltBeside(t)
<1>1. Init => ScopeInv /\ RecoveryInv
  BY ScopeInit, KnownInit
<1>2. ScopeInv /\ RecoveryInv /\ [Next]_vars => (ScopeInv /\ RecoveryInv)'
  BY ScopeNext, KnownNext
<1>3. ScopeInv /\ RecoveryInv /\ [Next]_vars => A
  <2> SUFFICES ASSUME ScopeInv, RecoveryInv, [Next]_vars, JobAt("recover"), Free',
                      NEW t \in job.pass.open \ (job.pass.kept \cup job.pass.lost)
               PROVE  \/ xfer[t].phase = "committed"
                      \/ \E u \in job.pass.open : xfer[u].parent = t
                      \/ SpoiltBeside(t)
    OBVIOUS
  <2>1. job.pass.todo = {} /\ job.pass.on /\ job.t = Root
    BY PassEndsOnce DEF EndRecovery, JobAt, RecoveryInv, CallKnows
  <2>2. t \in Transfers /\ t # Root
    BY Facts DEF Jobs, Passes, Transfers, Root
  <2>3. Done(t)
    BY <2>1, <2>2 DEF RecoveryInv, PassInv, PassDone, Passed
  <2> QED BY <2>2, <2>3, StuckSpoils DEF Done, HasOpenBelow
<1>4. ScopeInv /\ RecoveryInv /\ [Next]_vars => [A]_vars
  BY <1>3
<1> QED BY <1>1, <1>2, <1>4, PTL DEF Spec, RecoveryCloses
=============================================================================
