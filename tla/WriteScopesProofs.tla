------------------------- MODULE WriteScopesProofs -------------------------
(***************************************************************************)
(* Proofs about WriteScopes, for any workspace, any number of transfers,   *)
(* mutations and crashes.                                                  *)
(***************************************************************************)
EXTENDS WriteScopes, TLAPS

LeaseRecords == [state : States, gen : Nat, parent : Leases, scope : SUBSET Files]
TransferRecords == [phase : PhaseSet, parent : Leases, scope : SUBSET Files,
                    child : BOOLEAN, attached : BOOLEAN]
Passes == [on : BOOLEAN, todo : SUBSET Transfers, kept : SUBSET Transfers,
           open : SUBSET Transfers, lost : SUBSET Transfers]
Permits == [kind : {"mutation"}, id : Mutators, root : SUBSET Files]
           \cup [kind : {"execution"}, id : Transfers, root : SUBSET Files]

Jobs == [pc : PCs, t : Leases, pass : Passes]

\* The types, with what TypeOK leaves open: the job's pass, the permits'
\* owners, and a transfer for every call but the recovery loop.
WideType ==
  /\ TypeOK
  /\ job \in Jobs
  /\ job.pc \notin {"idle", "recover"} => job.t \in Transfers
  /\ permits \subseteq Permits
  /\ tokens \subseteq Leases \X Nat

Exists(l) == lease[l].state # "none"
Denied(t) == parent_denied_in_subscope(t)

\* A live token is one of a lease that exists.
TokensExist == \A k \in tokens : Exists(k[1])

\* A transfer row and the lease of its child.
Row(t) ==
  /\ xfer[t].child = Exists(t)
  /\ Exists(t) => lease[t].scope = xfer[t].scope /\ lease[t].parent = xfer[t].parent
  /\ xfer[t].phase \in {"none", "prepared", "parent_excluded"} => ~xfer[t].child
  /\ xfer[t].phase \in {"child_activated", "child_terminal"} => xfer[t].child
  /\ Live(t) => xfer[t].phase \in {"child_activated", "child_terminal"}
RowsMatch == \A t \in Transfers : Row(t)

\* A transfer names a strict sub-scope of a lease that exists.
ScopesNest ==
  \A t \in Transfers : xfer[t].phase # "none" =>
    /\ xfer[t].scope # {} /\ Exists(xfer[t].parent)
    /\ xfer[t].scope \subseteq lease[xfer[t].parent].scope
    /\ xfer[t].scope # lease[xfer[t].parent].scope

\* What a lease has handed out does not overlap, and a released lease has
\* nothing handed out.
SiblingsApart ==
  \A t, u \in Transfers :
    (t # u /\ xfer[t].parent = xfer[u].parent /\ Denied(t) /\ Denied(u))
       => xfer[t].scope \cap xfer[u].scope = {}
ReleasedHasNone ==
  \A l \in Leases, t \in Transfers :
    (lease[l].state = "released" /\ xfer[t].parent = l) => ~Denied(t)

RootWide == lease[Root].scope = Files

\* Where the call that has `serial` stands.
JobOrder ==
  LET t == job.t
      l == xfer[t].parent
  IN /\ job.pc \in {"drain", "permit", "create", "attach", "release", "exclude"} =>
          /\ xfer[t].phase = "prepared" /\ lease[l].state = "transferring"
          /\ \A E \in exclusions(l) : xfer[t].scope \cap E = {}
     /\ job.pc \in {"drop", "abandon", "unwind"} => xfer[t].phase # "none"
     /\ job.pc = "activate" =>
          xfer[t].phase = "parent_excluded" /\ lease[l].state = "transferring"
     /\ job.pc \in {"return", "ret_permit", "ret_child", "ret_parent", "ret_lease", "ret_phase"}
          => xfer[t].phase = "child_terminal"
     /\ job.pc \in {"ret_permit", "ret_child"} => ~descendant_still_delegated(t)
     /\ job.pc \in {"ret_parent", "ret_lease", "ret_phase"} => lease[t].state = "released"
     /\ job.pc = "ret_lease" => lease[l].state = "returning"
     /\ job.pc = "commit" => xfer[t].phase = "parent_restored"
TodoBegun == \A u \in job.pass.todo : xfer[u].phase # "none"

\* k lies below a live child of l.
Below(k, l) == \E t \in Transfers : /\ Live(t) /\ lease[t].parent = l
                                    /\ lease[k].scope \subseteq lease[t].scope

\* Two live leases are apart, or one lies below a child of the other.
LiveApart ==
  \A l, k \in Leases : (l # k /\ Live(l) /\ Live(k))
     => lease[l].scope \cap lease[k].scope = {} \/ Below(k, l) \/ Below(l, k)

TreeInv == /\ RowsMatch /\ ScopesNest /\ SiblingsApart /\ ReleasedHasNone
           /\ RootWide /\ LiveApart
ScopeInv == WideType /\ TokensExist /\ TreeInv /\ JobOrder /\ TodoBegun

\* The execution permit of a transfer outlives its containment.
PermitsCover ==
  /\ \A t \in Transfers : Populated(t) => Execution(t) # {}
  /\ \A t \in Transfers : xfer[t].phase = "none" => box[t] = "none"
  /\ job.pc \in {"drain", "permit", "create"} => box[job.t] = "none"
  /\ job.pc \in {"create", "attach", "release"} => Execution(job.t) # {}
  /\ job.pc \in {"drop", "ret_permit"} => ~Populated(job.t)

-----------------------------------------------------------------------------
(* Jobs and tables *)

\* The phases, one by one.
LEMMA PhaseSetIs ==
  PhaseSet = {"none", "prepared", "parent_excluded", "child_activated",
              "child_terminal", "parent_restored", "committed"}
<1>1. 1..7 = {1, 2, 3, 4, 5, 6, 7}
  OBVIOUS
<1>2. PhaseSet = {Phases[1], Phases[2], Phases[3], Phases[4], Phases[5], Phases[6],
                  Phases[7]}
  BY <1>1 DEF PhaseSet
<1>3. /\ Phases[1] = "none" /\ Phases[2] = "prepared" /\ Phases[3] = "parent_excluded"
      /\ Phases[4] = "child_activated" /\ Phases[5] = "child_terminal"
      /\ Phases[6] = "parent_restored" /\ Phases[7] = "committed"
  BY DEF Phases
<1> QED BY <1>2, <1>3

\* A new state and generation (cas_lease) change nothing else of a lease.
LEMMA LeaseUpdate ==
  ASSUME lease \in [Leases -> LeaseRecords], NEW l \in Leases, NEW s \in States,
         NEW g \in Nat, lease' = [lease EXCEPT ![l].state = s, ![l].gen = g]
  PROVE  /\ lease' \in [Leases -> LeaseRecords]
         /\ lease'[l].state = s /\ lease'[l].gen = g
         /\ lease'[l].parent = lease[l].parent /\ lease'[l].scope = lease[l].scope
         /\ \A k \in Leases \ {l} : lease'[k] = lease[k]
<1> DEFINE r == [state |-> s, gen |-> g, parent |-> lease[l].parent, scope |-> lease[l].scope]
<1>1. lease[l] \in LeaseRecords
  OBVIOUS
<1>2. lease[l] = [state |-> lease[l].state, gen |-> lease[l].gen,
                  parent |-> lease[l].parent, scope |-> lease[l].scope]
  BY <1>1 DEF LeaseRecords
<1> DEFINE L == [lease EXCEPT ![l].state = s]
<1>3. /\ L[l] = [lease[l] EXCEPT !.state = s]
      /\ \A k \in Leases \ {l} : L[k] = lease[k]
      /\ DOMAIN L = Leases
  OBVIOUS
<1>4. lease' = [L EXCEPT ![l].gen = g]
  OBVIOUS
<1> HIDE DEF L
<1>5. /\ lease'[l] = [L[l] EXCEPT !.gen = g]
      /\ \A k \in Leases \ {l} : lease'[k] = L[k]
      /\ DOMAIN lease' = Leases
  BY <1>3, <1>4
<1>6. lease' = [lease EXCEPT ![l] = r]
  BY <1>2, <1>3, <1>5
<1>7. r \in LeaseRecords
  BY <1>1 DEF LeaseRecords
<1> HIDE DEF r
<1>8. /\ lease' \in [Leases -> LeaseRecords] /\ lease'[l] = r
      /\ \A k \in Leases \ {l} : lease'[k] = lease[k]
  BY <1>6, <1>7
<1> QED BY <1>8 DEF r

\* So does a new state alone.
LEMMA StateUpdate ==
  ASSUME lease \in [Leases -> LeaseRecords], NEW l \in Leases, NEW s \in States,
         lease' = [lease EXCEPT ![l].state = s]
  PROVE  /\ lease' \in [Leases -> LeaseRecords]
         /\ lease'[l].state = s /\ lease'[l].gen = lease[l].gen
         /\ lease'[l].parent = lease[l].parent /\ lease'[l].scope = lease[l].scope
         /\ \A k \in Leases \ {l} : lease'[k] = lease[k]
BY DEF LeaseRecords

\* A new phase (cas_transfer) changes nothing else of a transfer.
LEMMA PhaseUpdate ==
  ASSUME xfer \in [Transfers -> TransferRecords], NEW t \in Transfers,
         NEW p \in PhaseSet, cas_transfer(t, p)
  PROVE  /\ xfer' \in [Transfers -> TransferRecords]
         /\ xfer'[t].phase = p /\ xfer'[t].child = xfer[t].child
         /\ xfer'[t].attached = xfer[t].attached
         /\ xfer'[t].parent = xfer[t].parent /\ xfer'[t].scope = xfer[t].scope
         /\ \A u \in Transfers \ {t} : xfer'[u] = xfer[u]
BY DEF TransferRecords, cas_transfer

\* The call returns: idle, or the loop of the pass it is part of.
Ends == /\ job' \in Jobs /\ job'.pc \in {"idle", "recover"}
        /\ job'.pass.todo \subseteq job.pass.todo

\* The call goes on with the same transfer and pass.
GoesOn == job' \in Jobs /\ job'.t = job.t /\ job'.pass = job.pass

\* Goto only moves the call on.
LEMMA GotoJob ==
  ASSUME job \in Jobs, NEW pc \in PCs, Goto(pc)
  PROVE  GoesOn /\ job'.pc = pc
BY DEF Goto, Jobs, GoesOn

\* Returning and keeping both end the call.
LEMMA CallEnds ==
  ASSUME job \in Jobs, job.t \in Transfers, Return \/ Keep
  PROVE  Ends
<1>1. CASE Return
  BY <1>1 DEF Return, Ends, Jobs, Resume, NoJob, NoPass, Passes, PCs, Leases, Transfers, Root
<1>2. CASE Keep
  BY <1>2 DEF Keep, Ends, Jobs, Resume, NoJob, NoPass, Passes, PCs, Leases, Transfers, Root
<1> QED BY <1>1, <1>2

\* A call that ends leaves nothing to say about where it stands.
LEMMA EndOrder ==
  ASSUME Ends, TodoBegun, job \in Jobs,
         \A u \in Transfers : xfer[u].phase # "none" => xfer'[u].phase # "none"
  PROVE  JobOrder' /\ TodoBegun'
<1>1. JobOrder'
  BY DEF Ends, JobOrder
<1>2. TodoBegun'
  BY DEF Ends, TodoBegun, Jobs, Passes
<1> QED BY <1>1, <1>2
-----------------------------------------------------------------------------
(* The tree of leases and transfers *)

\* The rows stay, but for the tickets that are attached.
SameRows == \A u \in Transfers :
              /\ xfer'[u].phase = xfer[u].phase /\ xfer'[u].parent = xfer[u].parent
              /\ xfer'[u].scope = xfer[u].scope /\ xfer'[u].child = xfer[u].child

\* Live leases stay apart while leases only move between live states.
LEMMA LiveSame ==
  ASSUME LiveApart,
         \A l \in Leases : /\ lease'[l].scope = lease[l].scope
                           /\ lease'[l].parent = lease[l].parent
                           /\ (lease'[l].state = "none") = (lease[l].state = "none")
                           /\ (lease'[l].state = "released") = (lease[l].state = "released")
  PROVE  LiveApart'
BY DEF LiveApart, Below, Live, Leases

\* A lease that only moves between live states leaves the tree as it is.
LEMMA TreeSame ==
  ASSUME WideType, TreeInv, SameRows,
         \A l \in Leases : /\ lease'[l].scope = lease[l].scope
                           /\ lease'[l].parent = lease[l].parent
                           /\ (lease'[l].state = "none") = (lease[l].state = "none")
                           /\ (lease'[l].state = "released") = (lease[l].state = "released")
  PROVE  TreeInv'
<1> USE DEF Leases, SameRows
<1>1. RowsMatch'
  BY DEF TreeInv, RowsMatch, Row, Exists, Live
<1>2. ScopesNest'
  BY DEF TreeInv, ScopesNest, Exists, WideType, TypeOK
<1>3. SiblingsApart'
  BY DEF TreeInv, SiblingsApart, Denied, parent_denied_in_subscope
<1>4. ReleasedHasNone'
  BY DEF TreeInv, ReleasedHasNone, Denied, parent_denied_in_subscope
<1>5. RootWide'
  BY DEF TreeInv, RootWide
<1>6. LiveApart'
  BY LiveSame DEF TreeInv
<1> QED BY <1>1, <1>2, <1>3, <1>4, <1>5, <1>6 DEF TreeInv

\* A new phase keeps the tree when it fits the child, and when a scope that is
\* denied to the parent from now on is apart from the others.
LEMMA TreePhase ==
  ASSUME WideType, TreeInv, lease' = lease, NEW t \in Transfers, NEW p \in PhaseSet,
         cas_transfer(t, p), xfer[t].phase # "none",
         p \in {"none", "prepared", "parent_excluded"} => ~xfer[t].child,
         p \in {"child_activated", "child_terminal"} => xfer[t].child,
         Live(t) => p \in {"child_activated", "child_terminal"},
         p \in {"parent_excluded", "child_activated", "child_terminal"} =>
           \/ Denied(t)
           \/ /\ lease[xfer[t].parent].state # "released"
              /\ \A E \in exclusions(xfer[t].parent) : xfer[t].scope \cap E = {}
  PROVE  TreeInv'
<1>1. /\ xfer \in [Transfers -> TransferRecords] /\ lease \in [Leases -> LeaseRecords]
      /\ \A u \in Transfers : xfer[u].parent \in Leases
  BY DEF WideType, TypeOK, LeaseRecords, TransferRecords
<1>2. /\ xfer'[t].phase = p /\ xfer'[t].child = xfer[t].child
      /\ xfer'[t].parent = xfer[t].parent /\ xfer'[t].scope = xfer[t].scope
      /\ \A u \in Transfers \ {t} : xfer'[u] = xfer[u]
  BY <1>1, PhaseUpdate
<1>3. RowsMatch'
  BY <1>2 DEF TreeInv, RowsMatch, Row, Exists, Live
<1>4. ScopesNest'
  BY <1>1, <1>2 DEF TreeInv, ScopesNest, Exists
<1>5. SiblingsApart'
  <2>1. \A u \in Transfers \ {t} :
          (xfer[u].parent = xfer[t].parent /\ Denied(u)
             /\ p \in {"parent_excluded", "child_activated", "child_terminal"})
          => xfer[t].scope \cap xfer[u].scope = {}
    BY DEF TreeInv, SiblingsApart, exclusions, Denied
  <2>2. \A u \in Transfers : u # t => Denied(u)' = Denied(u)
    BY <1>2 DEF Denied, parent_denied_in_subscope
  <2>3. Denied(t)' => p \in {"parent_excluded", "child_activated", "child_terminal"}
    BY <1>2 DEF Denied, parent_denied_in_subscope
  <2> QED BY <1>2, <2>1, <2>2, <2>3 DEF TreeInv, SiblingsApart
<1>6. ReleasedHasNone'
  BY <1>2 DEF TreeInv, ReleasedHasNone, Denied, parent_denied_in_subscope
<1>7. RootWide' /\ LiveApart'
  BY DEF TreeInv, RootWide, LiveApart, Below, Live
<1> QED BY <1>3, <1>4, <1>5, <1>6, <1>7 DEF TreeInv

\* Nor does a step that leaves both tables alone disturb it.
LEMMA TreeStill ==
  ASSUME WideType, TreeInv, UNCHANGED <<lease, xfer>>
  PROVE  TreeInv'
BY TreeSame DEF SameRows
-----------------------------------------------------------------------------
(* Every step keeps the invariant *)

Boxes == [Transfers -> {"none", "populated", "empty"}]
Tables == /\ lease \in [Leases -> LeaseRecords] /\ xfer \in [Transfers -> TransferRecords]
          /\ permits \subseteq Permits /\ box \in Boxes
Mutations == [Mutators -> [pc : {"idle", "held", "checked", "done"}, lease : Leases,
                           gen : Nat, target : SUBSET Files]]

\* What the tokens are to their leases.
TokensFit == \A k \in tokens : /\ k \in Leases \X Nat
                               /\ k[2] = lease[k[1]].gen /\ Exists(k[1])

\* The facts of the invariant that the steps use.
LEMMA Facts ==
  ASSUME ScopeInv
  PROVE  /\ Tables /\ TokensFit /\ job \in Jobs
         /\ job.pc \notin {"idle", "recover"} => job.t \in Transfers
         /\ \A u \in Transfers : xfer[u].parent \in Leases /\ u \in Leases
         /\ \A l \in Leases : lease[l].gen \in Nat
         /\ WideType /\ TreeInv
<1>1. Tables
  BY DEF ScopeInv, WideType, TypeOK, Tables, Boxes, LeaseRecords, TransferRecords
<1>2. TokensFit
  BY DEF ScopeInv, WideType, TypeOK, TokensFit, TokensExist
<1>3. job \in Jobs /\ (job.pc \notin {"idle", "recover"} => job.t \in Transfers)
  BY DEF ScopeInv, WideType
<1>4. \A u \in Transfers : xfer[u].parent \in Leases /\ u \in Leases
  BY <1>1 DEF Tables, TransferRecords, Leases
<1>5. \A l \in Leases : lease[l].gen \in Nat
  BY <1>1 DEF Tables, LeaseRecords
<1> QED BY <1>1, <1>2, <1>3, <1>4, <1>5 DEF ScopeInv

\* The invariant holds when the root lease is opened.
LEMMA ScopeInit == Init => ScopeInv
<1> SUFFICES ASSUME Init PROVE ScopeInv
  OBVIOUS
<1>0. /\ \A t \in Transfers : xfer[t] = NoTransfer /\ t # Root
      /\ Root \in Leases
      /\ \A l \in Leases : lease[l] = IF l = Root THEN [state |-> "active", gen |-> 1,
                               parent |-> Root, scope |-> Files] ELSE NoLease
  BY BoundsAssumption DEF Init, Leases, Transfers, Root
<1>1. WideType
  <2>1. TypeOK
    <3>1. lease \in [Leases -> LeaseRecords]
      BY <1>0 DEF Init, LeaseRecords, NoLease, States
    <3>2. xfer \in [Transfers -> TransferRecords]
      BY <1>0, PhaseSetIs DEF Init, TransferRecords, NoTransfer
    <3>3. mut \in Mutations
      BY <1>0 DEF Init, Mutations, NoMutation
    <3>4. \A k \in tokens : k[1] \in Leases /\ k[2] = lease[k[1]].gen
      BY <1>0 DEF Init
    <3>5. job.pc \in PCs /\ job.t \in Leases
      BY <1>0 DEF Init, NoJob, PCs
    <3>6. permits = {} /\ deleting \in BOOLEAN /\ closing \in BOOLEAN
      BY DEF Init
    <3>7. box \in Boxes
      BY DEF Init, Boxes
    <3>8. crashes \in 0..MaxCrashes
      BY BoundsAssumption DEF Init
    <3> QED BY <3>1, <3>2, <3>3, <3>4, <3>5, <3>6, <3>7, <3>8
        DEF TypeOK, LeaseRecords, TransferRecords, Mutations, Boxes
  <2>2. job \in Jobs
    BY <1>0 DEF Init, Jobs, NoJob, NoPass, Passes, PCs
  <2> QED BY <1>0, <2>1, <2>2 DEF Init, WideType, NoJob, Permits
<1>2. TokensExist
  BY <1>0 DEF Init, TokensExist, Exists
<1>3. TreeInv
  <2>1. RowsMatch
    <3>1. \A t \in Transfers : /\ lease[t].state = "none" /\ xfer[t].child = FALSE
                               /\ xfer[t].phase = "none"
      BY <1>0 DEF NoTransfer, NoLease, Leases
    <3> QED BY <3>1 DEF RowsMatch, Row, Exists, Live
  <2>2. ScopesNest /\ RootWide
    BY <1>0 DEF ScopesNest, RootWide, NoTransfer
  <2>3. SiblingsApart /\ ReleasedHasNone
    BY <1>0 DEF SiblingsApart, ReleasedHasNone, Denied, parent_denied_in_subscope, NoTransfer
  <2>4. LiveApart
    BY <1>0 DEF LiveApart, Live, NoLease
  <2> QED BY <2>1, <2>2, <2>3, <2>4 DEF TreeInv
<1>4. JobOrder /\ TodoBegun
  BY DEF Init, JobOrder, TodoBegun, NoJob, NoPass
<1> QED BY <1>1, <1>2, <1>3, <1>4 DEF ScopeInv

\* Mutations, exits, deletion and shutdown leave leases, transfers, tokens and
\* the job alone.
LEMMA QuietStep ==
  ASSUME ScopeInv, UNCHANGED <<lease, xfer, tokens, job>>, permits' \subseteq Permits,
         box' \in Boxes, mut' \in Mutations, deleting' \in BOOLEAN, closing' \in BOOLEAN,
         crashes' = crashes
  PROVE  ScopeInv'
<1>1. WideType'
  BY DEF ScopeInv, WideType, TypeOK, Permits, Boxes, Mutations
<1>2. TreeInv'
  BY Facts, TreeStill
<1>3. TokensExist' /\ JobOrder' /\ TodoBegun'
  BY DEF ScopeInv, TokensExist, Exists, JobOrder, TodoBegun, exclusions,
         parent_denied_in_subscope, descendant_still_delegated
<1> QED BY <1>1, <1>2, <1>3 DEF ScopeInv

\* A step of the call that has `serial`.
LEMMA CallStep ==
  ASSUME ScopeInv, Tables', TokensFit', TreeInv', job.t \in Transfers,
         UNCHANGED <<deleting, closing, mut, crashes>>,
         \A u \in Transfers : xfer[u].phase # "none" => xfer'[u].phase # "none",
         \/ Ends
         \/ GoesOn /\ JobOrder'
  PROVE  ScopeInv'
<1>1. job' \in Jobs /\ (job'.pc \notin {"idle", "recover"} => job'.t \in Transfers)
  BY DEF Ends, GoesOn
<1>2. WideType'
  BY <1>1 DEF ScopeInv, WideType, TypeOK, Tables, TokensFit, Permits, Boxes, LeaseRecords,
              TransferRecords, Jobs
<1>3. TokensExist'
  BY DEF TokensFit, TokensExist
<1>4. JobOrder' /\ TodoBegun'
  <2>1. CASE Ends
    BY <2>1, EndOrder, Facts DEF ScopeInv
  <2>2. CASE GoesOn /\ JobOrder'
    BY <2>2, Facts DEF ScopeInv, TodoBegun, Jobs, Passes, GoesOn
  <2> QED BY <2>1, <2>2
<1> QED BY <1>2, <1>3, <1>4 DEF ScopeInv
\* A step of the call that leaves leases, transfers and tokens alone.
LEMMA StillStep ==
  ASSUME ScopeInv, job.t \in Transfers, permits' \subseteq Permits, box' \in Boxes,
         UNCHANGED <<lease, xfer, deleting, tokens, closing, mut, crashes>>,
         Ends \/ (GoesOn /\ JobOrder')
  PROVE  ScopeInv'
<1>1. Tables' /\ TokensFit'
  BY Facts DEF Tables, TokensFit, Exists
<1>2. TreeInv'
  BY Facts, TreeStill
<1> QED BY <1>1, <1>2, CallStep

\* The steps of begin_transfer before the exclusion: the drain barrier, the
\* execution permit, the containment, its release, and the way out.
LEMMA BeforeExclusion ==
  ASSUME ScopeInv, \/ Drain \/ ReservePermit \/ CreateContainment
                   \/ ReleaseUserCode \/ DropPermit
  PROVE  ScopeInv'
<1> USE Facts
<1>1. CASE Drain
  <2>1. job.t \in Transfers /\ permits' \subseteq Permits /\ box' \in Boxes
    BY <1>1 DEF Drain, JobAt, durable, Tables
  <2>2. GoesOn /\ job'.pc \in {"permit", "abandon"}
    BY <1>1, GotoJob DEF Drain, PCs
  <2>3. JobOrder'
    BY <1>1, <2>2 DEF GoesOn, Drain, JobAt, durable, ScopeInv, JobOrder, exclusions,
                      parent_denied_in_subscope
  <2> QED BY <1>1, <2>1, <2>2, <2>3, StillStep DEF Drain, durable
<1>2. CASE ReservePermit
  <2>1. job.t \in Transfers /\ box' \in Boxes
    BY <1>2 DEF ReservePermit, JobAt, Tables
  <2>2. permits' \subseteq Permits
    <3>1. xfer[job.t].scope \subseteq Files
      BY <2>1 DEF Tables, TransferRecords
    <3>2. \A R \in Scopes \cup {xfer[job.t].scope} : R \subseteq Files
      BY <3>1, ScopesAssumption
    <3>3. \A R \in Scopes \cup {xfer[job.t].scope} :
            [kind |-> "execution", id |-> job.t, root |-> R] \in Permits
      BY <2>1, <3>2 DEF Permits
    <3> QED BY <1>2, <3>3 DEF ReservePermit, Tables
  <2>3. GoesOn /\ job'.pc \in {"create", "abandon"}
    BY <1>2, GotoJob DEF ReservePermit, PCs
  <2>4. JobOrder'
    BY <1>2, <2>3 DEF GoesOn, ReservePermit, JobAt, ScopeInv, JobOrder, exclusions,
                      parent_denied_in_subscope
  <2> QED BY <1>2, <2>1, <2>2, <2>3, <2>4, StillStep DEF ReservePermit
<1>3. CASE CreateContainment
  <2>1. job.t \in Transfers /\ permits' \subseteq Permits
    BY <1>3 DEF CreateContainment, JobAt, durable, Tables
  <2>2. box' \in Boxes
    BY <1>3 DEF CreateContainment, Tables, Boxes
  <2>3. GoesOn /\ job'.pc \in {"attach", "drop"}
    BY <1>3, GotoJob DEF CreateContainment, PCs
  <2>4. JobOrder'
    BY <1>3, <2>3 DEF GoesOn, CreateContainment, JobAt, durable, ScopeInv, JobOrder,
                      exclusions, parent_denied_in_subscope
  <2> QED BY <1>3, <2>1, <2>2, <2>3, <2>4, StillStep DEF CreateContainment, durable
<1>4. CASE ReleaseUserCode
  <2>1. job.t \in Transfers /\ permits' \subseteq Permits
    BY <1>4 DEF ReleaseUserCode, JobAt, durable, Tables
  <2>2. box' \in Boxes
    BY <1>4 DEF ReleaseUserCode, terminate, Tables, Boxes
  <2>3. GoesOn /\ job'.pc \in {"exclude", "drop"}
    BY <1>4, GotoJob DEF ReleaseUserCode, PCs
  <2>4. JobOrder'
    BY <1>4, <2>3 DEF GoesOn, ReleaseUserCode, JobAt, durable, ScopeInv, JobOrder,
                      exclusions, parent_denied_in_subscope
  <2> QED BY <1>4, <2>1, <2>2, <2>3, <2>4, StillStep DEF ReleaseUserCode, durable
<1>5. CASE DropPermit
  <2>1. job.t \in Transfers /\ box' \in Boxes /\ permits' \subseteq Permits
    BY <1>5 DEF DropPermit, JobAt, Tables, Execution
  <2>2. GoesOn /\ job'.pc = "abandon"
    BY <1>5, GotoJob DEF DropPermit, PCs
  <2>3. JobOrder'
    BY <1>5, <2>2 DEF GoesOn, DropPermit, JobAt, ScopeInv, JobOrder
  <2> QED BY <1>5, <2>1, <2>2, <2>3, StillStep DEF DropPermit
<1> QED BY <1>1, <1>2, <1>3, <1>4, <1>5
\* The ticket of the containment reaches the row, or the containment goes.
LEMMA AttachStep ==
  ASSUME ScopeInv, AttachOwnership
  PROVE  ScopeInv'
<1> USE Facts
<1>1. job.t \in Transfers
  BY DEF AttachOwnership, JobAt
<1>2. SameRows /\ xfer' \in [Transfers -> TransferRecords]
  <2>1. CASE xfer' = [xfer EXCEPT ![job.t].attached = TRUE]
    <3>1. /\ xfer'[job.t] = [xfer[job.t] EXCEPT !.attached = TRUE]
          /\ \A u \in Transfers \ {job.t} : xfer'[u] = xfer[u]
          /\ xfer[job.t] \in TransferRecords
      BY <1>1, <2>1 DEF Tables
    <3>2. /\ xfer'[job.t] \in TransferRecords
          /\ xfer'[job.t].phase = xfer[job.t].phase /\ xfer'[job.t].parent = xfer[job.t].parent
          /\ xfer'[job.t].scope = xfer[job.t].scope /\ xfer'[job.t].child = xfer[job.t].child
      BY <3>1 DEF TransferRecords
    <3> QED BY <1>1, <2>1, <3>1, <3>2 DEF SameRows, Tables
  <2>2. CASE UNCHANGED xfer
    BY <2>2 DEF SameRows, Tables
  <2> QED BY <2>1, <2>2 DEF AttachOwnership
<1>3. box' \in Boxes
  BY DEF AttachOwnership, terminate, Tables, Boxes
<1>4. TreeInv'
  BY <1>2, TreeSame DEF AttachOwnership
<1>5. GoesOn /\ job'.pc \in {"release", "drop"}
  BY GotoJob DEF AttachOwnership, PCs
<1>6. JobOrder'
  BY <1>1, <1>2, <1>5 DEF GoesOn, AttachOwnership, JobAt, ScopeInv, JobOrder, SameRows,
                          exclusions, parent_denied_in_subscope
<1>7. Tables' /\ TokensFit'
  BY <1>2, <1>3 DEF AttachOwnership, Tables, TokensFit, Exists
<1> QED BY <1>1, <1>2, <1>4, <1>5, <1>6, <1>7, CallStep DEF AttachOwnership, SameRows

\* The parent is excluded from the sub-scope, and gets a token of its generation.
LEMMA ExcludeStep ==
  ASSUME ScopeInv, ExcludeParent
  PROVE  ScopeInv'
<1> USE Facts
<1> DEFINE l == xfer[job.t].parent
<1>0. /\ job.t \in Transfers /\ l \in Leases
      /\ xfer[job.t].phase = "prepared" /\ lease[l].state = "transferring"
      /\ \A E \in exclusions(l) : xfer[job.t].scope \cap E = {}
  BY DEF ExcludeParent, JobAt, ScopeInv, JobOrder
<1>1. CASE cas_transfer(job.t, "parent_excluded") /\ Goto("activate")
           /\ tokens' = tokens \cup {<<l, lease[l].gen>>}
  <2>1. "parent_excluded" \in PhaseSet
    BY PhaseSetIs
  <2>2. /\ xfer' \in [Transfers -> TransferRecords] /\ xfer'[job.t].phase = "parent_excluded"
        /\ xfer'[job.t].parent = l /\ \A u \in Transfers \ {job.t} : xfer'[u] = xfer[u]
    BY <1>0, <1>1, <2>1, PhaseUpdate DEF Tables
  <2>3. TreeInv'
    <3>1. ~xfer[job.t].child /\ ~Live(job.t)
      BY <1>0 DEF TreeInv, RowsMatch, Row
    <3> QED BY <1>0, <1>1, <2>1, <3>1, TreePhase DEF ExcludeParent
  <2>4. GoesOn /\ job'.pc = "activate"
    BY <1>1, GotoJob DEF PCs
  <2>5. JobOrder'
    BY <1>0, <2>2, <2>4 DEF GoesOn, ExcludeParent, JobOrder
  <2>6. TokensFit'
    BY <1>0, <1>1 DEF ExcludeParent, TokensFit, Exists
  <2>7. Tables'
    BY <2>2 DEF ExcludeParent, Tables
  <2> QED BY <1>0, <2>2, <2>3, <2>4, <2>5, <2>6, <2>7, CallStep DEF ExcludeParent
<1>2. CASE Goto("abandon") /\ UNCHANGED <<xfer, tokens>>
  <2>1. GoesOn /\ job'.pc = "abandon"
    BY <1>2, GotoJob DEF PCs
  <2>2. JobOrder'
    BY <1>0, <1>2, <2>1 DEF GoesOn, JobOrder
  <2> QED BY <1>0, <1>2, <2>1, <2>2, StillStep DEF ExcludeParent, Tables
<1> QED BY <1>1, <1>2 DEF ExcludeParent

\* A transfer without a child is closed, or kept open by an error.
LEMMA AbandonStep ==
  ASSUME ScopeInv, Abandon
  PROVE  ScopeInv'
<1> USE Facts
<1>0. job.t \in Transfers /\ xfer[job.t].phase # "none" /\ ~xfer[job.t].child
  BY DEF Abandon, JobAt, ScopeInv, JobOrder
<1>1. CASE cas_transfer(job.t, "committed") /\ Goto("unwind")
  <2>1. "committed" \in PhaseSet
    BY PhaseSetIs
  <2>2. /\ xfer' \in [Transfers -> TransferRecords] /\ xfer'[job.t].phase = "committed"
        /\ \A u \in Transfers \ {job.t} : xfer'[u] = xfer[u]
    BY <1>0, <1>1, <2>1, PhaseUpdate DEF Tables
  <2>3. TreeInv'
    <3>1. ~Live(job.t)
      BY <1>0 DEF TreeInv, RowsMatch, Row, Live, Exists
    <3> QED BY <1>0, <1>1, <2>1, <3>1, TreePhase DEF Abandon
  <2>4. GoesOn /\ job'.pc = "unwind"
    BY <1>1, GotoJob DEF PCs
  <2>5. JobOrder'
    BY <1>0, <2>2, <2>4 DEF GoesOn, JobOrder
  <2>6. Tables' /\ TokensFit'
    BY <2>2 DEF Abandon, Tables, TokensFit, Exists
  <2> QED BY <1>0, <2>2, <2>3, <2>4, <2>5, <2>6, CallStep DEF Abandon
<1>2. CASE UNCHANGED xfer /\ Goto("unwind")
  <2>1. GoesOn /\ job'.pc = "unwind"
    BY <1>2, GotoJob DEF PCs
  <2>2. JobOrder'
    BY <1>0, <1>2, <2>1 DEF GoesOn, JobOrder
  <2> QED BY <1>0, <1>2, <2>1, <2>2, StillStep DEF Abandon, Tables
<1>3. CASE UNCHANGED xfer /\ Keep
  BY <1>0, <1>3, CallEnds, StillStep DEF Abandon, Tables
<1> QED BY <1>1, <1>2, <1>3 DEF Abandon
\* cas_lease with the next generation: the lease's older tokens go, and the rest
\* of the leases is as before.
LEMMA CasLease ==
  ASSUME ScopeInv, NEW l \in Leases, NEW s \in States \ {"none"},
         cas_lease(l, s, lease[l].gen + 1)
  PROVE  /\ lease' \in [Leases -> LeaseRecords]
         /\ lease'[l].state = s /\ lease'[l].parent = lease[l].parent
         /\ lease'[l].scope = lease[l].scope
         /\ \A k \in Leases \ {l} : lease'[k] = lease[k]
         /\ TokensFit'
<1> USE Facts
<1>1. lease[l].gen + 1 \in Nat
  OBVIOUS
<1>2. /\ lease' \in [Leases -> LeaseRecords]
      /\ lease'[l].state = s /\ lease'[l].gen = lease[l].gen + 1
      /\ lease'[l].parent = lease[l].parent /\ lease'[l].scope = lease[l].scope
      /\ \A k \in Leases \ {l} : lease'[k] = lease[k]
  BY <1>1, LeaseUpdate DEF cas_lease, Tables
<1>3. \A k \in tokens' : k \in tokens /\ k[1] # l
  BY DEF cas_lease, invalidate_older_tokens, TokensFit
<1>4. TokensFit'
  BY <1>2, <1>3 DEF TokensFit, Exists
<1> QED BY <1>2, <1>4

\* The parent is active again.
LEMMA UnwindStep ==
  ASSUME ScopeInv, Unwind
  PROVE  ScopeInv'
<1> USE Facts
<1> DEFINE l == xfer[job.t].parent
<1>0. job.t \in Transfers /\ l \in Leases /\ Ends
  BY CallEnds DEF Unwind, JobAt
<1>1. CASE lease[l].state = "transferring" /\ cas_lease(l, "active", lease[l].gen + 1)
  <2>1. /\ lease' \in [Leases -> LeaseRecords]
        /\ lease'[l].state = "active" /\ lease'[l].parent = lease[l].parent
        /\ lease'[l].scope = lease[l].scope
        /\ \A k \in Leases \ {l} : lease'[k] = lease[k]
        /\ TokensFit'
    BY <1>0, <1>1, CasLease DEF States
  <2>2. SameRows
    BY DEF Unwind, SameRows
  <2> HIDE DEF l
  <2>3. TreeInv'
    BY <1>0, <1>1, <2>1, <2>2, TreeSame
  <2>4. Tables'
    BY <2>1 DEF Unwind, Tables
  <2> QED BY <1>0, <2>1, <2>2, <2>3, <2>4, CallStep DEF Unwind, SameRows
<1>2. CASE UNCHANGED <<lease, tokens>>
  BY <1>0, <1>2, StillStep DEF Unwind, Tables
<1> QED BY <1>1, <1>2 DEF Unwind

\* A step that starts a call or a pass.
LEMMA AnyStep ==
  ASSUME Tables', TokensFit', TreeInv', JobOrder', TodoBegun', job' \in Jobs,
         job'.pc \notin {"idle", "recover"} => job'.t \in Transfers,
         deleting' \in BOOLEAN, closing' \in BOOLEAN, mut' \in Mutations,
         crashes' \in 0..MaxCrashes
  PROVE  ScopeInv'
<1>1. TypeOK'
  BY DEF TypeOK, Tables, TokensFit, Permits, Boxes, LeaseRecords, TransferRecords, Jobs, Mutations
<1>2. WideType'
  BY <1>1 DEF WideType, Tables, TokensFit
<1>3. TokensExist'
  BY DEF TokensFit, TokensExist
<1> QED BY <1>2, <1>3 DEF ScopeInv

\* What the invariant says of the variables that no tree is made of.
LEMMA OtherTypes ==
  ASSUME ScopeInv
  PROVE  /\ deleting \in BOOLEAN /\ closing \in BOOLEAN /\ mut \in Mutations
         /\ crashes \in 0..MaxCrashes
BY DEF ScopeInv, WideType, TypeOK, Mutations

\* A transfer begins: its scope is inside its parent's and apart from what the
\* parent has handed out.
LEMMA PrepareStep ==
  ASSUME ScopeInv, NEW t \in Transfers, NEW l \in Leases, NEW S \in Scopes,
         Prepare(t, l, S)
  PROVE  ScopeInv'
<1> USE Facts
<1>0. /\ xfer[t].phase = "none" /\ lease[l].state \in {"active", "delegated"}
      /\ S \subseteq lease[l].scope /\ S # lease[l].scope /\ S # {} /\ S \subseteq Files
      /\ \A E \in exclusions(l) : S \cap E = {}
  BY ScopesAssumption DEF Prepare, can_transition_to, LegalTransitions, admits_subscope
<1>1. /\ lease' \in [Leases -> LeaseRecords]
      /\ lease'[l].state = "transferring" /\ lease'[l].parent = lease[l].parent
      /\ lease'[l].scope = lease[l].scope
      /\ \A k \in Leases \ {l} : lease'[k] = lease[k]
      /\ TokensFit'
  BY CasLease DEF Prepare, States
<1>2. /\ xfer'[t] = [phase |-> "prepared", parent |-> l, scope |-> S, child |-> FALSE,
                     attached |-> FALSE]
      /\ \A u \in Transfers \ {t} : xfer'[u] = xfer[u]
  BY DEF Prepare, NoTransfer, Tables
<1>3. xfer' \in [Transfers -> TransferRecords]
  <2>1. [phase |-> "prepared", parent |-> l, scope |-> S, child |-> FALSE,
         attached |-> FALSE] \in TransferRecords
    BY <1>0, PhaseSetIs DEF TransferRecords
  <2> QED BY <1>2, <2>1 DEF Prepare, Tables
<1>4. lease[t].state = "none" /\ l # t /\ lease'[t] = lease[t]
  BY <1>0, <1>1 DEF TreeInv, RowsMatch, Row, Exists
<1>5. /\ ~Denied(t) /\ ~Denied(t)'
      /\ \A u \in Transfers \ {t} : Denied(u)' = Denied(u)
  BY <1>0, <1>2 DEF Denied, parent_denied_in_subscope
<1>6. TreeInv'
  <2>1. RowsMatch'
    <3>1. /\ xfer'[t].child = FALSE /\ lease'[t].state = "none"
          /\ xfer'[t].phase = "prepared"
      BY <1>2, <1>4
    <3>2. \A u \in Transfers \ {t} :
            /\ xfer'[u] = xfer[u] /\ lease'[u].parent = lease[u].parent
            /\ lease'[u].scope = lease[u].scope
            /\ (lease'[u].state = "none") = (lease[u].state = "none")
            /\ (lease'[u].state = "released") = (lease[u].state = "released")
      BY <1>0, <1>1, <1>2
    <3> QED BY <3>1, <3>2 DEF TreeInv, RowsMatch, Row, Exists, Live
  <2>2. ScopesNest'
    BY <1>0, <1>1, <1>2 DEF TreeInv, ScopesNest, Exists
  <2>3. SiblingsApart'
    BY <1>2, <1>5 DEF TreeInv, SiblingsApart
  <2>4. ReleasedHasNone'
    BY <1>1, <1>2, <1>5 DEF TreeInv, ReleasedHasNone
  <2>5. RootWide'
    BY <1>1 DEF TreeInv, RootWide, Leases
  <2>6. LiveApart'
    <3>1. \A k \in Leases : lease'[k].scope = lease[k].scope
                            /\ lease'[k].parent = lease[k].parent
                            /\ (lease'[k].state = "none") = (lease[k].state = "none")
                            /\ (lease'[k].state = "released") = (lease[k].state = "released")
      BY <1>0, <1>1
    <3> QED BY <3>1, LiveSame DEF TreeInv
  <2> QED BY <2>1, <2>2, <2>3, <2>4, <2>5, <2>6 DEF TreeInv
<1>7. /\ job'.pc = "drain" /\ job'.t = t /\ job'.pass = NoPass /\ job' \in Jobs
  BY DEF Prepare, NoJob, NoPass, Jobs, PCs, Passes
<1>8. JobOrder' /\ TodoBegun'
  <2>1. \A E \in exclusions(l)' : E \in exclusions(l)
    BY <1>2, <1>5 DEF exclusions, Denied
  <2> QED BY <1>0, <1>1, <1>2, <1>7, <2>1 DEF JobOrder, TodoBegun, NoPass
<1>9. Tables'
  BY <1>1, <1>3 DEF Prepare, Tables
<1> QED BY <1>1, <1>6, <1>7, <1>8, <1>9, AnyStep, OtherTypes DEF Prepare
\* A live lease has something to write, a child's scope is a strict part of its
\* parent's, and it is denied to the parent.
LEMMA LiveScopes ==
  ASSUME ScopeInv
  PROVE  \A k \in Transfers : Live(k) =>
            /\ Denied(k) /\ xfer[k].parent = lease[k].parent
            /\ xfer[k].scope = lease[k].scope /\ lease[k].parent \in Leases
            /\ lease[k].scope # {} /\ lease[k].scope \subseteq Files
            /\ lease[k].scope \subseteq lease[lease[k].parent].scope
            /\ lease[k].scope # lease[lease[k].parent].scope
<1> SUFFICES ASSUME NEW k \in Transfers, Live(k)
             PROVE  /\ Denied(k) /\ xfer[k].parent = lease[k].parent
                    /\ xfer[k].scope = lease[k].scope /\ lease[k].parent \in Leases
                    /\ lease[k].scope # {} /\ lease[k].scope \subseteq Files
                    /\ lease[k].scope \subseteq lease[lease[k].parent].scope
                    /\ lease[k].scope # lease[lease[k].parent].scope
  OBVIOUS
<1>1. /\ Denied(k) /\ xfer[k].phase # "none" /\ xfer[k].parent = lease[k].parent
      /\ xfer[k].scope = lease[k].scope
  BY DEF ScopeInv, TreeInv, RowsMatch, Row, Live, Exists, Denied, parent_denied_in_subscope
<1>2. lease[k].parent \in Leases /\ lease[k].scope \subseteq Files
  BY <1>1, Facts DEF Tables, TransferRecords
<1> QED BY <1>1, <1>2 DEF ScopeInv, TreeInv, ScopesNest

\* The child's lease begins: it lies below its parent, and is apart from the
\* parent's other children and from all that is outside the parent.
LEMMA ActivateStep ==
  ASSUME ScopeInv, ActivateChild
  PROVE  ScopeInv'
<1> USE Facts
<1>a. PICK t \in Transfers : t = job.t
  BY DEF ActivateChild, JobAt
<1>b. PICK l \in Leases : l = xfer[t].parent
  OBVIOUS
<1>c. PICK g \in Nat : g = lease[l].gen + 1
  OBVIOUS
<1> DEFINE child == [state |-> "active", gen |-> g, parent |-> l, scope |-> xfer[t].scope]
<1>0. /\ t \in Leases /\ t # Root
      /\ xfer[t].phase = "parent_excluded" /\ lease[l].state = "transferring"
      /\ lease[t].state = "none" /\ l # t
      /\ xfer[t].scope \subseteq Files
  <2>1. xfer[t].phase = "parent_excluded" /\ lease[l].state = "transferring"
    BY <1>a, <1>b DEF ActivateChild, JobAt, ScopeInv, JobOrder
  <2>2. lease[t].state = "none"
    BY <2>1 DEF TreeInv, RowsMatch, Row, Exists
  <2> QED BY <2>1, <2>2 DEF Tables, TransferRecords, Transfers, Root
<1>1. CASE /\ lease' = [lease EXCEPT ![l].state = "delegated", ![t] = child]
           /\ xfer' = [xfer EXCEPT ![t].phase = "child_activated", ![t].child = TRUE]
           /\ tokens' = tokens \cup {<<t, g>>}
           /\ Return
  <2>1. /\ lease'[t] = child
        /\ lease'[l].state = "delegated" /\ lease'[l].gen = lease[l].gen
        /\ lease'[l].scope = lease[l].scope /\ lease'[l].parent = lease[l].parent
        /\ \A k \in Leases \ {l, t} : lease'[k] = lease[k]
        /\ lease' \in [Leases -> LeaseRecords]
    <3> DEFINE L == [lease EXCEPT ![l].state = "delegated"]
    <3>1. /\ L \in [Leases -> LeaseRecords]
          /\ L[l].state = "delegated" /\ L[l].gen = lease[l].gen
          /\ L[l].scope = lease[l].scope /\ L[l].parent = lease[l].parent
          /\ \A k \in Leases \ {l} : L[k] = lease[k]
      BY <1>0 DEF Tables, LeaseRecords, States
    <3>2. child \in LeaseRecords
      BY <1>0 DEF LeaseRecords, States
    <3>3. lease' = [L EXCEPT ![t] = child]
      BY <1>1
    <3> QED BY <1>0, <3>1, <3>2, <3>3
  <2>2. /\ xfer'[t].phase = "child_activated" /\ xfer'[t].child = TRUE
        /\ xfer'[t].parent = l /\ xfer'[t].scope = xfer[t].scope
        /\ \A u \in Transfers \ {t} : xfer'[u] = xfer[u]
        /\ xfer' \in [Transfers -> TransferRecords]
    <3> DEFINE X == [xfer EXCEPT ![t].phase = "child_activated"]
    <3>1. /\ X \in [Transfers -> TransferRecords]
          /\ X[t].phase = "child_activated" /\ X[t].parent = l /\ X[t].scope = xfer[t].scope
          /\ \A u \in Transfers \ {t} : X[u] = xfer[u]
      BY <1>b, <1>0, PhaseSetIs DEF Tables, TransferRecords
    <3>2. xfer' = [X EXCEPT ![t].child = TRUE]
      BY <1>1
    <3> HIDE DEF X
    <3> QED BY <1>0, <3>1, <3>2 DEF TransferRecords
  <2>3. TokensFit'
    <3>1. \A k \in tokens : k[1] # t
      BY <1>0 DEF TokensFit, Exists
    <3>2. \A k \in tokens : k \in Leases \X Nat /\ k[2] = lease'[k[1]].gen
                            /\ lease'[k[1]].state # "none"
      BY <1>0, <2>1, <3>1 DEF TokensFit, Exists
    <3> QED BY <1>0, <1>1, <2>1, <3>2 DEF TokensFit, Exists
  <2>4. Tables' /\ Ends
    BY <1>a, <1>0, <1>1, <2>1, <2>2, CallEnds DEF ActivateChild, Tables
  <2>5. TreeInv'
    <3>1. \A k \in Leases \ {t} :
            /\ lease'[k].scope = lease[k].scope /\ lease'[k].parent = lease[k].parent
            /\ (lease'[k].state = "none") = (lease[k].state = "none")
            /\ (lease'[k].state = "released") = (lease[k].state = "released")
      BY <1>0, <2>1
    <3>2. /\ lease'[t].state = "active" /\ lease'[t].parent = l
          /\ lease'[t].scope = xfer[t].scope
      BY <2>1
    <3>3. RowsMatch'
      <4>1. \A u \in Transfers \ {t} : u \in Leases \ {t}
        BY DEF Leases
      <4>2. Row(t)'
        BY <2>2, <3>2 DEF Row, Exists, Live
      <4>3. \A u \in Transfers \ {t} : Row(u)'
        <5> SUFFICES ASSUME NEW u \in Transfers \ {t} PROVE Row(u)'
          OBVIOUS
        <5>1. xfer'[u] = xfer[u]
          BY <2>2
        <5>2. Row(u)
          BY DEF TreeInv, RowsMatch
        <5> QED BY <3>1, <4>1, <5>1, <5>2 DEF Row, Exists, Live
      <4> QED BY <4>2, <4>3 DEF RowsMatch
    <3>4. ScopesNest'
      <4>1. \A u \in Transfers : xfer[u].phase # "none" => xfer[u].parent \in Leases \ {t}
        BY <1>0 DEF TreeInv, ScopesNest, Exists
      <4>2. \A u \in Transfers : /\ (xfer'[u].phase # "none" => xfer[u].phase # "none")
                                 /\ xfer'[u].parent = xfer[u].parent
                                 /\ xfer'[u].scope = xfer[u].scope
        BY <1>b, <1>0, <2>2
      <4> QED BY <3>1, <4>1, <4>2 DEF TreeInv, ScopesNest, Exists
    <3>5. /\ \A u \in Transfers : Denied(u)' => Denied(u)
          /\ \A u \in Transfers : xfer'[u].parent = xfer[u].parent
                                   /\ xfer'[u].scope = xfer[u].scope
      BY <1>b, <1>0, <2>2 DEF Denied, parent_denied_in_subscope
    <3>6. SiblingsApart'
      BY <3>5 DEF TreeInv, SiblingsApart
    <3>7. ReleasedHasNone'
      BY <3>1, <3>2, <3>5 DEF TreeInv, ReleasedHasNone
    <3>8. RootWide'
      BY <1>0, <3>1 DEF TreeInv, RootWide, Leases
    <3>9. LiveApart'
      <4> DEFINE Apart(a, b) == \/ lease[a].scope \cap lease[b].scope = {}
                                \/ Below(b, a) \/ Below(a, b)
      <4>1. \A a, b \in Leases \ {t} : Below(b, a) => Below(b, a)'
        BY <1>0, <3>1 DEF Below, Live, Leases
      <4>2. \A a, b \in Leases \ {t} : (a # b /\ Live(a)' /\ Live(b)') => Apart(a, b)'
        BY <3>1, <4>1 DEF TreeInv, LiveApart, Live
      <4>3. \A k \in Leases \ {t} : Live(k)' => Apart(t, k)'
        <5> SUFFICES ASSUME NEW k \in Leases \ {t}, Live(k)' PROVE Apart(t, k)'
          OBVIOUS
        <5>1. Live(k) /\ Live(l) /\ xfer[t].scope \subseteq lease[l].scope
          BY <1>b, <1>0, <3>1 DEF Live, TreeInv, ScopesNest
        <5>2. CASE k = l
          <6>1. Below(t, l)'
            BY <3>2 DEF Below, Live
          <6> QED BY <5>2, <6>1
        <5>3. CASE k # l
          <6>1. \/ lease[l].scope \cap lease[k].scope = {}
                \/ Below(k, l) \/ Below(l, k)
            BY <5>1, <5>3 DEF TreeInv, LiveApart
          <6>2. CASE lease[l].scope \cap lease[k].scope = {}
            BY <3>1, <3>2, <5>1, <6>2
          <6>3. CASE Below(k, l)
            <7>1. PICK u \in Transfers : /\ Live(u) /\ lease[u].parent = l
                                        /\ lease[k].scope \subseteq lease[u].scope
              BY <6>3 DEF Below
            <7>2. /\ u # t /\ Denied(u) /\ xfer[u].parent = l
                  /\ xfer[u].scope = lease[u].scope
              BY <1>0, <7>1, LiveScopes DEF Live
            <7>3. Denied(t)
              BY <1>0 DEF Denied, parent_denied_in_subscope
            <7>4. xfer[t].scope \cap lease[u].scope = {}
              BY <1>b, <7>2, <7>3 DEF TreeInv, SiblingsApart
            <7> QED BY <3>1, <3>2, <7>1, <7>4
          <6>4. CASE Below(l, k)
            <7>1. PICK u \in Transfers : /\ Live(u) /\ lease[u].parent = k
                                        /\ lease[l].scope \subseteq lease[u].scope
              BY <6>4 DEF Below
            <7>2. u # t /\ u \in Leases
              BY <1>0, <7>1 DEF Live, Leases
            <7>3. Below(t, k)'
              BY <3>1, <3>2, <5>1, <7>1, <7>2 DEF Below, Live
            <7> QED BY <7>3
          <6> QED BY <6>1, <6>2, <6>3, <6>4
        <5> QED BY <5>2, <5>3
      <4>4. \A a, b \in Leases : Apart(a, b)' => Apart(b, a)'
        OBVIOUS
      <4> HIDE DEF Apart
      <4>5. \A a, b \in Leases : (a # b /\ Live(a)' /\ Live(b)') => Apart(a, b)'
        BY <4>2, <4>3, <4>4
      <4> QED BY <4>5 DEF LiveApart, Apart
    <3> QED BY <3>3, <3>4, <3>6, <3>7, <3>8, <3>9 DEF TreeInv
  <2> QED BY <1>a, <2>2, <2>3, <2>4, <2>5, CallStep DEF ActivateChild
<1>2. CASE Goto("abandon") /\ UNCHANGED <<lease, xfer, tokens>>
  <2>1. GoesOn /\ job'.pc = "abandon"
    BY <1>2, GotoJob DEF PCs
  <2>2. JobOrder'
    BY <1>a, <1>0, <1>2, <2>1 DEF GoesOn, JobOrder
  <2> QED BY <1>a, <1>2, <2>1, <2>2, StillStep DEF ActivateChild, Tables
<1> QED BY <1>a, <1>b, <1>c, <1>1, <1>2 DEF ActivateChild
-----------------------------------------------------------------------------
(* The return *)

\* A child ends: its tokens go, and its phase unless the write fails.
LEMMA TerminalStep ==
  ASSUME ScopeInv, NEW t \in Transfers, ChildTerminal(t)
  PROVE  ScopeInv'
<1> USE Facts
<1>0. job.pc = "idle" /\ job' = job /\ lease' = lease
  BY DEF ChildTerminal, Free
<1>1. TokensFit'
  BY DEF ChildTerminal, invalidate_all_tokens, TokensFit, Exists
<1>2. /\ TreeInv' /\ xfer' \in [Transfers -> TransferRecords]
      /\ \A u \in Transfers : xfer[u].phase # "none" => xfer'[u].phase # "none"
  <2>1. CASE cas_transfer(t, "child_terminal")
    <3>1. "child_terminal" \in PhaseSet
      BY PhaseSetIs
    <3>2. xfer[t].child /\ Denied(t) /\ xfer[t].phase # "none"
      BY DEF ChildTerminal, TreeInv, RowsMatch, Row, Denied, parent_denied_in_subscope
    <3>3. TreeInv'
      BY <1>0, <2>1, <3>1, <3>2, TreePhase
    <3> QED BY <2>1, <3>1, <3>3, PhaseUpdate DEF Tables
  <2>2. CASE UNCHANGED xfer
    BY <1>0, <2>2, TreeStill DEF Tables
  <2> QED BY <2>1, <2>2 DEF ChildTerminal
<1>3. Tables'
  BY <1>2 DEF ChildTerminal, Tables
<1>4. JobOrder' /\ TodoBegun'
  BY <1>0, <1>2, EndOrder DEF Ends, ScopeInv
<1> QED BY <1>0, <1>1, <1>2, <1>3, <1>4, AnyStep, OtherTypes DEF ChildTerminal

\* A return begins.
LEMMA BeginReturnStep ==
  ASSUME ScopeInv, NEW t \in Transfers, BeginReturn(t)
  PROVE  ScopeInv'
<1> USE Facts
<1>1. job' \in Jobs /\ job'.pc = "return" /\ job'.t = t /\ job'.pass = NoPass
  BY DEF BeginReturn, NoJob, NoPass, Jobs, PCs, Passes
<1>2. JobOrder' /\ TodoBegun'
  BY <1>1 DEF BeginReturn, durable, JobOrder, TodoBegun, NoPass
<1>3. Tables' /\ TokensFit'
  BY DEF BeginReturn, durable, Tables, TokensFit, Exists
<1>4. TreeInv'
  BY TreeStill DEF BeginReturn, durable
<1> QED BY <1>1, <1>2, <1>3, <1>4, AnyStep, OtherTypes DEF BeginReturn, durable

\* The barrier and the release of the execution permit.
LEMMA BarrierStep ==
  ASSUME ScopeInv, ReturnBarrier \/ ReturnPermit
  PROVE  ScopeInv'
<1> USE Facts
<1>1. CASE ReturnBarrier
  <2>1. job.t \in Transfers /\ permits' \subseteq Permits /\ box' \in Boxes
    BY <1>1 DEF ReturnBarrier, JobAt, durable, Tables
  <2>2. CASE ~descendant_still_delegated(job.t) /\ Goto("ret_permit")
    <3>1. GoesOn /\ job'.pc = "ret_permit"
      BY <2>2, GotoJob DEF PCs
    <3>2. JobOrder'
      BY <1>1, <2>2, <3>1 DEF GoesOn, ReturnBarrier, JobAt, durable, ScopeInv, JobOrder,
                    descendant_still_delegated, parent_denied_in_subscope
    <3> QED BY <1>1, <2>1, <3>1, <3>2, StillStep DEF ReturnBarrier, durable
  <2>3. CASE Return \/ Keep
    BY <1>1, <2>1, <2>3, CallEnds, StillStep DEF ReturnBarrier, durable
  <2> QED BY <1>1, <2>2, <2>3 DEF ReturnBarrier
<1>2. CASE ReturnPermit
  <2>1. job.t \in Transfers /\ permits' \subseteq Permits /\ box' \in Boxes
    BY <1>2 DEF ReturnPermit, JobAt, Execution, Tables
  <2>2. CASE Goto("ret_child")
    <3>1. GoesOn /\ job'.pc = "ret_child"
      BY <2>2, GotoJob DEF PCs
    <3>2. JobOrder'
      BY <1>2, <3>1 DEF GoesOn, ReturnPermit, JobAt, ScopeInv, JobOrder,
                    descendant_still_delegated, parent_denied_in_subscope
    <3> QED BY <1>2, <2>1, <3>1, <3>2, StillStep DEF ReturnPermit
  <2>3. CASE Keep
    BY <1>2, <2>1, <2>3, CallEnds, StillStep DEF ReturnPermit
  <2> QED BY <1>2, <2>2, <2>3 DEF ReturnPermit
<1> QED BY <1>1, <1>2

\* The parent moves to Returning, and then back to what it can use.
LEMMA ParentStep ==
  ASSUME ScopeInv, ReturnParent \/ RestoreLease
  PROVE  ScopeInv'
<1> USE Facts
<1>a. PICK t \in Transfers : t = job.t
  BY DEF ReturnParent, RestoreLease, JobAt
<1>b. PICK l \in Leases : l = xfer[t].parent
  OBVIOUS
<1>0. /\ xfer[t].phase = "child_terminal" /\ lease[t].state = "released"
      /\ t \in Leases
  BY <1>a DEF ReturnParent, RestoreLease, JobAt, ScopeInv, JobOrder
<1>1. CASE ReturnParent
  <2>1. CASE /\ can_transition_to(l, "returning") /\ Goto("ret_lease")
             /\ lease' = [lease EXCEPT ![l].state = "returning"]
    <3>0. lease[l].state = "delegated"
      BY <2>1 DEF can_transition_to, LegalTransitions
    <3>1. /\ lease' \in [Leases -> LeaseRecords]
          /\ lease'[l].state = "returning" /\ lease'[l].gen = lease[l].gen
          /\ lease'[l].scope = lease[l].scope /\ lease'[l].parent = lease[l].parent
          /\ \A k \in Leases \ {l} : lease'[k] = lease[k]
      BY <2>1, StateUpdate DEF Tables, States
    <3>2. SameRows
      BY <1>1 DEF ReturnParent, SameRows
    <3>3. TreeInv'
      BY <3>0, <3>1, <3>2, TreeSame
    <3>4. Tables' /\ TokensFit'
      BY <1>1, <3>1 DEF ReturnParent, Tables, TokensFit, Exists
    <3>5. GoesOn /\ job'.pc = "ret_lease"
      BY <2>1, GotoJob DEF PCs
    <3>6. JobOrder'
      BY <1>a, <1>b, <1>0, <1>1, <3>0, <3>1, <3>5 DEF GoesOn, ReturnParent, JobOrder
    <3> QED BY <1>a, <1>1, <3>2, <3>3, <3>4, <3>5, <3>6, CallStep DEF ReturnParent, SameRows
  <2>2. CASE (Return \/ Keep) /\ UNCHANGED lease
    BY <1>a, <1>1, <2>2, CallEnds, StillStep DEF ReturnParent, Tables
  <2> QED BY <1>a, <1>b, <1>1, <2>1, <2>2 DEF ReturnParent
<1>2. CASE RestoreLease
  <2>1. CASE /\ cas_lease(l, restored_state(t), lease[l].gen + 1)
             /\ Goto("ret_phase")
    <3>0. /\ lease[l].state = "returning"
          /\ restored_state(t) \in {"active", "delegated"}
      BY <1>a, <1>b, <1>2 DEF RestoreLease, JobAt, ScopeInv, JobOrder, restored_state
    <3>1. /\ lease' \in [Leases -> LeaseRecords]
          /\ lease'[l].state = restored_state(t)
          /\ lease'[l].scope = lease[l].scope /\ lease'[l].parent = lease[l].parent
          /\ \A k \in Leases \ {l} : lease'[k] = lease[k]
          /\ TokensFit'
      BY <2>1, <3>0, CasLease DEF States
    <3>2. SameRows
      BY <1>2 DEF RestoreLease, SameRows
    <3>3. TreeInv'
      BY <3>0, <3>1, <3>2, TreeSame
    <3>4. Tables'
      BY <1>2, <3>1 DEF RestoreLease, Tables
    <3>5. GoesOn /\ job'.pc = "ret_phase"
      BY <2>1, GotoJob DEF PCs
    <3>6. JobOrder'
      BY <1>a, <1>b, <1>0, <1>2, <3>0, <3>1, <3>5 DEF GoesOn, RestoreLease, JobOrder
    <3> QED BY <1>a, <1>2, <3>1, <3>2, <3>3, <3>4, <3>5, <3>6, CallStep
            DEF RestoreLease, SameRows
  <2>2. CASE Keep /\ UNCHANGED <<lease, tokens>>
    BY <1>a, <1>2, <2>2, CallEnds, StillStep DEF RestoreLease, Tables
  <2> QED BY <1>a, <1>b, <1>2, <2>1, <2>2 DEF RestoreLease
<1> QED BY <1>1, <1>2

\* The transfer is closed in two phases.
LEMMA CloseStep ==
  ASSUME ScopeInv, RestorePhase \/ Commit
  PROVE  ScopeInv'
<1> USE Facts
<1>a. PICK t \in Transfers : t = job.t
  BY DEF RestorePhase, Commit, JobAt
<1>b. PICK l \in Leases : l = xfer[t].parent
  OBVIOUS
<1>1. CASE RestorePhase
  <2>1. CASE cas_transfer(t, "parent_restored") /\ Goto("commit")
    <3>0. xfer[t].phase = "child_terminal" /\ ~Live(t)
      BY <1>a, <1>1 DEF RestorePhase, JobAt, ScopeInv, JobOrder, Live
    <3>1. "parent_restored" \in PhaseSet
      BY PhaseSetIs
    <3>2. /\ xfer' \in [Transfers -> TransferRecords] /\ xfer'[t].phase = "parent_restored"
          /\ \A u \in Transfers \ {t} : xfer'[u] = xfer[u]
      BY <2>1, <3>1, PhaseUpdate DEF Tables
    <3>3. TreeInv'
      BY <1>1, <2>1, <3>0, <3>1, TreePhase DEF RestorePhase
    <3>4. Tables' /\ TokensFit'
      BY <1>1, <3>2 DEF RestorePhase, Tables, TokensFit, Exists
    <3>5. GoesOn /\ job'.pc = "commit"
      BY <2>1, GotoJob DEF PCs
    <3>6. JobOrder'
      BY <1>a, <3>2, <3>5 DEF GoesOn, JobOrder
    <3> QED BY <1>a, <1>1, <3>2, <3>3, <3>4, <3>5, <3>6, CallStep DEF RestorePhase
  <2>2. CASE Keep /\ UNCHANGED xfer
    BY <1>a, <1>1, <2>2, CallEnds, StillStep DEF RestorePhase, Tables
  <2> QED BY <1>a, <1>1, <2>1, <2>2 DEF RestorePhase
<1>2. CASE Commit
  <2>1. CASE /\ cas_transfer(t, "committed") /\ Return
             /\ tokens' \in {tokens, tokens \cup {<<l, lease[l].gen>>}}
    <3>0. xfer[t].phase = "parent_restored" /\ ~Live(t) /\ Exists(l)
      BY <1>a, <1>b, <1>2 DEF Commit, JobAt, ScopeInv, JobOrder, TreeInv, RowsMatch, Row,
                              ScopesNest
    <3>1. "committed" \in PhaseSet
      BY PhaseSetIs
    <3>2. /\ xfer' \in [Transfers -> TransferRecords] /\ xfer'[t].phase = "committed"
          /\ \A u \in Transfers \ {t} : xfer'[u] = xfer[u]
      BY <2>1, <3>1, PhaseUpdate DEF Tables
    <3>3. TreeInv'
      BY <1>2, <2>1, <3>0, <3>1, TreePhase DEF Commit
    <3>4. TokensFit'
      BY <1>2, <2>1, <3>0 DEF Commit, TokensFit, Exists
    <3>5. Tables' /\ Ends
      BY <1>a, <1>2, <2>1, <3>2, CallEnds DEF Commit, Tables
    <3> QED BY <1>a, <1>2, <3>2, <3>3, <3>4, <3>5, CallStep DEF Commit
  <2>2. CASE Keep /\ UNCHANGED <<xfer, tokens>>
    BY <1>a, <1>2, <2>2, CallEnds, StillStep DEF Commit, Tables
  <2> QED BY <1>a, <1>b, <1>2, <2>1, <2>2 DEF Commit
<1> QED BY <1>1, <1>2
\* The child's lease ends. What lay below it would lie below one of its own
\* children, and the barrier has seen that there is none.
LEMMA ReturnChildStep ==
  ASSUME ScopeInv, ReturnChild
  PROVE  ScopeInv'
<1> USE Facts
<1>a. PICK t \in Transfers : t = job.t
  BY DEF ReturnChild, JobAt
<1>0. /\ t \in Leases /\ xfer[t].phase = "child_terminal"
      /\ ~descendant_still_delegated(t)
  BY <1>a DEF ReturnChild, JobAt, ScopeInv, JobOrder
<1>1. CASE /\ can_transition_to(t, "released") /\ Goto("ret_parent")
           /\ lease' = [lease EXCEPT ![t].state = "released", ![t].gen = @ + 1]
  <2>0. Live(t) /\ lease[t].gen + 1 \in Nat
    BY <1>0, <1>1 DEF can_transition_to, LegalTransitions, Live
  <2>1. /\ lease' \in [Leases -> LeaseRecords] /\ lease'[t].state = "released"
        /\ lease'[t].parent = lease[t].parent /\ lease'[t].scope = lease[t].scope
        /\ \A k \in Leases \ {t} : lease'[k] = lease[k]
    <3>1. lease' = [lease EXCEPT ![t].state = "released", ![t].gen = lease[t].gen + 1]
      BY <1>0, <1>1 DEF Tables, LeaseRecords
    <3>2. "released" \in States /\ lease \in [Leases -> LeaseRecords]
      BY DEF States, Tables
    <3>3. PICK g \in Nat : g = lease[t].gen + 1
      BY <2>0
    <3> QED BY <1>0, <3>1, <3>2, <3>3, LeaseUpdate
  <2>2. TokensFit'
    BY <1>a, <2>1 DEF ReturnChild, invalidate_all_tokens, TokensFit, Exists
  <2>3. xfer' = xfer
    BY DEF ReturnChild
  <2>4. TreeInv'
    <3>1. RowsMatch'
      BY <1>0, <2>0, <2>1, <2>3 DEF TreeInv, RowsMatch, Row, Exists, Live
    <3>2. ScopesNest'
      BY <2>0, <2>1, <2>3 DEF TreeInv, ScopesNest, Exists, Live
    <3>3. SiblingsApart'
      BY <2>3 DEF TreeInv, SiblingsApart, Denied, parent_denied_in_subscope
    <3>4. ReleasedHasNone'
      BY <1>0, <2>1, <2>3 DEF TreeInv, ReleasedHasNone, Denied, parent_denied_in_subscope,
                              descendant_still_delegated
    <3>5. RootWide'
      BY <2>1 DEF TreeInv, RootWide, Leases
    <3>6. LiveApart'
      <4> DEFINE Apart(a, b) == \/ lease[a].scope \cap lease[b].scope = {}
                                \/ Below(b, a) \/ Below(a, b)
      <4>1. \A k \in Leases \ {t} : (Live(k) /\ lease[k].scope \subseteq lease[t].scope) => FALSE
        <5> SUFFICES ASSUME NEW k \in Leases \ {t}, Live(k),
                            lease[k].scope \subseteq lease[t].scope
                     PROVE  FALSE
          OBVIOUS
        <5>1. k # Root
          <6>1. /\ lease[t].scope \subseteq Files /\ lease[t].parent \in Leases
                /\ lease[t].scope \subseteq lease[lease[t].parent].scope
                /\ lease[t].scope # lease[lease[t].parent].scope
            BY <2>0, LiveScopes
          <6>2. lease[lease[t].parent].scope \subseteq Files
            BY <6>1 DEF Tables, LeaseRecords
          <6> QED BY <6>1, <6>2 DEF TreeInv, RootWide
        <5>2. k \in Transfers /\ lease[k].scope # {}
          BY <5>1, LiveScopes DEF Leases
        <5>3. lease[t].scope \cap lease[k].scope # {}
          BY <5>2
        <5>4. CASE Below(k, t)
          <6>1. PICK u \in Transfers : Live(u) /\ lease[u].parent = t
            BY <5>4 DEF Below
          <6> QED BY <1>0, <6>1, LiveScopes DEF descendant_still_delegated, Denied
        <5>5. CASE Below(t, k)
          <6>1. PICK u \in Transfers : /\ Live(u) /\ lease[u].parent = k
                                      /\ lease[t].scope \subseteq lease[u].scope
            BY <5>5 DEF Below
          <6>2. lease[u].scope \subseteq lease[k].scope /\ lease[u].scope # lease[k].scope
            BY <6>1, LiveScopes
          <6> QED BY <6>1, <6>2
        <5> QED BY <1>0, <2>0, <5>3, <5>4, <5>5 DEF TreeInv, LiveApart
      <4>2. \A a, b \in Leases \ {t} : (Live(b) /\ Below(b, a)) => Below(b, a)'
        <5> SUFFICES ASSUME NEW a \in Leases \ {t}, NEW b \in Leases \ {t},
                            Live(b), Below(b, a)
                     PROVE  Below(b, a)'
          OBVIOUS
        <5>1. PICK u \in Transfers : /\ Live(u) /\ lease[u].parent = a
                                    /\ lease[b].scope \subseteq lease[u].scope
          BY DEF Below
        <5>2. u \in Leases \ {t}
          BY <4>1, <5>1
        <5> QED BY <2>1, <5>1, <5>2 DEF Below, Live
      <4>3. \A a, b \in Leases : Live(a)' => a \in Leases \ {t} /\ Live(a)
        BY <2>1 DEF Live
      <4> QED BY <2>1, <4>2, <4>3 DEF TreeInv, LiveApart
    <3> QED BY <3>1, <3>2, <3>3, <3>4, <3>5, <3>6 DEF TreeInv
  <2>5. GoesOn /\ job'.pc = "ret_parent"
    BY <1>1, GotoJob DEF PCs
  <2>6. JobOrder'
    BY <1>a, <1>0, <2>1, <2>3, <2>5 DEF GoesOn, JobOrder
  <2>7. Tables'
    BY <2>1 DEF ReturnChild, Tables
  <2> QED BY <1>a, <2>2, <2>3, <2>4, <2>5, <2>6, <2>7, CallStep DEF ReturnChild
<1>2. CASE (Return \/ Keep) /\ UNCHANGED lease
  <2>1. Tables' /\ TokensFit' /\ Ends
    BY <1>a, <1>2, CallEnds DEF ReturnChild, invalidate_all_tokens, Tables, TokensFit, Exists
  <2>2. TreeInv'
    BY <1>2, TreeStill DEF ReturnChild
  <2> QED BY <1>a, <2>1, <2>2, CallStep DEF ReturnChild
<1> QED BY <1>a, <1>1, <1>2 DEF ReturnChild
-----------------------------------------------------------------------------
(* Recovery *)

\* One transfer of the pass.
LEMMA RecoverStep ==
  ASSUME ScopeInv, NEW t \in Transfers, RecoverOne(t)
  PROVE  ScopeInv'
<1> USE Facts
<1>a. job.pass.todo \subseteq Transfers /\ job.pass.todo # {} /\ job.pc = "recover"
      /\ job.pass.kept \subseteq Transfers
  BY DEF RecoverOne, Jobs, Passes, JobAt
<1>b. t \in job.pass.todo
  BY DEF RecoverOne
<1>0. xfer[t].phase # "none" /\ t \in Leases
  BY <1>b DEF ScopeInv, TodoBegun
<1> DEFINE on(pc) == job' = [job EXCEPT !.pc = pc, !.t = t, !.pass.todo = @ \ {t}]
           keep == job' = [job EXCEPT !.pass.todo = @ \ {t}, !.pass.kept = @ \cup {t}]
<1>1. ASSUME NEW pc \in PCs, on(pc)
      PROVE  /\ job' \in Jobs /\ job'.pc = pc /\ job'.t = t
             /\ job'.pass.todo \subseteq job.pass.todo
  <2>1. job' = [pc |-> pc, t |-> t, pass |-> [job.pass EXCEPT !.todo = @ \ {t}]]
    BY <1>1 DEF Jobs
  <2>2. /\ [job.pass EXCEPT !.todo = @ \ {t}] \in Passes
        /\ [job.pass EXCEPT !.todo = @ \ {t}].todo = job.pass.todo \ {t}
    BY DEF Jobs, Passes
  <2> QED BY <1>0, <2>1, <2>2 DEF Jobs
<1>2. ASSUME keep
      PROVE  /\ job' \in Jobs /\ job'.pc = "recover"
             /\ job'.pass.todo \subseteq job.pass.todo
  <2>1. job' = [pc |-> job.pc, t |-> job.t,
                pass |-> [job.pass EXCEPT !.todo = @ \ {t}, !.kept = @ \cup {t}]]
    BY <1>2 DEF Jobs
  <2>2. /\ [job.pass EXCEPT !.todo = @ \ {t}, !.kept = @ \cup {t}] \in Passes
        /\ [job.pass EXCEPT !.todo = @ \ {t}, !.kept = @ \cup {t}].todo = job.pass.todo \ {t}
    BY DEF Jobs, Passes
  <2> QED BY <1>a, <2>1, <2>2 DEF Jobs
<1>3. CASE xfer[t].phase = "child_activated" /\ invalidate_all_tokens(t)
           /\ cas_transfer(t, "child_terminal") /\ on("return")
  <2>1. "child_terminal" \in PhaseSet /\ "return" \in PCs
    BY PhaseSetIs DEF PCs
  <2>2. /\ xfer' \in [Transfers -> TransferRecords] /\ xfer'[t].phase = "child_terminal"
        /\ \A u \in Transfers \ {t} : xfer'[u] = xfer[u]
    BY <1>3, <2>1, PhaseUpdate DEF Tables
  <2>3. TreeInv'
    <3>1. xfer[t].child /\ Denied(t)
      BY <1>3 DEF TreeInv, RowsMatch, Row, Denied, parent_denied_in_subscope
    <3> QED BY <1>0, <1>3, <2>1, <3>1, TreePhase DEF RecoverOne
  <2>4. Tables' /\ TokensFit'
    BY <1>3, <2>2 DEF RecoverOne, Tables, TokensFit, invalidate_all_tokens, Exists
  <2>5. /\ job' \in Jobs /\ job'.pc = "return" /\ job'.t = t
        /\ job'.pass.todo \subseteq job.pass.todo
    BY <1>1, <1>3, <2>1
  <2>6. JobOrder' /\ TodoBegun'
    BY <1>a, <2>2, <2>5 DEF JobOrder, TodoBegun, ScopeInv
  <2> QED BY <2>3, <2>4, <2>5, <2>6, AnyStep, OtherTypes DEF RecoverOne
<1>4. CASE /\ UNCHANGED <<xfer, tokens>>
           /\ \/ xfer[t].phase \in {"prepared", "parent_excluded"} /\ on("drop")
              \/ xfer[t].phase \in {"prepared", "parent_excluded"} /\ on("abandon")
              \/ keep
              \/ xfer[t].phase = "child_terminal" /\ on("return")
              \/ xfer[t].phase = "parent_restored" /\ on("commit")
  <2>1. TreeInv'
    BY <1>4, TreeStill DEF RecoverOne
  <2>2. Tables' /\ TokensFit'
    BY <1>4 DEF RecoverOne, Tables, TokensFit, Exists
  <2>3. /\ job' \in Jobs /\ job'.pass.todo \subseteq job.pass.todo
        /\ \/ job'.pc = "recover"
           \/ job'.t = t /\ job'.pc \in {"drop", "abandon"}
           \/ job'.t = t /\ job'.pc = "return" /\ xfer[t].phase = "child_terminal"
           \/ job'.t = t /\ job'.pc = "commit" /\ xfer[t].phase = "parent_restored"
    <3>1. {"drop", "abandon", "return", "commit"} \subseteq PCs
      BY DEF PCs
    <3> HIDE DEF on, keep
    <3> QED BY <1>1, <1>2, <1>4, <3>1
  <2>4. JobOrder' /\ TodoBegun'
    BY <1>a, <1>0, <1>4, <2>3 DEF JobOrder, TodoBegun, ScopeInv
  <2> QED BY <2>1, <2>2, <2>3, <2>4, AnyStep, OtherTypes DEF RecoverOne
<1> QED BY <1>3, <1>4 DEF RecoverOne

\* The end of a pass.
LEMMA EndRecoveryStep ==
  ASSUME ScopeInv, EndRecovery
  PROVE  ScopeInv'
<1> USE Facts
<1>1. job' \in Jobs /\ job'.pc = "idle" /\ job'.pass.todo = {}
  BY DEF EndRecovery, NoJob, NoPass, Jobs, PCs, Passes, Leases
<1>2. JobOrder' /\ TodoBegun'
  BY <1>1 DEF JobOrder, TodoBegun
<1>3. Tables' /\ TokensFit'
  BY DEF EndRecovery, durable, Tables, TokensFit, Exists
<1>4. TreeInv'
  BY TreeStill DEF EndRecovery, durable
<1> QED BY <1>1, <1>2, <1>3, <1>4, AnyStep, OtherTypes DEF EndRecovery, durable

\* A crash anywhere.
LEMMA CrashStep ==
  ASSUME ScopeInv, Crash
  PROVE  ScopeInv'
<1> USE Facts
<1>1. job' \in Jobs /\ job'.pc = "recover" /\ job'.pass.todo = Open
  BY DEF Crash, Jobs, PCs, Passes, Open, Leases
<1>2. JobOrder' /\ TodoBegun'
  BY <1>1 DEF JobOrder, TodoBegun, Open, Crash, durable
<1>3. Tables' /\ TokensFit'
  BY DEF Crash, durable, Tables, TokensFit
<1>4. TreeInv'
  BY TreeStill DEF Crash, durable
<1>5. mut' \in Mutations
  BY DEF Crash, Mutations, NoMutation, Leases
<1>6. crashes' \in 0..MaxCrashes
  BY OtherTypes, BoundsAssumption DEF Crash
<1>7. deleting' \in BOOLEAN /\ closing' \in BOOLEAN
  BY OtherTypes DEF Crash, durable
<1> QED BY <1>1, <1>2, <1>3, <1>4, <1>5, <1>6, <1>7, AnyStep
-----------------------------------------------------------------------------
(* Mutations, exits, deletion, shutdown *)

\* What does not need `serial`, or holds it for one step only.
LEMMA BesideStep ==
  ASSUME ScopeInv,
         \/ \E t \in Transfers : Exit(t)
         \/ BeginDeletion \/ BeginShutdown
         \/ \E m \in Mutators :
              \/ \E l \in Leases, T \in Targets : AcquirePermit(m, l, T)
              \/ Revalidate(m) \/ Mutate(m) \/ ReleasePermit(m)
  PROVE  ScopeInv'
<1> USE Facts, OtherTypes
<1>1. ASSUME NEW t \in Transfers, Exit(t) PROVE ScopeInv'
  <2>1. box' \in Boxes
    BY <1>1 DEF Exit, Tables, Boxes
  <2> QED BY <1>1, <2>1, QuietStep DEF Exit, durable, Tables
<1>2. CASE BeginDeletion
  BY <1>2, QuietStep DEF BeginDeletion, Tables
<1>3. CASE BeginShutdown
  BY <1>3, QuietStep DEF BeginShutdown, durable, Tables
<1>4. ASSUME NEW m \in Mutators, NEW l \in Leases, NEW T \in Targets, AcquirePermit(m, l, T)
      PROVE  ScopeInv'
  <2>1. T \subseteq Files
    BY ScopesAssumption
  <2>2. [kind |-> "mutation", id |-> m, root |-> T] \in Permits
    BY <2>1 DEF Permits
  <2>3. permits' \subseteq Permits
    BY <1>4, <2>2 DEF AcquirePermit, Tables
  <2>4. mut' \in Mutations
    BY <1>4, <2>1 DEF AcquirePermit, Mutations
  <2> QED BY <1>4, <2>3, <2>4, QuietStep DEF AcquirePermit, Tables
<1>5. ASSUME NEW m \in Mutators, Revalidate(m) PROVE ScopeInv'
  <2>1. mut' \in Mutations
    BY <1>5 DEF Revalidate, Mutations
  <2> QED BY <1>5, <2>1, QuietStep DEF Revalidate, durable, Tables
<1>6. ASSUME NEW m \in Mutators, Mutate(m) PROVE ScopeInv'
  <2>1. mut' \in Mutations
    BY <1>6 DEF Mutate, Mutations
  <2> QED BY <1>6, <2>1, QuietStep DEF Mutate, durable, Tables
<1>7. ASSUME NEW m \in Mutators, ReleasePermit(m) PROVE ScopeInv'
  <2>1. mut' \in Mutations
    BY <1>7 DEF ReleasePermit, Mutations, NoMutation, Leases
  <2>2. permits' \subseteq Permits
    BY <1>7 DEF ReleasePermit, Tables
  <2> QED BY <1>7, <2>1, <2>2, QuietStep DEF ReleasePermit, Tables
<1> QED BY <1>1, <1>2, <1>3, <1>4, <1>5, <1>6, <1>7

-----------------------------------------------------------------------------
(* The theorems *)

\* Every step of the coordinator, of recovery and of the mutations keeps the
\* invariant.
LEMMA ScopeNext == ScopeInv /\ [Next]_vars => ScopeInv'
<1> SUFFICES ASSUME ScopeInv, [Next]_vars PROVE ScopeInv'
  OBVIOUS
<1>1. ASSUME NEW t \in Transfers, NEW l \in Leases, NEW S \in Scopes, Prepare(t, l, S)
      PROVE  ScopeInv'
  BY <1>1, PrepareStep
<1>2. CASE TransferStep
  BY <1>2, BeforeExclusion, AttachStep, ExcludeStep, ActivateStep, AbandonStep, UnwindStep
     DEF TransferStep
<1>3. ASSUME NEW t \in Transfers, ChildTerminal(t) \/ BeginReturn(t)
      PROVE  ScopeInv'
  BY <1>3, TerminalStep, BeginReturnStep
<1>4. CASE ReturnStep
  BY <1>4, BarrierStep, ReturnChildStep, ParentStep, CloseStep DEF ReturnStep
<1>5. CASE (\E t \in Transfers : RecoverOne(t)) \/ EndRecovery \/ Crash
  BY <1>5, RecoverStep, EndRecoveryStep, CrashStep
<1>6. CASE \/ \E t \in Transfers : Exit(t)
           \/ BeginDeletion \/ BeginShutdown
           \/ \E m \in Mutators :
                \/ \E l \in Leases, T \in Targets : AcquirePermit(m, l, T)
                \/ Revalidate(m) \/ Mutate(m) \/ ReleasePermit(m)
  BY <1>6, BesideStep
<1>7. CASE UNCHANGED vars
  <2>1. /\ UNCHANGED <<lease, xfer, tokens, job>> /\ permits' = permits /\ box' = box
        /\ UNCHANGED <<mut, deleting, closing, crashes>>
    BY <1>7 DEF vars, durable
  <2> QED BY <2>1, Facts, OtherTypes, QuietStep DEF Tables
<1> QED BY <1>1, <1>2, <1>3, <1>4, <1>5, <1>6, <1>7 DEF Next

\* Two live leases share no effective authority: what lies below a child is
\* excluded from the parent while the child lives.
LEMMA InvOneOwner == ScopeInv => OneOwner
<1> SUFFICES ASSUME ScopeInv, NEW l \in Leases, NEW k \in Leases, l # k, Live(l), Live(k)
             PROVE  effective_authority(l) \cap effective_authority(k) = {}
  BY DEF OneOwner
<1>1. \A a, b \in Leases : Below(b, a) => effective_authority(a) \cap lease[b].scope = {}
  <2> SUFFICES ASSUME NEW a \in Leases, NEW b \in Leases, Below(b, a)
               PROVE  effective_authority(a) \cap lease[b].scope = {}
    OBVIOUS
  <2>1. PICK t \in Transfers : /\ Live(t) /\ lease[t].parent = a
                              /\ lease[b].scope \subseteq lease[t].scope
    BY DEF Below
  <2>2. Denied(t) /\ xfer[t].parent = a /\ xfer[t].scope = lease[t].scope
    BY <2>1, LiveScopes
  <2>3. lease[t].scope \in exclusions(a)
    BY <2>2 DEF exclusions, Denied
  <2> QED BY <2>1, <2>3 DEF effective_authority
<1>2. /\ effective_authority(l) \subseteq lease[l].scope
      /\ effective_authority(k) \subseteq lease[k].scope
  BY DEF effective_authority
<1>3. lease[l].scope \cap lease[k].scope = {} \/ Below(k, l) \/ Below(l, k)
  BY DEF ScopeInv, TreeInv, LiveApart
<1> QED BY <1>1, <1>2, <1>3

\* The coordinator's tables and its tokens keep their types, and a live token is
\* one of its lease's generation, whatever fails and whenever the daemon dies.
THEOREM TypeCorrect == Spec => []TypeOK
<1>1. ScopeInv => TypeOK
  BY DEF ScopeInv, WideType
<1> QED BY <1>1, ScopeInit, ScopeNext, PTL DEF Spec

\* "Effective authorities are pairwise disjoint": no file is ever in the effective
\* authority of two live leases, for every workspace, every choice of scopes, any
\* number of transfers and crashes, and whichever calls fail.
THEOREM AuthorityIsExclusive == Spec => []OneOwner
BY ScopeInit, ScopeNext, InvOneOwner, PTL DEF Spec
-----------------------------------------------------------------------------
(* What deletion and shutdown do not look at *)

\* Calls that need not look at the containment any more.
Settled == job'.pc \notin {"drain", "permit", "create", "attach", "release", "drop",
                          "ret_permit"}

\* A step that leaves the containments and the execution permits alone.
LEMMA CoverSame ==
  ASSUME PermitsCover, box' = box, Settled \/ job' = job,
         \A t \in Transfers : Execution(t) \subseteq Execution(t)',
         \A t \in Transfers : xfer[t].phase # "none" => xfer'[t].phase # "none",
         job.pc \notin {"idle", "recover"} => job.t \in Transfers
  PROVE  PermitsCover'
<1>1. \A t \in Transfers : Populated(t)' => Execution(t)' # {}
  BY DEF PermitsCover, Populated
<1>2. \A t \in Transfers : xfer'[t].phase = "none" => box'[t] = "none"
  BY DEF PermitsCover
<1>3. CASE Settled
  BY <1>1, <1>2, <1>3 DEF PermitsCover, Settled
<1>4. CASE job' = job
  <2>1. job.pc \in {"drain", "permit", "create"} => box'[job'.t] = "none"
    BY <1>4 DEF PermitsCover
  <2>2. job.pc \in {"create", "attach", "release"} => Execution(job.t)' # {}
    BY <1>4 DEF PermitsCover, Execution
  <2>3. job.pc \in {"drop", "ret_permit"} => ~Populated(job.t)'
    BY <1>4 DEF PermitsCover, Populated
  <2> QED BY <1>1, <1>2, <1>4, <2>1, <2>2, <2>3 DEF PermitsCover
<1> QED BY <1>3, <1>4
\* A transfer that has begun is never taken back to nothing.
Onward == \A t \in Transfers : xfer[t].phase # "none" => xfer'[t].phase # "none"

\* A new phase leads onward.
LEMMA CasOnward ==
  ASSUME ScopeInv, NEW t \in Transfers, NEW p \in PhaseSet \ {"none"}, cas_transfer(t, p)
  PROVE  Onward
BY Facts, PhaseUpdate DEF Onward, Tables

\* The steps of the job that leave containments and permits alone.
LEMMA CoverJob ==
  ASSUME ScopeInv, PermitsCover,
         \/ ExcludeParent \/ ActivateChild \/ Abandon \/ Unwind
         \/ ReturnChild \/ ReturnParent \/ RestoreLease \/ RestorePhase \/ Commit
         \/ EndRecovery \/ Crash
         \/ \E t \in Transfers : ChildTerminal(t) \/ BeginReturn(t)
  PROVE  PermitsCover'
<1> USE Facts
<1>0. /\ {"parent_excluded", "committed", "child_terminal", "parent_restored"}
           \subseteq PhaseSet \ {"none"}
      /\ {"activate", "abandon", "unwind", "ret_parent", "ret_lease", "ret_phase",
          "commit"} \subseteq PCs
  BY PhaseSetIs DEF PCs
<1>1. /\ \A pc \in {"activate", "abandon", "unwind", "ret_parent", "ret_lease",
                    "ret_phase", "commit"} : Goto(pc) => Settled
      /\ (job.t \in Transfers /\ (Return \/ Keep)) => Settled
  <2>1. \A pc \in {"activate", "abandon", "unwind", "ret_parent", "ret_lease",
                   "ret_phase", "commit"} : Goto(pc) => Settled
    BY <1>0, GotoJob DEF Settled
  <2>2. (job.t \in Transfers /\ (Return \/ Keep)) => Settled
    BY CallEnds DEF Settled, Ends
  <2> QED BY <2>1, <2>2
<1>2. /\ box' = box /\ permits' = permits /\ (Settled \/ job' = job)
  <2>1. CASE ExcludeParent
    BY <1>1, <2>1 DEF ExcludeParent
  <2>2. CASE ActivateChild
    BY <1>1, <2>2 DEF ActivateChild, JobAt
  <2>3. CASE Abandon
    BY <1>1, <2>3 DEF Abandon, JobAt
  <2>4. CASE Unwind
    BY <1>1, <2>4 DEF Unwind, JobAt
  <2>5. CASE ReturnChild
    BY <1>1, <2>5 DEF ReturnChild, JobAt
  <2>6. CASE ReturnParent
    BY <1>1, <2>6 DEF ReturnParent, JobAt
  <2>7. CASE RestoreLease
    BY <1>1, <2>7 DEF RestoreLease, JobAt
  <2>8. CASE RestorePhase
    BY <1>1, <2>8 DEF RestorePhase, JobAt
  <2>9. CASE Commit
    BY <1>1, <2>9 DEF Commit, JobAt
  <2>10. CASE EndRecovery
    BY <2>10 DEF EndRecovery, durable, Settled, NoJob
  <2>11. CASE Crash
    BY <2>11 DEF Crash, durable, Settled
  <2>12. CASE \E t \in Transfers : ChildTerminal(t) \/ BeginReturn(t)
    BY <2>12 DEF ChildTerminal, BeginReturn, durable, Settled, NoJob
  <2> QED BY <2>1, <2>2, <2>3, <2>4, <2>5, <2>6, <2>7, <2>8, <2>9, <2>10, <2>11, <2>12
<1>3. Onward
  <2>1. CASE ExcludeParent
    BY <1>0, <2>1, CasOnward DEF ExcludeParent, JobAt, Onward
  <2>2. CASE ActivateChild
    <3>1. CASE xfer' = [xfer EXCEPT ![job.t].phase = "child_activated", ![job.t].child = TRUE]
      <4> DEFINE X == [xfer EXCEPT ![job.t].phase = "child_activated"]
      <4>1. job.t \in Transfers
        BY <2>2 DEF ActivateChild, JobAt
      <4>2. /\ X[job.t].phase = "child_activated" /\ X \in [Transfers -> TransferRecords]
            /\ \A u \in Transfers \ {job.t} : X[u] = xfer[u]
        BY <4>1, PhaseSetIs DEF Tables, TransferRecords
      <4>3. xfer' = [X EXCEPT ![job.t].child = TRUE]
        BY <3>1
      <4> HIDE DEF X
      <4> QED BY <4>1, <4>2, <4>3 DEF Onward, TransferRecords
    <3> QED BY <2>2, <3>1 DEF ActivateChild, Onward
  <2>3. CASE Abandon
    BY <1>0, <2>3, CasOnward DEF Abandon, JobAt, Onward
  <2>4. CASE Unwind \/ ReturnChild \/ ReturnParent \/ RestoreLease
    BY <2>4 DEF Unwind, ReturnChild, ReturnParent, RestoreLease, Onward
  <2>5. CASE RestorePhase
    BY <1>0, <2>5, CasOnward DEF RestorePhase, JobAt, Onward
  <2>6. CASE Commit
    BY <1>0, <2>6, CasOnward DEF Commit, JobAt, Onward
  <2>7. CASE EndRecovery \/ Crash
    BY <2>7 DEF EndRecovery, Crash, durable, Onward
  <2>8. ASSUME NEW t \in Transfers, ChildTerminal(t) \/ BeginReturn(t) PROVE Onward
    BY <1>0, <2>8, CasOnward DEF ChildTerminal, BeginReturn, durable, Onward
  <2> QED BY <2>1, <2>2, <2>3, <2>4, <2>5, <2>6, <2>7, <2>8
<1> QED BY <1>2, <1>3, CoverSame DEF Onward, Execution

\* The steps that touch a containment or an execution permit, when a containment
\* that is told to terminate does.
LEMMA CoverBox ==
  ASSUME ScopeInv, PermitsCover, "terminate" \notin Faults,
         \/ Drain \/ ReservePermit \/ CreateContainment \/ AttachOwnership
         \/ ReleaseUserCode \/ DropPermit \/ ReturnBarrier \/ ReturnPermit
  PROVE  PermitsCover'
<1> USE Facts
<1>a. PICK t \in Transfers : t = job.t
  BY DEF Drain, ReservePermit, CreateContainment, AttachOwnership, ReleaseUserCode,
         DropPermit, ReturnBarrier, ReturnPermit, JobAt
<1>b. {"permit", "create", "attach", "release", "drop", "exclude", "abandon", "ret_permit",
       "ret_child"} \subseteq PCs
  BY DEF PCs
<1>1. CASE Drain
  <2>1. GoesOn /\ job'.pc \in {"permit", "abandon"}
    BY <1>b, <1>1, GotoJob DEF Drain
  <2> QED BY <1>a, <1>1, <2>1 DEF Drain, JobAt, durable, GoesOn, PermitsCover, Populated,
                                Execution
<1>2. CASE ReservePermit
  <2>1. GoesOn /\ job'.pc \in {"create", "abandon"}
        /\ (job'.pc = "create" => \E R : [kind |-> "execution", id |-> t, root |-> R] \in permits')
    BY <1>a, <1>b, <1>2, GotoJob DEF ReservePermit
  <2>2. \A u \in Transfers : Execution(u) \subseteq Execution(u)'
    BY <1>2 DEF ReservePermit, Execution
  <2>3. ASSUME job'.pc = "create" PROVE Execution(t)' # {}
    <3>1. PICK R : [kind |-> "execution", id |-> t, root |-> R] \in permits'
      BY <2>1, <2>3
    <3>2. [kind |-> "execution", id |-> t, root |-> R] \in Execution(t)'
      BY <3>1 DEF Execution
    <3> QED BY <3>2
  <2> QED BY <1>a, <1>2, <2>1, <2>2, <2>3 DEF ReservePermit, JobAt, GoesOn, PermitsCover, Populated
<1>3. CASE CreateContainment
  <2>1. GoesOn
        /\ \/ job'.pc = "attach" /\ box' = [box EXCEPT ![t] = "populated"]
           \/ job'.pc = "drop" /\ box' = box
    BY <1>a, <1>b, <1>3, GotoJob DEF CreateContainment
  <2>2. /\ xfer' = xfer /\ permits' = permits /\ Execution(t) # {} /\ box[t] = "none"
        /\ xfer[t].phase # "none" /\ job'.t = t
    BY <1>a, <1>3, <2>1 DEF CreateContainment, JobAt, durable, PermitsCover, ScopeInv, JobOrder,
                            GoesOn
  <2>3. \A u \in Transfers : Execution(u)' = Execution(u)
    BY <2>2 DEF Execution
  <2>4. \A u \in Transfers : u # t => box'[u] = box[u]
    BY <2>1 DEF Tables, Boxes
  <2>5. job'.pc = "drop" => ~Populated(t)'
    BY <2>1, <2>2 DEF Populated
  <2> QED BY <2>1, <2>2, <2>3, <2>4, <2>5 DEF PermitsCover, Populated
<1>4. CASE AttachOwnership \/ ReleaseUserCode
  <2>1. /\ GoesOn /\ permits' = permits
        /\ \/ job'.pc \in {"release", "exclude"} /\ box' = box
           \/ job'.pc = "drop" /\ box' = [box EXCEPT ![t] = "empty"]
        /\ job.pc \in {"attach", "release"}
    BY <1>a, <1>b, <1>4, GotoJob DEF AttachOwnership, ReleaseUserCode, terminate, durable, JobAt
  <2>2. /\ xfer[t].phase = "prepared" /\ Execution(t) # {} /\ job'.t = t
    BY <1>a, <2>1 DEF PermitsCover, ScopeInv, JobOrder, GoesOn
  <2>3. \A u \in Transfers : xfer'[u].phase = xfer[u].phase
    <3>1. CASE xfer' = [xfer EXCEPT ![t].attached = TRUE]
      BY <3>1 DEF Tables, TransferRecords
    <3>2. CASE UNCHANGED xfer
      BY <3>2
    <3> QED BY <1>a, <1>4, <3>1, <3>2 DEF AttachOwnership, ReleaseUserCode, durable
  <2>4. \A u \in Transfers : Execution(u)' = Execution(u)
    BY <2>1 DEF Execution
  <2>5. /\ \A u \in Transfers : u # t => box'[u] = box[u]
        /\ job'.pc = "drop" => box'[t] = "empty"
    BY <2>1 DEF Tables, Boxes
  <2> QED BY <2>1, <2>2, <2>3, <2>4, <2>5 DEF PermitsCover, Populated
<1>5. CASE DropPermit \/ ReturnPermit
  <2>1. /\ job.pc \in {"drop", "ret_permit"} /\ box' = box /\ xfer' = xfer
        /\ (permits' = permits \/ permits' = permits \ Execution(t))
    BY <1>a, <1>5 DEF DropPermit, ReturnPermit, JobAt
  <2>2. Settled
    BY <1>a, <1>b, <1>5, GotoJob, CallEnds DEF DropPermit, ReturnPermit, Settled, Ends
  <2>3. ~Populated(t)
    BY <1>a, <2>1 DEF PermitsCover
  <2>4. \A u \in Transfers \ {t} : Execution(u)' = Execution(u)
    BY <2>1 DEF Execution
  <2> QED BY <2>1, <2>2, <2>3, <2>4 DEF PermitsCover, Populated, Settled
<1>6. CASE ReturnBarrier
  <2>1. UNCHANGED <<xfer, permits, box>>
    BY <1>6 DEF ReturnBarrier, durable
  <2>2. Settled \/ (job'.pc = "ret_permit" /\ job'.t = t /\ box[t] = "empty")
    BY <1>a, <1>b, <1>6, GotoJob, CallEnds DEF ReturnBarrier, Settled, Ends, GoesOn, ProvenEmpty
  <2> QED BY <2>1, <2>2 DEF PermitsCover, Populated, Settled, Execution
<1> QED BY <1>1, <1>2, <1>3, <1>4, <1>5, <1>6
\* Recovery drops the permit of a containment it has seen to be gone.
LEMMA CoverRecover ==
  ASSUME ScopeInv, PermitsCover, NEW t \in Transfers, RecoverOne(t)
  PROVE  PermitsCover'
<1> USE Facts
<1>a. job.pass.todo \subseteq Transfers /\ job.pass.todo # {} /\ job.pc = "recover"
  BY DEF RecoverOne, Jobs, Passes, JobAt
<1>1. UNCHANGED <<box, permits>>
  BY DEF RecoverOne
<1>2. Onward
  BY PhaseSetIs, CasOnward DEF RecoverOne, Onward
<1>3. \/ Settled
      \/ job'.pc = "drop" /\ job'.t = t /\ box[t] = "empty"
  BY <1>a DEF RecoverOne, Settled, MayRetire, ProvenEmpty, Jobs
<1>4. CASE Settled
  BY <1>1, <1>2, <1>4, CoverSame, <1>a DEF Onward, Execution
<1>5. CASE job'.pc = "drop" /\ job'.t = t /\ box[t] = "empty"
  BY <1>1, <1>2, <1>5 DEF PermitsCover, Populated, Execution, Onward
<1> QED BY <1>3, <1>4, <1>5

\* The rest: a new transfer has no containment yet, and exits and mutations take
\* no execution permit away.
LEMMA CoverBeside ==
  ASSUME ScopeInv, PermitsCover,
         \/ \E t \in Transfers, l \in Leases, S \in Scopes : Prepare(t, l, S)
         \/ \E t \in Transfers : Exit(t)
         \/ BeginDeletion \/ BeginShutdown
         \/ \E m \in Mutators :
              \/ \E l \in Leases, T \in Targets : AcquirePermit(m, l, T)
              \/ Revalidate(m) \/ Mutate(m) \/ ReleasePermit(m)
  PROVE  PermitsCover'
<1> USE Facts
<1>1. ASSUME NEW t \in Transfers, NEW l \in Leases, NEW S \in Scopes, Prepare(t, l, S)
      PROVE  PermitsCover'
  <2>1. /\ UNCHANGED <<box, permits>> /\ job'.pc = "drain" /\ job'.t = t
        /\ xfer[t].phase = "none"
    BY <1>1 DEF Prepare, NoJob
  <2>2. \A u \in Transfers : xfer'[u].phase = "none" => xfer[u].phase = "none"
    BY <1>1, <2>1 DEF Prepare, Tables
  <2> QED BY <2>1, <2>2 DEF PermitsCover, Populated, Execution
<1>2. ASSUME NEW t \in Transfers, Exit(t) PROVE PermitsCover'
  <2>1. /\ UNCHANGED <<xfer, permits, job>> /\ box[t] = "populated" /\ box'[t] = "empty"
        /\ \A u \in Transfers \ {t} : box'[u] = box[u]
    BY <1>2 DEF Exit, durable, Tables, Boxes
  <2>2. \A u \in Transfers : /\ box[u] = "none" => box'[u] = "none"
                             /\ Populated(u)' => Populated(u)
                             /\ Execution(u)' = Execution(u)
    BY <2>1 DEF Populated, Execution
  <2>3. \A u \in Transfers : Populated(u)' => Execution(u)' # {}
    BY <2>2 DEF PermitsCover
  <2>4. \A u \in Transfers : xfer'[u].phase = "none" => box'[u] = "none"
    BY <2>1, <2>2 DEF PermitsCover
  <2>5. job.pc \in {"create", "attach", "release"} => Execution(job.t)' # {}
    BY <2>1 DEF PermitsCover, Execution
  <2>6. job.pc \in {"drop", "ret_permit"} => ~Populated(job.t)'
    BY <2>1, <2>2 DEF PermitsCover, Populated
  <2> QED BY <2>1, <2>2, <2>3, <2>4, <2>5, <2>6 DEF PermitsCover
<1>3. CASE BeginDeletion \/ BeginShutdown
  BY <1>3, CoverSame DEF BeginDeletion, BeginShutdown, durable, Execution
<1>4. ASSUME NEW m \in Mutators,
             \/ \E l \in Leases, T \in Targets : AcquirePermit(m, l, T)
             \/ Revalidate(m) \/ Mutate(m) \/ ReleasePermit(m)
      PROVE  PermitsCover'
  <2>1. UNCHANGED <<box, job, xfer>>
    BY <1>4 DEF AcquirePermit, Revalidate, Mutate, ReleasePermit, durable
  <2>2. \A t \in Transfers : Execution(t) \subseteq Execution(t)'
    BY <1>4 DEF AcquirePermit, Revalidate, Mutate, ReleasePermit, durable, Execution
  <2> QED BY <2>1, <2>2, CoverSame
<1> QED BY <1>1, <1>2, <1>3, <1>4

\* The containments are covered when the root lease is opened.
LEMMA CoverInit == Init => PermitsCover
BY DEF Init, PermitsCover, Populated, NoJob

\* And after every step.
LEMMA CoverNext ==
  ASSUME "terminate" \notin Faults, ScopeInv, PermitsCover, [Next]_vars
  PROVE  PermitsCover'
<1>1. CASE TransferStep
  BY <1>1, CoverJob, CoverBox DEF TransferStep
<1>2. CASE ReturnStep
  BY <1>2, CoverJob, CoverBox DEF ReturnStep
<1>3. CASE UNCHANGED vars
  BY <1>3, Facts, CoverSame DEF vars, durable, Execution
<1> QED BY <1>1, <1>2, <1>3, CoverJob, CoverRecover, CoverBeside DEF Next

\* As long as a containment that is told to terminate does: when deletion and
\* shutdown see no live child lease and no held permit and no call is under way,
\* no containment is populated, whatever else fails and whenever the daemon dies.
THEOREM CleanIsQuiet ==
  ASSUME "terminate" \notin Faults
  PROVE  Spec => []CleanMeansQuiet
<1>1. ScopeInv /\ PermitsCover /\ [Next]_vars => PermitsCover'
  BY CoverNext
<1>2. PermitsCover => CleanMeansQuiet
  BY DEF PermitsCover, CleanMeansQuiet, NothingBlocks, Execution
<1> QED BY <1>1, <1>2, CoverInit, ScopeInit, ScopeNext, PTL DEF Spec
=============================================================================
